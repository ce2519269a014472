------------------------------ MODULE ExitProofs ------------------------------
(***************************************************************************)
(* Exit: the account always holds what is offered, a lot never grows, its  *)
(* shares are offered once and never sold beyond what it had, and when it  *)
(* ends the ledger holds what its orders sold.                             *)
(*                                                                         *)
(* The induction goes in three layers.                                     *)
(*   Basic: types, what numbers refer to, what is in hand at each place,   *)
(*     the plan's snapshot.  True whatever failed.  What a step may do to  *)
(*     the broker's orders (BookStep) gives the account's shares.          *)
(*   Sure: each lot of which nothing got lost has one pending order at     *)
(*     most: one that holds or sold shares, is tracked (by the journal,    *)
(*     as its TP, or in hand) and is not taken off the lot yet.  What the  *)
(*     other orders sold and what the lot holds is within what it had.     *)
(*   Kept: the ledger's rows are what the orders sold, but for the pending *)
(*     one, and the lot is what it had less the rows, but for a row just   *)
(*     written.                                                            *)
(***************************************************************************)
EXTENDS Exit, SumProofs, SequenceTheorems

\* Where the goroutine stands
FinPCs  == {"finRecord", "finReduce", "finClose", "finDone"}
PollPCs == {"poll", "cancel"} \cup FinPCs
TpPCs   == {"tpRecord", "tpClose"}
DayPCs  == {"dayRecord", "dayReduce", "dayClear"}
ShrPCs  == {"shrRecord", "shrReduce"}
ManPCs  == {"manRecord", "manClose"}
SellPCs == {"sellCancel", "clearTp", "journal", "submit", "track", "unjournal", "askHeld"}
NewPCs  == {"submit", "track", "unjournal"}
TpsPCs  == {"tpCancel", "tpPlace", "tpSave"}
PCs == {"idle", "load", "resolve", "tpcheck", "expire", "sync", "vanish", "plan", "sell", "tps"}
       \cup PollPCs \cup TpPCs \cup DayPCs \cup ShrPCs \cup ManPCs \cup SellPCs \cup TpsPCs

\* The phase it comes back to
Backs ==
  /\ pc \in PCs
  /\ back \in {"idle", "tpcheck", "expire", "vanish", "sell", "tps"}
  /\ pc = "idle" => back = "idle"
  /\ pc \in {"load", "resolve"} => back \in {"idle", "tpcheck"}
  /\ pc \in PollPCs => back \in {"idle", "tpcheck", "tps"}
  /\ pc = "tpcheck" => back = "tpcheck"
  /\ pc \in {"expire", "sync"} \cup DayPCs \cup ShrPCs => back = "expire"
  /\ pc \in TpPCs => back \in {"tpcheck", "expire", "vanish"}
  /\ pc = "vanish" => back = "vanish"
  /\ pc = "plan" => back \in {"expire", "vanish"}
  /\ pc \in ManPCs => back \in {"vanish", "sell"}
  /\ pc \in {"sell"} \cup SellPCs => back = "sell"
  /\ pc \in {"tps"} \cup TpsPCs => back = "tps"

\* What is referred to was made, and for that lot
NoneOr(l) == {0} \cup Of(l)
Referred ==
  /\ \A n \in Orders : jour[n] # "none" => n \in Made
  /\ work \cup todo \cup placed \cup told \subseteq Made
  /\ \A l \in Lots : tp[l] \in NoneOr(l) /\ ptp[l] \in NoneOr(l) /\ plan.tp[l] \in NoneOr(l)

\* The orders
IsBook == book \in Seq(Order)
Ordered ==
  /\ session = "closed" => day < MaxDays
  /\ \A n \in Made : /\ Live(n) => book[n].filled < book[n].size /\ book[n].day = day
                     /\ book[n].state = "unsent" => book[n].filled = 0

\* The engine holds no more of a lot than the store
Engine ==
  \A l \in Lots : /\ pos[l] <= qty[l]
                  /\ row[l] = "closed" => pos[l] = 0
                  /\ pos[l] = 0 => ptp[l] = 0

\* What is in hand, at each place
HandFin  == cur \in work /\ lot = book[cur].lot
HandTp   == lot \in OpenLots \ lots /\ ~Working(lot) /\ cur \in Of(lot) /\ seen > 0
HandDay  == lot \in Has /\ ~Working(lot) /\ cur = ptp[lot] /\ cur # 0
HandShr  == lot \in OpenLots /\ ~Working(lot) /\ 0 < seen /\ seen < qty[lot]
HandMan  == /\ lot \in OpenLots /\ ~Working(lot) /\ cur = tp[lot] /\ seen > 0
            /\ lot \in (IF back = "sell" THEN spent ELSE Lots \ lots)
HandSell == lot \in Has \cap spent /\ ~Working(lot) /\ 1 <= seen /\ seen <= pos[lot]
HandNew  == cur \in Of(lot) /\ jour[cur] \in {"none", "pre"} /\ tp[lot] # cur /\ book[cur].size = seen
HandTps  == lot \in Has \ (lots \cup spent) /\ ~Working(lot) /\ seen = pos[lot]
HandSave == cur \in Of(lot) /\ jour[cur] = "none" /\ tp[lot] # cur /\ ptp[lot] # cur /\ book[cur].size = seen
Handy ==
  /\ pc \in {"cancel"} \cup FinPCs => HandFin
  /\ pc = "finReduce" => lot \in Has /\ seen > 0 /\ Remainder > 0
  /\ pc = "finClose" => lot \in Has /\ seen > 0 /\ Drops
  /\ pc \in TpPCs => HandTp
  /\ pc \in DayPCs => HandDay
  /\ pc \in {"dayRecord", "dayReduce"} => 0 < seen /\ seen < pos[lot]
  /\ pc \in ShrPCs => HandShr
  /\ pc \in ManPCs => HandMan
  /\ pc \in SellPCs => HandSell
  /\ pc \in {"sellCancel", "clearTp", "tpCancel"} => cur = ptp[lot] /\ cur # 0
  /\ pc = "clearTp" => ~Live(cur)
  /\ pc \in {"journal", "askHeld"} \cup NewPCs => ptp[lot] = 0
  /\ pc \in {"sellCancel", "clearTp", "journal", "tpCancel", "tpPlace"} => Len(book) < MaxOrders
  /\ pc \in NewPCs => HandNew
  /\ pc = "submit" => book[cur].state = "unsent"
  /\ pc \in TpsPCs => HandTps
  /\ pc = "tpPlace" => ptp[lot] = 0 \/ ~Live(ptp[lot])
  /\ pc = "tpSave" => HandSave

\* The lots of a phase
Visited ==
  /\ back = "vanish" => Held = 0 /\ \A l \in lots : row[l] = "open" /\ ~Working(l)
  /\ pc \in ManPCs => Held = 0

\* TPs that die with their session
Expiring ==
  back = "expire" /\ pc \in {"expire"} \cup TpPCs \cup DayPCs =>
    \A l \in lots : ptp[l] # 0 => session = "closed" \/ ~Live(ptp[l])

\* Orders whose fate is asked for after a start were never confirmed
Resolving == pc = "resolve" => \A n \in todo : jour[n] = "pre"

\* The plan's snapshot
InSell == pc \in {"sell"} \cup SellPCs \/ (pc \in ManPCs /\ back = "sell")
SameAsPlan(l) == plan.qty[l] = pos[l] /\ plan.tp[l] = ptp[l]
Snapshot ==
  /\ ~InSell => placed = {}
  /\ InSell => \A n \in placed : book[n].lot \in spent
  /\ pc \in PollPCs /\ back = "tps" =>
       /\ \A n \in todo : book[n].lot \in spent
       /\ pc # "poll" => lot \in spent
  /\ InSell \/ (pc \in PollPCs /\ back = "tps") =>
       \A l \in Lots \ spent : SameAsPlan(l)
  /\ pc \in {"tps"} \cup TpsPCs => \A l \in lots \ spent : SameAsPlan(l)

\* A new stop or time exit writes an untouched lot as the engine has it
Rewrites(l) ==
  /\ pc = "tps" /\ l \in Has /\ ~Working(l)
  /\ UNCHANGED <<row, jour, ledger, book, account, engine, memory, pc, hand, agenda, tick, history>>
  /\ \/ UNCHANGED <<qty, tp>>
     \/ qty' = [qty EXCEPT ![l] = pos[l]] /\ tp' = [tp EXCEPT ![l] = ptp[l]]

\* Orders that hold shares or sold some; those the cockpit knows; those that are
\* not taken off their lot
Active(n) == Live(n) \/ book[n].filled > 0
InHand == IF pc \in {"track", "tpSave"} THEN cur ELSE 0
Tracked(l) == {n \in Of(l) : jour[n] = "open" \/ n = tp[l] \/ n = InHand}
Pending(l) == {n \in Tracked(l) : Active(n)}
Early == ~loaded /\ pc \in {"idle", "load"}

Mirrored(l) == pos[l] = IF row[l] = "open" THEN qty[l] ELSE 0
TpKnown(l) ==
  row[l] = "open" => \A n \in Of(l) : n \in {tp[l], ptp[l]} /\ Active(n) =>
     tp[l] = n /\ ptp[l] = n /\ book[n].size = qty[l] /\ (book[n].filled > 0 => book[n].day = day)
Worked(l) == \A n \in Of(l) : /\ n \in work => jour[n] = "open"
                              /\ jour[n] = "open" /\ n \notin work /\ Active(n) => Early
OnePending(l) == \A m, n \in Pending(l) : m = n
Offered(l) == /\ \A m, n \in Of(l) : Live(m) /\ Live(n) => m = n
              /\ session = "open" => \A n \in Of(l) :
                   Live(n) => n \in Tracked(l) /\ row[l] = "open" /\ book[n].size <= qty[l]
Balanced(l) ==
  /\ FilledOf(l) <= EntryQty[l]
  /\ row[l] = "open" =>
       /\ Pending(l) = {} => FilledOf(l) + qty[l] <= EntryQty[l]
       /\ \A n \in Pending(l) : FilledOf(l) - book[n].filled + qty[l] <= EntryQty[l]

LotOK(l) == Mirrored(l) /\ TpKnown(l) /\ Worked(l) /\ OnePending(l) /\ Offered(l) /\ Balanced(l)

\* What is known of the order in hand, for such a lot
HandSure ==
  /\ pc \in FinPCs => ~Live(cur) /\ seen = book[cur].filled
  /\ pc = "finDone" /\ seen > 0 =>
       \A l \in Lots : l = lot /\ row[l] = "open" => FilledOf(l) + qty[l] <= EntryQty[l]
  /\ pc \in TpPCs => ~Live(cur) /\ cur = tp[lot] /\ cur = ptp[lot] /\ seen = book[cur].filled /\ seen = qty[lot]
  /\ pc \in DayPCs => session = "closed" \/ ~Live(cur)
  /\ pc \in {"dayRecord", "dayReduce"} => seen = book[cur].filled
  /\ pc = "dayClear" => book[cur].filled = 0
  /\ pc \in ShrPCs => tp[lot] = 0 \/ ~Live(tp[lot]) \/ book[tp[lot]].filled > 0
  /\ pc = "clearTp" => ~Active(cur)
  /\ pc \in {"tpPlace", "tpSave"} => ptp[lot] = 0 \/ ~Active(ptp[lot])
  /\ pc = "tpSave" => cur \notin told /\ (book[cur].filled > 0 => book[cur].day = day)
  /\ pc \in ManPCs => seen = qty[lot]
HandOK == lot \in Lots \ astray => HandSure

LotsOK == \A l \in Lots \ astray : LotOK(l)
-----------------------------------------------------------------------------
(* The broker's orders: what a step may do to them.                        *)

\* Before the first TP the plan's snapshot of an untouched lot is what the engine has,
\* so that armStop and setTimeExit leave the engine's lot as it is.
LEMMA UpdateIs ==
  ASSUME TypeOK, Snapshot, NEW l \in Lots, ArmStop(l) \/ SetTimeExit(l)
  PROVE  Rewrites(l)
<1>1. pc = "tps" /\ lots = Lots /\ plan.qty[l] > 0 /\ l \notin spent /\ ~Working(l)
  BY DEF ArmStop, SetTimeExit, BeforeTps, Untouched
<1>2. plan.qty[l] = pos[l] /\ plan.tp[l] = ptp[l]
  BY <1>1 DEF Snapshot, SameAsPlan
<1>3. pos \in [Lots -> Nat] /\ ptp \in [Lots -> 0 .. MaxOrders]
  BY DEF TypeOK
<1>4. SnapshotBack(l) => UNCHANGED engine
  BY <1>2, <1>3 DEF SnapshotBack, engine
<1>5. CASE ArmStop(l)
  BY <1>1, <1>2, <1>4, <1>5 DEF ArmStop, Rewrites, Has
<1>6. CASE SetTimeExit(l)
  BY <1>1, <1>2, <1>4, <1>6 DEF SetTimeExit, Rewrites, Has, rows
<1> QED BY <1>5, <1>6

\* The orders are numbered from 1.
LEMMA Numbers ==
  ASSUME book \in Seq(Order), Len(book) <= MaxOrders
  PROVE  /\ Len(book) \in Nat /\ Made = 1 .. Len(book) /\ Made \subseteq Orders /\ IsFiniteSet(Made)
         /\ book \in [Made -> Order] /\ 0 \notin Made
<1>1. Len(book) \in Nat /\ Made = 1 .. Len(book) /\ book \in [Made -> Order]
  BY LenProperties DEF Made
<1>2. IsFiniteSet(1 .. Len(book))
  BY <1>1, FS_Interval
<1> QED
  BY <1>1, <1>2, ExitAssumption DEF Orders

\* What is numbered from 1 is a sequence.
LEMMA SeqIs ==
  ASSUME NEW S, NEW k \in Nat, NEW b \in [1 .. k -> S]
  PROVE  b \in Seq(S) /\ Len(b) = k /\ DOMAIN b = 1 .. k
<1>1. b \in Seq(S)
  BY SeqDef
<1>2. 1 .. Len(b) = 1 .. k /\ Len(b) \in Nat
  BY <1>1, LenProperties
<1> QED
  BY <1>1, <1>2

\* Order n changes, the others stay as they are
OneChanges(n) ==
  /\ n \in Made /\ Made' = Made /\ Len(book') = Len(book)
  /\ \A m \in Made \ {n} : book'[m] = book[m]
  /\ book'[n].lot = book[n].lot /\ book'[n].size = book[n].size

\* It fills by a share; it ends; it is accepted
Fills(n) ==
  /\ OneChanges(n) /\ Live(n) /\ session = "open"
  /\ book'[n].filled = book[n].filled + 1 /\ book'[n].day = book[n].day
  /\ book'[n].state = IF book[n].filled + 1 = book[n].size THEN "dead" ELSE "live"
Dies(n) ==
  /\ OneChanges(n) /\ Live(n) /\ book'[n].state = "dead"
  /\ book'[n].filled = book[n].filled /\ book'[n].day = book[n].day
Accepted(n) ==
  /\ OneChanges(n) /\ n = cur /\ pc = "submit" /\ session = "open" /\ Free >= seen
  /\ book'[n].state = "live" /\ book'[n].day = day /\ book'[n].filled = book[n].filled

\* A new order, of an exit or a TP
Appends(st) ==
  LET n == Len(book) + 1 IN
  /\ n \notin Made /\ Made' = Made \cup {n} /\ Len(book') = n
  /\ \A m \in Made : book'[m] = book[m]
  /\ book'[n] = [lot |-> lot, kind |-> book'[n].kind, size |-> seen, day |-> day, state |-> st, filled |-> 0]
  /\ IF st = "unsent" THEN pc = "journal" ELSE pc = "tpPlace" /\ session = "open" /\ Free >= seen

\* A night
Night ==
  /\ Made' = Made /\ Len(book') = Len(book)
  /\ session = "closed" /\ session' = "open" /\ day' = day + 1 /\ byHand' = [byHand EXCEPT !.today = 0]
  /\ \A n \in Made : /\ book'[n].lot = book[n].lot /\ book'[n].size = book[n].size
                     /\ book'[n].day = book[n].day /\ book'[n].filled = book[n].filled
                     /\ book'[n].state = IF Live(n) THEN "dead" ELSE book[n].state

\* All that a step may do
BookStays == UNCHANGED <<book, account>>
OneMoves  == UNCHANGED account /\ \E n \in Made : Fills(n) \/ Dies(n) \/ Accepted(n)
OneMore   == UNCHANGED account /\ \E st \in {"unsent", "live"} : Appends(st)
BookStep  == BookStays \/ SellByHand \/ CloseSession \/ OneMoves \/ OneMore \/ Night

\* An order that fills.
LEMMA FillIs ==
  ASSUME TypeOK, NEW n \in Made, FillOrder(n)
  PROVE  Fills(n) /\ book' \in Seq(Order)
<1> DEFINE s == IF book[n].filled + 1 = book[n].size THEN "dead" ELSE book[n].state
           x == [book[n] EXCEPT !.filled = @ + 1, !.state = s]
<1>1. book[n] \in Order /\ book \in [1 .. Len(book) -> Order] /\ n \in 1 .. Len(book) /\ Len(book) \in Nat
  BY Numbers DEF TypeOK
<1>2. book' = [book EXCEPT ![n] = x]
  BY <1>1 DEF FillOrder
<1>3. x \in Order
  <2>1. s \in {"unsent", "live", "dead"} /\ book[n].filled + 1 \in Nat
    BY <1>1 DEF Order
  <2> HIDE DEF s
  <2> QED BY <1>1, <2>1 DEF Order
<1>4. x.lot = book[n].lot /\ x.size = book[n].size /\ x.day = book[n].day /\ x.filled = book[n].filled + 1
      /\ x.state = s
  BY <1>1 DEF Order
<1> HIDE DEF x
<1>5. book' \in [1 .. Len(book) -> Order] /\ book'[n] = x
      /\ \A m \in 1 .. Len(book) : m # n => book'[m] = book[m]
  BY <1>1, <1>2, <1>3
<1>6. book' \in Seq(Order) /\ Len(book') = Len(book) /\ DOMAIN book' = 1 .. Len(book)
  BY <1>1, <1>5, SeqIs
<1>7. OneChanges(n)
  BY <1>1, <1>4, <1>5, <1>6 DEF OneChanges, Made
<1> QED
  BY <1>4, <1>5, <1>6, <1>7 DEF Fills, FillOrder, Live

\* An order that ends.
LEMMA DieIs ==
  ASSUME TypeOK, NEW n \in Made, Live(n), book' = [book EXCEPT ![n].state = "dead"]
  PROVE  Dies(n) /\ book' \in Seq(Order)
<1> DEFINE x == [book[n] EXCEPT !.state = "dead"]
<1>1. book[n] \in Order /\ book \in [1 .. Len(book) -> Order] /\ n \in 1 .. Len(book) /\ Len(book) \in Nat
  BY Numbers DEF TypeOK
<1>2. book' = [book EXCEPT ![n] = x]
  BY <1>1
<1>3. x \in Order
  BY <1>1 DEF Order
<1>4. x.lot = book[n].lot /\ x.size = book[n].size /\ x.day = book[n].day /\ x.filled = book[n].filled
      /\ x.state = "dead"
  BY <1>1 DEF Order
<1> HIDE DEF x
<1>5. book' \in [1 .. Len(book) -> Order] /\ book'[n] = x
      /\ \A m \in 1 .. Len(book) : m # n => book'[m] = book[m]
  BY <1>1, <1>2, <1>3
<1>6. book' \in Seq(Order) /\ Len(book') = Len(book) /\ DOMAIN book' = 1 .. Len(book)
  BY <1>1, <1>5, SeqIs
<1>7. OneChanges(n)
  BY <1>1, <1>4, <1>5, <1>6 DEF OneChanges, Made
<1> QED
  BY <1>4, <1>5, <1>6, <1>7 DEF Dies

\* An order that the broker takes.
LEMMA AcceptIs ==
  ASSUME TypeOK, cur \in Made, Accept(cur), pc = "submit", session = "open", Free >= seen
  PROVE  Accepted(cur) /\ book' \in Seq(Order)
<1> DEFINE x == [book[cur] EXCEPT !.state = "live", !.day = day]
<1>1. book[cur] \in Order /\ book \in [1 .. Len(book) -> Order] /\ cur \in 1 .. Len(book)
      /\ Len(book) \in Nat /\ day \in 0 .. MaxDays
  BY Numbers DEF TypeOK
<1>2. book' = [book EXCEPT ![cur] = x]
  BY <1>1 DEF Accept
<1>3. x \in Order
  BY <1>1 DEF Order
<1>4. x.lot = book[cur].lot /\ x.size = book[cur].size /\ x.day = day /\ x.filled = book[cur].filled
      /\ x.state = "live"
  BY <1>1 DEF Order
<1> HIDE DEF x
<1>5. book' \in [1 .. Len(book) -> Order] /\ book'[cur] = x
      /\ \A m \in 1 .. Len(book) : m # cur => book'[m] = book[m]
  BY <1>1, <1>2, <1>3
<1>6. book' \in Seq(Order) /\ Len(book') = Len(book) /\ DOMAIN book' = 1 .. Len(book)
  BY <1>1, <1>5, SeqIs
<1>7. OneChanges(cur)
  BY <1>1, <1>4, <1>5, <1>6 DEF OneChanges, Made
<1> QED
  BY <1>4, <1>5, <1>6, <1>7 DEF Accepted

\* An order that is added.
LEMMA AddIs ==
  ASSUME TypeOK, NEW k, NEW st, k \in {"exit", "tp"}, st \in {"unsent", "live"}, NewOrder(lot, k, seen, st),
         lot \in Lots,
         IF st = "unsent" THEN pc = "journal" ELSE pc = "tpPlace" /\ session = "open" /\ Free >= seen
  PROVE  Appends(st) /\ book' \in Seq(Order) /\ book'[Len(book) + 1].kind = k
<1> DEFINE x == [lot |-> lot, kind |-> k, size |-> seen, day |-> day, state |-> st, filled |-> 0]
<1>1. book \in [1 .. Len(book) -> Order] /\ Made = 1 .. Len(book) /\ Len(book) \in Nat
      /\ day \in 0 .. MaxDays /\ seen \in Nat
  BY Numbers DEF TypeOK
<1>2. x \in Order
  BY <1>1 DEF Order
<1>3. book' = Append(book, x)
  BY DEF NewOrder
<1>4. x.kind = k
  OBVIOUS
<1> HIDE DEF x
<1>5. book' \in Seq(Order) /\ Len(book') = Len(book) + 1 /\ book'[Len(book) + 1] = x
      /\ \A m \in 1 .. Len(book) : book'[m] = book[m]
  BY <1>2, <1>3, AppendProperties DEF TypeOK
<1>6. DOMAIN book' = 1 .. Len(book) + 1
  BY <1>5, LenProperties
<1>7. Made' = Made \cup {Len(book) + 1} /\ Len(book) + 1 \notin Made
  BY <1>1, <1>6 DEF Made
<1>8. book'[Len(book) + 1] =
        [lot |-> lot, kind |-> book'[Len(book) + 1].kind, size |-> seen, day |-> day, state |-> st, filled |-> 0]
  BY <1>4, <1>5 DEF x
<1> QED
  BY <1>1, <1>4, <1>5, <1>7, <1>8 DEF Appends

\* A night ends all orders.
LEMMA NightIs ==
  ASSUME TypeOK, NewDay
  PROVE  Night /\ book' \in Seq(Order)
<1> DEFINE x(n) == [book[n] EXCEPT !.state = IF @ = "live" THEN "dead" ELSE @]
<1>1. book \in [1 .. Len(book) -> Order] /\ Made = 1 .. Len(book) /\ Len(book) \in Nat
  BY Numbers DEF TypeOK
<1>2. book' = [n \in 1 .. Len(book) |-> x(n)]
  BY <1>1 DEF NewDay
<1>3. \A n \in 1 .. Len(book) : book[n] \in Order
  BY <1>1
<1>4. \A n \in 1 .. Len(book) :
        /\ x(n) \in Order /\ x(n).lot = book[n].lot /\ x(n).size = book[n].size
        /\ x(n).day = book[n].day /\ x(n).filled = book[n].filled
        /\ x(n).state = IF book[n].state = "live" THEN "dead" ELSE book[n].state
  BY <1>3 DEF Order
<1> HIDE DEF x
<1>5. book' \in [1 .. Len(book) -> Order] /\ \A n \in 1 .. Len(book) : book'[n] = x(n)
  BY <1>2, <1>4
<1>6. book' \in Seq(Order) /\ Len(book') = Len(book) /\ DOMAIN book' = 1 .. Len(book)
  BY <1>1, <1>5, SeqIs
<1> QED
  BY <1>1, <1>4, <1>5, <1>6 DEF Night, Made, Live, NewDay
-----------------------------------------------------------------------------
\* The order in hand was made, and the lot in hand is a lot.
LEMMA CurMade ==
  ASSUME TypeOK, Referred, Handy
  PROVE  /\ pc \in {"cancel", "sellCancel", "tpCancel", "clearTp", "submit", "track", "unjournal", "tpSave"}
              \cup FinPCs \cup TpPCs \cup DayPCs => cur \in Made
         /\ pc \in {"cancel"} \cup FinPCs \cup TpPCs \cup DayPCs \cup ShrPCs \cup ManPCs \cup SellPCs \cup TpsPCs
              => lot \in Lots
<1> USE DEF FinPCs, TpPCs, DayPCs, ShrPCs, ManPCs, SellPCs, TpsPCs, NewPCs
<1>1. ASSUME pc \in {"cancel"} \cup FinPCs
      PROVE  cur \in Made /\ lot \in Lots
  BY <1>1, Numbers DEF Handy, HandFin, Referred, TypeOK, Order
<1>2. ASSUME pc \in TpPCs \cup DayPCs \cup ShrPCs \cup ManPCs \cup SellPCs \cup TpsPCs
      PROVE  lot \in Lots
  BY <1>2 DEF Handy, HandTp, HandDay, HandShr, HandMan, HandSell, HandTps, Has, OpenLots
<1>3. ASSUME pc \in {"sellCancel", "tpCancel", "clearTp", "submit", "track", "unjournal", "tpSave"} \cup TpPCs \cup DayPCs
      PROVE  cur \in Of(lot)
  BY <1>2, <1>3 DEF Handy, HandTp, HandDay, HandNew, HandSave, Referred, NoneOr
<1> QED
  BY <1>1, <1>2, <1>3 DEF Of

\* What a step may do to the orders.
LEMMA BookSteps ==
  ASSUME TypeOK, Referred, Handy, [Next]_vars
  PROVE  BookStep /\ IsBook'
<1> USE DEF FinPCs, TpPCs, SellPCs, TpsPCs
<1>0. book \in Seq(Order)
  BY DEF TypeOK
<1>1. CASE Following
  BY <1>1, <1>0
     DEF Following, Begin, Load, LoadFails, Loaded, Resolve, BookStep, BookStays, IsBook,
         account
<1>2. CASE Polling
  <2>1. CASE Cancel
    BY <1>0, <2>1, CurMade, DieIs DEF BookStep, OneMoves, IsBook, Cancel, account
  <2>2. CASE (\E n \in Orders : PollWaits(n)) \/ (\E n \in Orders : PollEnds(n)) \/
             (\E n \in Orders : PollCloses(n)) \/ CancelFails \/ PollsDone \/ FinNothing \/
             FinRecord \/ FinReduce \/ FinClose \/ FinDone
    BY <2>2, <1>0
       DEF PollWaits, PollEnds, PollCloses, CancelFails, PollsDone, FinNothing, FinRecord,
           FinReduce, FinClose, FinDone, BookStep, BookStays, IsBook, account
  <2> QED BY <1>2, <2>1, <2>2 DEF Polling
<1>3. CASE Profits
  BY <1>3, <1>0
     DEF Profits, TpRecord, TpClose, TpChecked, DayRecord, DayReduce, DayClear, Expired,
         TpCheck, Expire, BookStep, BookStays, IsBook, account
<1>4. CASE Syncing
  BY <1>4, <1>0
     DEF Syncing, SyncFails, SyncVanished, SyncLots, Vanished, ShrRecord, ShrReduce, ManRecord,
         ManClose, SyncShrinks, VanishTp, VanishManual, BookStep, BookStays, IsBook, account
<1>5. CASE Selling
  <2>1. CASE SellCancel
    BY <1>0, <2>1, CurMade, DieIs DEF BookStep, BookStays, OneMoves, IsBook, SellCancel, account
  <2>2. CASE Journal
    BY <1>0, <2>2, CurMade, AddIs DEF BookStep, OneMore, IsBook, Journal, account
  <2>3. CASE SubmitAccepted
    BY <1>0, <2>3, CurMade, AcceptIs DEF BookStep, OneMoves, IsBook, SubmitAccepted, account
  <2>4. CASE SubmitMaybe
    BY <1>0, <2>4, CurMade, AcceptIs DEF BookStep, BookStays, OneMoves, IsBook, SubmitMaybe, account
  <2>5. CASE MakePlan \/ SellCancelLost \/ ClearTp \/ SubmitRefused \/ Track \/ Unjournal \/
             SellFailed \/ SellsDone \/
             (\E l \in Lots : \E q \in 1 .. EntryQty[l] : Sell(l, q))
    BY <2>5, <1>0
       DEF MakePlan, SellCancelLost, ClearTp, SubmitRefused, Track, Unjournal, SellFailed,
           SellsDone, Sell, BookStep, BookStays, IsBook, account
  <2> QED BY <1>5, <2>1, <2>2, <2>3, <2>4, <2>5 DEF Selling
<1>6. CASE Delegating
  <2>1. CASE TpCancel
    BY <1>0, <2>1, CurMade, DieIs DEF BookStep, BookStays, OneMoves, IsBook, TpCancel, account
  <2>2. CASE TpAccepted
    BY <1>0, <2>2, CurMade, AddIs DEF BookStep, OneMore, IsBook, TpAccepted, account
  <2>3. CASE TpMaybe
    BY <1>0, <2>3, CurMade, AddIs DEF BookStep, OneMore, IsBook, TpMaybe, account
  <2>4. CASE TpCancelLost \/ TpRefused \/ TpSave \/ TickDone \/ (\E l \in Lots : PlanTp(l))
    BY <2>4, <1>0
       DEF TpCancelLost, TpRefused, TpSave, TickDone, PlanTp, BookStep, BookStays, IsBook,
           account
  <2>5. CASE \E l \in Lots : ArmStop(l) \/ SetTimeExit(l)
    BY <2>5, <1>0 DEF ArmStop, SetTimeExit, BookStep, BookStays, IsBook, account
  <2> QED BY <1>6, <2>1, <2>2, <2>3, <2>4, <2>5 DEF Delegating
<1>7. CASE World
  <2>1. ASSUME NEW n \in Made, FillOrder(n)
        PROVE  BookStep /\ IsBook'
    BY <1>0, <2>1, FillIs DEF BookStep, OneMoves, IsBook, FillOrder, account
  <2>2. ASSUME NEW n \in Made, KillOrder(n)
        PROVE  BookStep /\ IsBook'
    BY <1>0, <2>2, DieIs DEF BookStep, OneMoves, IsBook, KillOrder, account
  <2>3. CASE NewDay
    BY <1>0, <2>3, NightIs DEF BookStep, IsBook
  <2>4. CASE SellByHand \/ CloseSession \/ (\E l \in Lots : RestOver(l))
    BY <2>4, <1>0
       DEF SellByHand, CloseSession, RestOver, BookStep, BookStays, IsBook, account
  <2> QED BY <1>7, <2>1, <2>2, <2>3, <2>4 DEF World
<1>8. CASE Crash
  BY <1>8, <1>0
     DEF Crash, BookStep, BookStays, IsBook, account
<1>9. CASE UNCHANGED vars
  BY <1>9, <1>0
     DEF vars, BookStep, BookStays, IsBook, account
<1> QED
  BY <1>1, <1>2, <1>3, <1>4, <1>5, <1>6, <1>7, <1>8, <1>9 DEF Next
-----------------------------------------------------------------------------
(* Shares of the account.                                                  *)

Locks == [n \in Made |-> IF Live(n) THEN book[n].size - book[n].filled ELSE 0]

\* The sums of the model, over the orders made.
LEMMA SumsAre ==
  /\ Held = SumFunctionOnSet(EntryQty, Lots) + Outside - byHand.all - SumFunctionOnSet(Filled, Made)
  /\ Locked = SumFunctionOnSet(Locks, Made)
  /\ Held' = SumFunctionOnSet(EntryQty, Lots) + Outside - byHand'.all - SumFunctionOnSet(Filled', Made')
  /\ Locked' = SumFunctionOnSet(Locks', Made')
BY ExitAssumption DEF Held, Locked, Locks, Filled, SumFunction

\* Their amounts.
LEMMA Amounts ==
  ASSUME TypeOK
  PROVE  /\ \A n \in Made : Filled[n] = book[n].filled /\ Filled[n] \in Nat
         /\ \A n \in Made : Locks[n] \in Nat
                            /\ Locks[n] = IF Live(n) THEN book[n].size - book[n].filled ELSE 0
         /\ SumFunctionOnSet(Filled, Made) \in Nat /\ SumFunctionOnSet(Locks, Made) \in Nat
         /\ SumFunctionOnSet(EntryQty, Lots) \in Int
         /\ Held \in Nat /\ Locked \in Nat /\ Locked <= Held /\ Free = Held - Locked /\ Free \in Nat
<1>1. \A n \in Made : book[n] \in Order /\ book[n].filled <= book[n].size
  BY Numbers DEF TypeOK
<1>2. \A n \in Made : Filled[n] = book[n].filled /\ Filled[n] \in Nat
  BY <1>1 DEF Filled, Order
<1>3. \A n \in Made : Locks[n] \in Nat
                      /\ Locks[n] = IF Live(n) THEN book[n].size - book[n].filled ELSE 0
  BY <1>1 DEF Locks, Order
<1>4. IsFiniteSet(Made)
  BY Numbers DEF TypeOK
<1>5. SumFunctionOnSet(Filled, Made) \in Nat /\ SumFunctionOnSet(Locks, Made) \in Nat
  BY <1>2, <1>3, <1>4, SumPart
<1>6. SumFunctionOnSet(EntryQty, Lots) \in Int
  <2>1. IsFiniteSet(Lots) /\ \A l \in Lots : EntryQty[l] \in Int
    BY ExitAssumption
  <2> QED BY <2>1, SumType
<1>7. byHand.all \in Nat /\ Outside \in Nat
  BY ExitAssumption DEF TypeOK
<1>8. Held \in Int /\ Locked \in Nat
  BY <1>5, <1>6, <1>7, SumsAre
<1>9. Held >= 0 /\ Free >= 0
  BY DEF TypeOK
<1> QED
  BY <1>2, <1>3, <1>5, <1>6, <1>8, <1>9 DEF Free

\* A live order holds its shares, so none is live when the account has no share.
LEMMA LiveHolds ==
  ASSUME TypeOK, Ordered, NEW n \in Made, Live(n)
  PROVE  book[n].size - book[n].filled > 0 /\ book[n].size - book[n].filled <= Held
<1>1. IsFiniteSet(Made) /\ book[n] \in Order
  BY Numbers DEF TypeOK
<1>2. SumFunctionOnSet(Locks, Made) = Locks[n] + SumFunctionOnSet(Locks, Made \ {n})
  BY <1>1, Amounts, SumTake
<1>3. SumFunctionOnSet(Locks, Made \ {n}) \in Nat
  BY <1>1, Amounts, SumPart
<1>4. Locked = Locks[n] + SumFunctionOnSet(Locks, Made \ {n}) /\ Locks[n] = book[n].size - book[n].filled
      /\ Locks[n] \in Nat
  BY <1>2, SumsAre, Amounts
<1>5. book[n].size - book[n].filled > 0
  BY <1>1 DEF Ordered, Order
<1> QED
  BY <1>3, <1>4, <1>5, Amounts

\* No step takes more than there is, and shares do not come back.
LEMMA SharesNext ==
  ASSUME TypeOK, Ordered, Referred, Handy, BookStep, IsBook'
  PROVE  Held' \in Nat /\ Free' >= 0 /\ Held' <= Held
<1> DEFINE F == SumFunctionOnSet(Filled, Made)
           L == SumFunctionOnSet(Locks, Made)
           FF == SumFunctionOnSet(Filled', Made')
           LL == SumFunctionOnSet(Locks', Made')
           E == SumFunctionOnSet(EntryQty, Lots)
<1>1. /\ F \in Nat /\ L \in Nat /\ E \in Int /\ Outside \in Nat /\ byHand.all \in Nat
      /\ Held = E + Outside - byHand.all - F /\ Locked = L /\ Free = Held - Locked
      /\ Held \in Nat /\ Free \in Nat
  BY Amounts, SumsAre, ExitAssumption DEF TypeOK
<1>2. Held' = E + Outside - byHand'.all - FF /\ Locked' = LL /\ Free' = Held' - Locked'
  BY SumsAre DEF Free
<1>3. /\ IsFiniteSet(Made) /\ \A n \in Made : Filled[n] \in Int /\ Locks[n] \in Int
      /\ \A n \in Made : book[n] \in Order /\ Filled[n] = book[n].filled
                         /\ Locks[n] = IF Live(n) THEN book[n].size - book[n].filled ELSE 0
  <2>1. IsFiniteSet(Made) /\ \A n \in Made : book[n] \in Order
    BY Numbers DEF TypeOK
  <2>2. \A n \in Made : Filled[n] = book[n].filled /\ Filled[n] \in Nat
    BY Amounts
  <2>3. \A n \in Made : Locks[n] \in Nat
                        /\ Locks[n] = IF Live(n) THEN book[n].size - book[n].filled ELSE 0
    BY Amounts
  <2> QED BY <2>1, <2>2, <2>3
<1>4. \A n \in Made' : /\ Filled'[n] = book'[n].filled
                       /\ Locks'[n] = IF Live(n)' THEN book'[n].size - book'[n].filled ELSE 0
  BY DEF Filled, Locks
<1> HIDE DEF F, L, FF, LL, E
<1>5. ASSUME NEW n, OneChanges(n), book'[n].filled \in Int
      PROVE  /\ n \in Made /\ FF = F - book[n].filled + book'[n].filled
             /\ LL = L - Locks[n] + (IF Live(n)' THEN book[n].size - book'[n].filled ELSE 0)
  <2>1. Made' = Made /\ n \in Made /\ \A m \in Made \ {n} : book'[m] = book[m]
    BY <1>5 DEF OneChanges
  <2>2. \A m \in Made \ {n} : Filled'[m] = Filled[m] /\ Locks'[m] = Locks[m]
    BY <1>3, <1>4, <2>1 DEF Live
  <2>3. \A m \in Made : Filled'[m] \in Int /\ Locks'[m] \in Int
    <3>1. book'[n].size \in Int
      BY <1>3, <1>5 DEF OneChanges, Order
    <3>2. Filled'[n] \in Int /\ Locks'[n] \in Int
      BY <1>4, <1>5, <2>1, <3>1
    <3> QED BY <1>3, <2>1, <2>2, <3>2
  <2>4. FF = F - Filled[n] + Filled'[n]
    BY <1>3, <2>1, <2>2, <2>3, SumChange DEF F, FF
  <2>5. LL = L - Locks[n] + Locks'[n]
    BY <1>3, <2>1, <2>2, <2>3, SumChange DEF L, LL
  <2> QED BY <1>3, <1>4, <1>5, <2>1, <2>4, <2>5 DEF OneChanges
<1>6. CASE BookStays
  <2>1. FF = F /\ LL = L /\ byHand' = byHand
    BY <1>6 DEF BookStays, F, FF, L, LL, Filled, Locks, Made, Live, account
  <2> QED BY <1>1, <1>2, <2>1
<1>7. CASE SellByHand
  <2>1. FF = F /\ LL = L /\ byHand'.all = byHand.all + 1 /\ Free > 0
    BY <1>7 DEF F, FF, L, LL, Filled, Locks, Made, Live, SellByHand
  <2>2. Held' = Held - 1 /\ Free' = Free - 1
    BY <1>1, <1>2, <2>1
  <2> QED BY <1>1, <2>1, <2>2
<1>8. CASE CloseSession
  <2>1. FF = F /\ LL = L /\ byHand' = byHand
    BY <1>8 DEF F, FF, L, LL, Filled, Locks, Made, Live, CloseSession
  <2> QED BY <1>1, <1>2, <2>1
<1>9. ASSUME UNCHANGED account, NEW n \in Made, Fills(n)
      PROVE  Held' \in Nat /\ Free' >= 0 /\ Held' <= Held
  <2>1. OneChanges(n) /\ Live(n) /\ book'[n].filled = book[n].filled + 1 /\ byHand' = byHand
    BY <1>9 DEF Fills, account
  <2>2. book[n].filled \in Nat /\ book[n].size \in Nat /\ book[n].filled < book[n].size
    BY <1>3, <2>1 DEF Ordered, Order
  <2>3. IF Live(n)' THEN TRUE ELSE book[n].filled + 1 = book[n].size
    BY <1>9 DEF Fills, Live
  <2>4. FF = F + 1 /\ LL = L - 1
    BY <1>1, <1>3, <1>5, <2>1, <2>2, <2>3
  <2>5. Held - Locked \in Nat /\ Locked = Locks[n] + (Locked - Locks[n]) /\ Locked <= Held
    BY <1>1, <1>3, <2>1, <2>2
  <2>6. Held >= 1
    BY <1>1, <1>9, <2>1, <2>2, LiveHolds
  <2> QED BY <1>1, <1>2, <2>1, <2>4, <2>6
<1>10. ASSUME UNCHANGED account, NEW n \in Made, Dies(n)
      PROVE  Held' \in Nat /\ Free' >= 0 /\ Held' <= Held
  <2>1. OneChanges(n) /\ Live(n) /\ book'[n].filled = book[n].filled /\ byHand' = byHand /\ ~Live(n)'
    BY <1>10 DEF Dies, account, Live
  <2>2. book[n].filled \in Nat /\ book[n].size \in Nat /\ book[n].filled < book[n].size
    BY <1>3, <2>1 DEF Ordered, Order
  <2>3. FF = F /\ LL <= L /\ LL \in Int
    BY <1>1, <1>3, <1>5, <2>1, <2>2
  <2> QED BY <1>1, <1>2, <2>1, <2>3
<1>11. ASSUME UNCHANGED account, NEW n \in Made, Accepted(n)
      PROVE  Held' \in Nat /\ Free' >= 0 /\ Held' <= Held
  <2>1. OneChanges(n) /\ book'[n].filled = book[n].filled /\ byHand' = byHand /\ n = cur /\ pc = "submit"
        /\ Free >= seen
    BY <1>11 DEF Accepted, account
  <2>2. book[n].filled \in Nat /\ ~Live(n) /\ book[n].size = seen /\ book[n].filled = 0 /\ seen \in Nat
    BY <1>3, <2>1 DEF Handy, HandNew, NewPCs, Live, Ordered, Order, TypeOK
  <2>3. FF = F /\ (LL = L \/ LL = L + seen)
    BY <1>1, <1>3, <1>5, <2>1, <2>2
  <2>4. FF = F /\ LL <= L + seen /\ LL \in Int
    BY <1>1, <1>3, <1>5, <2>1, <2>2
  <2> QED BY <1>1, <1>2, <2>1, <2>2, <2>4
<1>12. ASSUME UNCHANGED account, NEW st \in {"unsent", "live"}, Appends(st)
      PROVE  Held' \in Nat /\ Free' >= 0 /\ Held' <= Held
  <2> DEFINE n == Len(book) + 1
  <2>1. n \notin Made /\ Made' = Made \cup {n} /\ \A m \in Made : book'[m] = book[m]
    BY <1>12 DEF Appends
  <2>2. /\ book'[n].filled = 0 /\ book'[n].size = seen /\ book'[n].state = st /\ byHand' = byHand /\ seen \in Nat
        /\ st = "live" => Free >= seen
    <3>1. book'[n].filled = 0 /\ book'[n].size = seen /\ book'[n].state = st /\ (st = "live" => Free >= seen)
      BY <1>12 DEF Appends
    <3> QED BY <1>12, <3>1 DEF account, TypeOK
  <2> HIDE DEF n
  <2>3. \A m \in Made : Filled'[m] = Filled[m] /\ Locks'[m] = Locks[m]
    BY <1>3, <1>4, <2>1 DEF Live
  <2>4. Filled'[n] = 0 /\ Locks'[n] = IF st = "live" THEN seen ELSE 0
    BY <1>4, <2>1, <2>2 DEF Live
  <2>5. \A m \in Made \cup {n} : Filled'[m] \in Int /\ Locks'[m] \in Int
    BY <1>3, <2>2, <2>3, <2>4
  <2>6. FF = Filled'[n] + SumFunctionOnSet(Filled', Made) /\ LL = Locks'[n] + SumFunctionOnSet(Locks', Made)
    BY <1>3, <2>1, <2>5, SumAdd DEF FF, LL
  <2>7. SumFunctionOnSet(Filled', Made) = F /\ SumFunctionOnSet(Locks', Made) = L
    BY <1>3, <2>3, SumSame DEF F, L
  <2> QED BY <1>1, <1>2, <2>2, <2>4, <2>6, <2>7
<1>13. CASE Night
  <2>1. Made' = Made /\ byHand'.all = byHand.all
        /\ \A n \in Made : book'[n].filled = book[n].filled /\ book'[n].size = book[n].size /\ ~Live(n)'
    BY <1>13 DEF Night, TypeOK, Live
  <2>2. \A n \in Made : Filled'[n] = Filled[n] /\ Locks'[n] = 0
    BY <1>3, <1>4, <2>1
  <2>3. FF = F
    BY <1>3, <2>1, <2>2, SumSame DEF F, FF
  <2>4. LL <= L /\ LL \in Nat
    <3> DEFINE z == [x \in Made |-> 0]
    <3>1. LL = SumFunctionOnSet(z, Made)
      BY <1>3, <2>1, <2>2, SumSame DEF LL
    <3>2. SumFunctionOnSet(z, Made) = 0
      BY <1>3, SumZero
    <3> QED BY <1>1, <3>1, <3>2
  <2> QED BY <1>1, <1>2, <2>1, <2>3, <2>4
<1>14. CASE OneMoves
  BY <1>9, <1>10, <1>11, <1>14 DEF OneMoves
<1>15. CASE OneMore
  BY <1>12, <1>15 DEF OneMore
<1> QED
  BY <1>6, <1>7, <1>8, <1>13, <1>14, <1>15 DEF BookStep
-----------------------------------------------------------------------------
(* Types, and what is true of a lot whatever was lost.                     *)

TypeLots ==
  /\ row \in [Lots -> {"open", "closed"}]
  /\ qty \in [Lots -> Nat] /\ pos \in [Lots -> Nat]
  /\ \A l \in Lots : qty[l] \in 1 .. EntryQty[l] /\ pos[l] \in Upto(l)
  /\ tp \in [Lots -> 0 .. MaxOrders] /\ ptp \in [Lots -> 0 .. MaxOrders]
TypePlan ==
  /\ plan.qty \in [Lots -> Nat] /\ \A l \in Lots : plan.qty[l] \in Upto(l)
  /\ plan.tp \in [Lots -> 0 .. MaxOrders]
TypeLedger ==
  /\ sold \in [Lots -> Nat] /\ manual \in [Lots -> Nat]
  /\ jour \in [Orders -> {"none", "pre", "void", "open", "done"}]
TypeBook ==
  /\ book \in Seq(Order) /\ Len(book) <= MaxOrders
  /\ \A n \in Made : book[n].size \in 1 .. EntryQty[book[n].lot] /\ book[n].filled <= book[n].size
TypeWorld == byHand \in [all : Nat, today : Nat] /\ day \in 0 .. MaxDays /\ session \in {"open", "closed"}
TypeSets ==
  /\ told \subseteq Orders /\ work \subseteq Orders /\ todo \subseteq Orders /\ placed \subseteq Orders
  /\ gone \subseteq Orders /\ loaded \in BOOLEAN
  /\ rest \subseteq Lots /\ lots \subseteq Lots /\ spent \subseteq Lots
  /\ astray \subseteq Lots /\ twice \subseteq Lots
TypeHand == lot \in Lots \cup {NoLot} /\ cur \in 0 .. MaxOrders /\ seen \in Nat
TypeShares == Held >= 0 /\ Free >= 0

\* The parts of TypeOK.
LEMMA TypeParts ==
  /\ TypeOK <=> TypeLots /\ TypePlan /\ TypeLedger /\ TypeBook /\ TypeWorld /\ TypeSets /\ TypeHand /\ TypeShares
  /\ TypeOK' <=> TypeLots' /\ TypePlan' /\ TypeLedger' /\ TypeBook' /\ TypeWorld' /\ TypeSets' /\ TypeHand' /\ TypeShares'
BY DEF TypeOK, TypeLots, TypePlan, TypeLedger, TypeBook, TypeWorld, TypeSets, TypeHand, TypeShares

\* A lot does not grow, and does not open again
Shrinks == \A l \in Lots : qty'[l] <= qty[l] /\ (row[l] = "closed" => row'[l] = "closed")

\* The lots of store and engine.
LEMMA LotsNext ==
  ASSUME TypeOK, Referred, Handy, Engine, Snapshot, [Next]_vars
  PROVE  TypeLots' /\ Engine' /\ Shrinks
<1>0. TypeLots /\ TypeHand /\ Engine
  BY TypeParts
<1>100. ASSUME UNCHANGED <<rows, engine>> PROVE TypeLots' /\ Engine' /\ Shrinks
  BY <1>0, <1>100, ExitAssumption DEF rows, engine, TypeLots, Engine, Upto, Shrinks
<1>1. CASE Following
  BY <1>1, <1>100
     DEF Following, Begin, Load, LoadFails, Loaded, Resolve, rows, engine, cockpit
<1>2. CASE Polling
  <2>1. CASE FinReduce
    <3>1. lot \in Lots /\ Remainder \in 1 .. pos[lot] /\ pos[lot] <= qty[lot] /\ row[lot] = "open"
      BY <2>1, <1>0, CurMade, ExitAssumption DEF Handy, HandDay, Has, TypeLots, TypeHand, Upto, Engine, Remainder, FinPCs, DayPCs, FinReduce
    <3>2. /\ row' = row /\ pos' = [pos EXCEPT ![lot] = Remainder] /\ ptp' = [ptp EXCEPT ![lot] = 0]
          /\ \/ UNCHANGED <<qty, tp>>
             \/ qty' = [qty EXCEPT ![lot] = Remainder] /\ tp' = [tp EXCEPT ![lot] = 0]
      BY <2>1 DEF FinReduce
    <3> HIDE DEF Remainder
    <3>0. Remainder \in Nat /\ Remainder \in 1 .. EntryQty[lot] /\ 0 \in 0 .. MaxOrders
      BY <1>0, <3>1, ExitAssumption DEF TypeLots, Upto
    <3>3. pos' \in [Lots -> Nat] /\ ptp' \in [Lots -> 0 .. MaxOrders]
      BY <1>0, <3>0, <3>1, <3>2 DEF TypeLots
    <3>6. \A l \in Lots : pos'[l] \in Upto(l)
      BY <1>0, <3>0, <3>1, <3>2 DEF TypeLots, Upto
    <3>7. qty' \in [Lots -> Nat]
      BY <1>0, <3>0, <3>1, <3>2 DEF TypeLots
    <3>8. tp' \in [Lots -> 0 .. MaxOrders]
      BY <1>0, <3>0, <3>1, <3>2 DEF TypeLots
    <3>4. \A l \in Lots : qty'[l] \in 1 .. EntryQty[l] /\ qty'[l] <= qty[l]
      BY <1>0, <3>0, <3>1, <3>2, ExitAssumption DEF TypeLots
    <3>5. Engine'
      BY <1>0, <3>1, <3>2, ExitAssumption DEF TypeLots, Engine, Upto
    <3> QED BY <1>0, <3>2, <3>3, <3>4, <3>5, <3>6, <3>7, <3>8 DEF TypeLots, Shrinks
  <2>2. CASE FinClose
    <3>1. lot \in Lots
      BY <2>2, <1>0, CurMade DEF FinPCs, TpPCs, ManPCs, FinClose
    <3>2. /\ UNCHANGED <<qty, tp>>
          /\ \/ UNCHANGED <<row, pos, ptp>>
             \/ /\ row' = [row EXCEPT ![lot] = "closed"]
                /\ pos' = [pos EXCEPT ![lot] = 0] /\ ptp' = [ptp EXCEPT ![lot] = 0]
      BY <2>2 DEF FinClose, CloseLot, engine
    <3> QED BY <1>0, <3>1, <3>2, ExitAssumption DEF TypeLots, Engine, Upto, Shrinks
  <2>3. CASE (\E n \in Orders : PollWaits(n)) \/ (\E n \in Orders : PollEnds(n)) \/
             (\E n \in Orders : PollCloses(n)) \/ Cancel \/ CancelFails \/ PollsDone \/
             FinNothing \/ FinRecord \/ FinDone
    BY <2>3, <1>100
       DEF PollWaits, PollEnds, PollCloses, Cancel, CancelFails, PollsDone, FinNothing,
           FinRecord, FinDone, rows, engine, cockpit
  <2> QED BY <1>2, <2>1, <2>2, <2>3 DEF Polling
<1>3. CASE Profits
  <2>1. CASE TpClose
    <3>1. lot \in Lots
      BY <2>1, <1>0, CurMade DEF FinPCs, TpPCs, ManPCs, TpClose
    <3>2. /\ UNCHANGED <<qty, tp>>
          /\ \/ UNCHANGED <<row, pos, ptp>>
             \/ /\ row' = [row EXCEPT ![lot] = "closed"]
                /\ pos' = [pos EXCEPT ![lot] = 0] /\ ptp' = [ptp EXCEPT ![lot] = 0]
      BY <2>1 DEF TpClose, CloseLot, engine
    <3> QED BY <1>0, <3>1, <3>2, ExitAssumption DEF TypeLots, Engine, Upto, Shrinks
  <2>2. CASE DayReduce
    <3>1. lot \in Lots /\ Remainder \in 1 .. pos[lot] /\ pos[lot] <= qty[lot] /\ row[lot] = "open"
      BY <2>2, <1>0, CurMade, ExitAssumption DEF Handy, HandDay, Has, TypeLots, TypeHand, Upto, Engine, Remainder, DayPCs, DayReduce
    <3>2. /\ row' = row
          /\ \/ UNCHANGED <<qty, tp, pos, ptp>>
             \/ /\ qty' = [qty EXCEPT ![lot] = Remainder] /\ tp' = [tp EXCEPT ![lot] = 0]
                /\ pos' = [pos EXCEPT ![lot] = Remainder] /\ ptp' = [ptp EXCEPT ![lot] = 0]
      BY <2>2 DEF DayReduce, engine
    <3> HIDE DEF Remainder
    <3> QED BY <1>0, <3>1, <3>2, ExitAssumption DEF TypeLots, Engine, Upto, Shrinks
  <2>3. CASE DayClear
    <3>1. UNCHANGED <<row, qty, pos>>
      BY <2>3 DEF DayClear
    <3>2. \/ UNCHANGED <<tp, ptp>>
          \/ tp' = [tp EXCEPT ![lot] = 0] /\ ptp' = [ptp EXCEPT ![lot] = 0]
      BY <2>3 DEF DayClear
    <3> QED BY <1>0, <3>1, <3>2, ExitAssumption DEF TypeLots, Engine, Upto, Shrinks
  <2>4. CASE TpRecord \/ TpChecked \/ DayRecord \/ Expired \/ (\E l \in Lots : TpCheck(l)) \/
             (\E l \in Lots : Expire(l))
    BY <2>4, <1>100
       DEF TpRecord, TpChecked, DayRecord, Expired, TpCheck, Expire, rows, engine, cockpit
  <2> QED BY <1>3, <2>1, <2>2, <2>3, <2>4 DEF Profits
<1>4. CASE Syncing
  <2>1. CASE SyncLots
    <3> DEFINE S == {l \in OpenLots : ~Working(l)}
    <3>1. /\ UNCHANGED rows
          /\ pos' = [l \in Lots |-> IF l \in S THEN qty[l] ELSE pos[l]]
          /\ ptp' = [l \in Lots |-> IF l \in S THEN tp[l] ELSE ptp[l]]
      BY <2>1 DEF SyncLots
    <3>2. \A l \in S : row[l] = "open"
      BY DEF OpenLots
    <3> HIDE DEF S
    <3> QED BY <1>0, <3>1, <3>2, ExitAssumption DEF TypeLots, Engine, Upto, Shrinks, rows
  <2>2. CASE ShrReduce
    <3>1. lot \in Lots /\ seen \in 1 .. qty[lot] /\ row[lot] = "open"
      BY <2>2, <1>0, CurMade, ExitAssumption DEF Handy, HandShr, TypeLots, TypeHand, OpenLots, ShrPCs, ShrReduce
    <3>2. /\ row' = row
          /\ \/ UNCHANGED <<qty, tp, pos, ptp>>
             \/ /\ qty' = [qty EXCEPT ![lot] = seen] /\ tp' = [tp EXCEPT ![lot] = 0]
                /\ pos' = [pos EXCEPT ![lot] = seen] /\ ptp' = [ptp EXCEPT ![lot] = tp[lot]]
      BY <2>2 DEF ShrReduce, engine
    <3> QED BY <1>0, <3>1, <3>2, ExitAssumption DEF TypeLots, Engine, Upto, Shrinks
  <2>3. CASE ManClose
    <3>1. lot \in Lots
      BY <2>3, <1>0, CurMade DEF FinPCs, TpPCs, ManPCs, ManClose
    <3>2. /\ UNCHANGED <<qty, tp>>
          /\ \/ UNCHANGED <<row, pos, ptp>>
             \/ /\ row' = [row EXCEPT ![lot] = "closed"]
                /\ pos' = [pos EXCEPT ![lot] = 0] /\ ptp' = [ptp EXCEPT ![lot] = 0]
      BY <2>3 DEF ManClose, CloseLot, engine
    <3> QED BY <1>0, <3>1, <3>2, ExitAssumption DEF TypeLots, Engine, Upto, Shrinks
  <2>4. CASE SyncFails \/ SyncVanished \/ Vanished \/ ShrRecord \/ ManRecord \/
             (\E l \in Lots : SyncShrinks(l)) \/ (\E l \in Lots : VanishTp(l)) \/
             (\E l \in Lots : VanishManual(l))
    BY <2>4, <1>100
       DEF SyncFails, SyncVanished, Vanished, ShrRecord, ManRecord, SyncShrinks, VanishTp,
           VanishManual, rows, engine, cockpit
  <2> QED BY <1>4, <2>1, <2>2, <2>3, <2>4 DEF Syncing
<1>5. CASE Selling
  <2>1. CASE ClearTp
    <3>1. UNCHANGED <<row, qty, pos>> /\ ptp' = [ptp EXCEPT ![lot] = 0]
          /\ \/ UNCHANGED tp
             \/ tp' = [tp EXCEPT ![lot] = 0]
      BY <2>1 DEF ClearTp
    <3>0. 0 \in 0 .. MaxOrders
      BY ExitAssumption
    <3>4. ptp' \in [Lots -> 0 .. MaxOrders]
      BY <1>0, <3>0, <3>1 DEF TypeLots
    <3>2. tp' \in [Lots -> 0 .. MaxOrders] /\ ptp' \in [Lots -> 0 .. MaxOrders]
      BY <1>0, <3>0, <3>1, <3>4 DEF TypeLots
    <3>3. Engine'
      BY <1>0, <3>1 DEF TypeLots, Engine
    <3> QED BY <1>0, <3>1, <3>2, <3>3, ExitAssumption DEF TypeLots, Upto, Shrinks
  <2>2. CASE MakePlan \/ SellCancel \/ SellCancelLost \/ Journal \/ SubmitAccepted \/
             SubmitRefused \/ SubmitMaybe \/ Track \/ Unjournal \/ SellFailed \/ SellsDone \/
             (\E l \in Lots : \E q \in 1 .. EntryQty[l] : Sell(l, q))
    BY <2>2, <1>100
       DEF MakePlan, SellCancel, SellCancelLost, Journal, SubmitAccepted, SubmitRefused,
           SubmitMaybe, Track, Unjournal, SellFailed, SellsDone, Sell, rows, engine, cockpit
  <2> QED BY <1>5, <2>1, <2>2 DEF Selling
<1>6. CASE Delegating
  <2>1. CASE TpSave
    <3>1. lot \in Lots /\ seen \in 1 .. qty[lot] /\ row[lot] = "open" /\ cur \in 0 .. MaxOrders
      BY <2>1, <1>0, CurMade, ExitAssumption DEF Handy, HandTps, Has, Engine, TypeLots, TypeHand, TpsPCs, TpSave, Upto
    <3>2. /\ row' = row
          /\ \/ UNCHANGED <<qty, tp, pos, ptp>>
             \/ /\ qty' = [qty EXCEPT ![lot] = seen] /\ tp' = [tp EXCEPT ![lot] = cur]
                /\ pos' = [pos EXCEPT ![lot] = seen] /\ ptp' = [ptp EXCEPT ![lot] = cur]
      BY <2>1 DEF TpSave, engine
    <3> QED BY <1>0, <3>1, <3>2, ExitAssumption DEF TypeLots, Engine, Upto, Shrinks
  <2>2. CASE TpCancel \/ TpCancelLost \/ TpAccepted \/ TpRefused \/ TpMaybe \/ TickDone \/
             (\E l \in Lots : PlanTp(l))
    BY <2>2, <1>100
       DEF TpCancel, TpCancelLost, TpAccepted, TpRefused, TpMaybe, TickDone, PlanTp, rows,
           engine, cockpit
  <2>3. ASSUME NEW l \in Lots, ArmStop(l) \/ SetTimeExit(l)
        PROVE  TypeLots' /\ Engine' /\ Shrinks
    <3>1. Rewrites(l)
      BY <2>3, UpdateIs
    <3>2. /\ row' = row /\ pos' = pos /\ ptp' = ptp /\ pos[l] \in 1 .. EntryQty[l] /\ pos[l] <= qty[l]
          /\ ptp[l] \in 0 .. MaxOrders
          /\ \/ UNCHANGED <<qty, tp>>
             \/ qty' = [qty EXCEPT ![l] = pos[l]] /\ tp' = [tp EXCEPT ![l] = ptp[l]]
      BY <1>0, <3>1, ExitAssumption DEF Rewrites, engine, Has, TypeLots, Upto, Engine
    <3> QED BY <1>0, <3>2, ExitAssumption DEF TypeLots, Engine, Upto, Shrinks
  <2> QED BY <1>6, <2>1, <2>2, <2>3 DEF Delegating
<1>7. CASE World
  BY <1>7, <1>100
     DEF World, FillOrder, KillOrder, SellByHand, CloseSession, NewDay, RestOver, rows, engine,
         cockpit
<1>8. CASE Crash
  <2>1. /\ UNCHANGED rows
        /\ pos' = [l \in Lots |-> IF row[l] = "open" THEN qty[l] ELSE 0]
        /\ ptp' = [l \in Lots |-> IF row[l] = "open" THEN tp[l] ELSE 0]
    BY <1>8 DEF Crash
  <2> QED BY <1>0, <2>1, ExitAssumption DEF TypeLots, Engine, Upto, Shrinks, rows
<1>9. CASE UNCHANGED vars
  BY <1>9, <1>100
     DEF vars, rows, engine, cockpit
<1> QED
  BY <1>1, <1>2, <1>3, <1>4, <1>5, <1>6, <1>7, <1>8, <1>9 DEF Next

\* The orders, the account and the calendar.
LEMMA BookNext ==
  ASSUME TypeOK, Ordered, Referred, Handy, BookStep, IsBook'
  PROVE  TypeBook' /\ TypeWorld' /\ Ordered'
<1> DEFINE OrderOK(n) == /\ book[n].size \in 1 .. EntryQty[book[n].lot] /\ book[n].filled <= book[n].size
                         /\ Live(n) => book[n].filled < book[n].size /\ book[n].day = day
                         /\ book[n].state = "unsent" => book[n].filled = 0
           Sessions == session = "closed" => day < MaxDays
           Goal == Len(book') <= MaxOrders /\ (\A n \in Made' : OrderOK(n)') /\ TypeWorld' /\ Sessions'
<1>0. SUFFICES Goal
  BY DEF TypeBook, Ordered, IsBook
<1>1. /\ IsFiniteSet(Made) /\ Made \subseteq Orders /\ Len(book) \in Nat /\ Len(book) <= MaxOrders
      /\ \A n \in Made : book[n] \in Order
  BY Numbers DEF TypeOK
<1>2. Sessions /\ \A n \in Made : OrderOK(n)
  BY DEF Ordered, TypeOK
<1>3. /\ byHand \in [all : Nat, today : Nat] /\ day \in 0 .. MaxDays /\ session \in {"open", "closed"}
      /\ seen \in Nat
  BY DEF TypeOK
<1>4. ASSUME UNCHANGED account PROVE TypeWorld' /\ Sessions' /\ day' = day
  BY <1>2, <1>3, <1>4 DEF TypeWorld, account
<1>5. CASE BookStays
  <2>1. book' = book /\ UNCHANGED account
    BY <1>5 DEF BookStays
  <2>2. Made' = Made /\ \A n \in Made : OrderOK(n)'
    BY <1>2, <1>4, <2>1 DEF Made, Live
  <2> QED BY <1>1, <1>4, <2>1, <2>2
<1>6. CASE SellByHand
  <2>1. UNCHANGED <<book, day, session>> /\ byHand' = [all |-> byHand.all + 1, today |-> byHand.today + 1]
    BY <1>6 DEF SellByHand
  <2>2. Made' = Made /\ \A n \in Made : OrderOK(n)'
    BY <1>2, <2>1 DEF Made, Live
  <2>3. TypeWorld' /\ Sessions'
    BY <1>2, <1>3, <2>1 DEF TypeWorld
  <2> QED BY <1>1, <2>1, <2>2, <2>3
<1>7. CASE CloseSession
  <2>1. UNCHANGED <<book, day, byHand>> /\ session' = "closed" /\ day < MaxDays
    BY <1>7 DEF CloseSession
  <2>2. Made' = Made /\ \A n \in Made : OrderOK(n)'
    BY <1>2, <2>1 DEF Made, Live
  <2>3. TypeWorld' /\ Sessions'
    BY <1>2, <1>3, <2>1 DEF TypeWorld
  <2> QED BY <1>1, <2>1, <2>2, <2>3
<1>8. ASSUME UNCHANGED account, NEW n, OneChanges(n), OrderOK(n)'
      PROVE  Goal
  <2>1. Made' = Made /\ n \in Made /\ Len(book') = Len(book) /\ \A m \in Made \ {n} : book'[m] = book[m]
    BY <1>8 DEF OneChanges
  <2>2. \A m \in Made \ {n} : OrderOK(m)'
    BY <1>2, <1>4, <1>8, <2>1 DEF Live
  <2> QED BY <1>1, <1>4, <1>8, <2>1, <2>2
<1>9. ASSUME UNCHANGED account, NEW n \in Made, Fills(n)
      PROVE  Goal
  <2>1. /\ OneChanges(n) /\ book[n].state = "live" /\ book'[n].filled = book[n].filled + 1
        /\ book'[n].day = book[n].day /\ book'[n].lot = book[n].lot /\ book'[n].size = book[n].size
        /\ book'[n].state = IF book[n].filled + 1 = book[n].size THEN "dead" ELSE "live"
    BY <1>9 DEF Fills, OneChanges, Live
  <2>2. /\ book[n].size \in 1 .. EntryQty[book[n].lot] /\ book[n].filled < book[n].size /\ book[n].day = day
        /\ book[n].filled \in Nat /\ EntryQty[book[n].lot] \in Nat
    BY <1>1, <1>2, <2>1, ExitAssumption DEF Live, Order
  <2>3. OrderOK(n)'
    BY <1>4, <1>9, <2>1, <2>2 DEF Live
  <2> QED BY <1>8, <1>9, <2>1, <2>3
<1>10. ASSUME UNCHANGED account, NEW n \in Made, Dies(n)
       PROVE  Goal
  <2>1. /\ OneChanges(n) /\ book'[n].state = "dead" /\ book'[n].filled = book[n].filled
        /\ book'[n].lot = book[n].lot /\ book'[n].size = book[n].size
    BY <1>10 DEF Dies, OneChanges
  <2>2. OrderOK(n)'
    BY <1>2, <2>1 DEF Live
  <2> QED BY <1>8, <1>10, <2>1, <2>2
<1>11. ASSUME UNCHANGED account, NEW n \in Made, Accepted(n)
       PROVE  Goal
  <2>1. /\ OneChanges(n) /\ book'[n].state = "live" /\ book'[n].filled = book[n].filled /\ book'[n].day = day
        /\ book'[n].lot = book[n].lot /\ book'[n].size = book[n].size /\ n = cur /\ pc = "submit"
    BY <1>11 DEF Accepted, OneChanges
  <2>2. book[n].state = "unsent"
    BY <2>1 DEF Handy
  <2>3. /\ book[n].size \in 1 .. EntryQty[book[n].lot] /\ book[n].filled = 0
        /\ EntryQty[book[n].lot] \in Nat
    BY <1>1, <1>2, <2>2, ExitAssumption DEF Order
  <2>4. OrderOK(n)'
    BY <1>4, <1>11, <2>1, <2>3 DEF Live
  <2> QED BY <1>8, <1>11, <2>1, <2>4
<1>12. ASSUME UNCHANGED account, NEW st \in {"unsent", "live"}, Appends(st)
       PROVE  Goal
  <2>0. PICK n : n = Len(book) + 1
    OBVIOUS
  <2>1. /\ Made' = Made \cup {n} /\ \A m \in Made : book'[m] = book[m]
        /\ Len(book') = n /\ pc \in {"journal", "tpPlace"}
    BY <1>12, <2>0 DEF Appends
  <2>2. book'[n].filled = 0 /\ book'[n].size = seen /\ book'[n].lot = lot /\ book'[n].day = day
    BY <1>12, <2>0 DEF Appends
  <2>3. lot \in Lots /\ 1 <= seen /\ seen <= pos[lot] /\ Len(book) < MaxOrders
    BY <2>1 DEF Handy, HandSell, HandTps, SellPCs, TpsPCs, Has, TypeOK, Upto
  <2>4. seen \in 1 .. EntryQty[lot]
    BY <1>3, <2>3, ExitAssumption DEF TypeOK, Upto
  <2>5. OrderOK(n)'
    BY <1>3, <1>4, <1>12, <2>2, <2>4 DEF Live
  <2>6. \A m \in Made : OrderOK(m)'
    BY <1>2, <1>4, <1>12, <2>1 DEF Live
  <2>7. Len(book') <= MaxOrders
    BY <1>1, <2>0, <2>1, <2>3, ExitAssumption
  <2> QED BY <1>4, <1>12, <2>1, <2>5, <2>6, <2>7
<1>13. CASE OneMoves
  BY <1>9, <1>10, <1>11, <1>13 DEF OneMoves
<1>14. CASE OneMore
  BY <1>12, <1>14 DEF OneMore
<1>15. CASE Night
  <2>1. /\ Made' = Made /\ Len(book') = Len(book)
        /\ \A n \in Made : /\ book'[n].lot = book[n].lot /\ book'[n].size = book[n].size
                           /\ book'[n].filled = book[n].filled
                           /\ book'[n].state = IF Live(n) THEN "dead" ELSE book[n].state
    BY <1>15 DEF Night
  <2>2. \A n \in Made : OrderOK(n)'
    BY <1>2, <2>1 DEF Live
  <2>3. /\ session' = "open" /\ day' = day + 1 /\ byHand' = [byHand EXCEPT !.today = 0] /\ session = "closed"
    BY <1>15 DEF Night
  <2>4. TypeWorld' /\ Sessions'
    BY <1>2, <1>3, <2>3, ExitAssumption DEF TypeWorld
  <2> QED BY <1>1, <2>1, <2>2, <2>4
<1> QED
  BY <1>5, <1>6, <1>7, <1>13, <1>14, <1>15 DEF BookStep

\* The plan, the ledger's quantities and the journal.
LEMMA PlanLedgerNext ==
  ASSUME TypeOK, Referred, Handy, [Next]_vars
  PROVE  TypePlan' /\ TypeLedger'
<1>a. TypeLots /\ TypeHand /\ TypePlan /\ TypeLedger /\ TypeBook
  BY TypeParts
<1>b. Made \subseteq Orders /\ Len(book) \in Nat
  BY Numbers DEF TypeOK
<1>z. ASSUME UNCHANGED <<plan, sold, manual, jour>> PROVE TypePlan' /\ TypeLedger'
  BY <1>a, <1>z DEF TypePlan, TypeLedger
<1>1. CASE Following
  <2>1. ASSUME NEW n \in Orders, Resolve(n)
        PROVE  TypePlan' /\ TypeLedger'
    <3>1. UNCHANGED <<plan, sold, manual>>
      BY <2>1 DEF Resolve, tick, ledger
    <3>2. n \in Orders
      BY <2>1, <1>a, <1>b, CurMade DEF Resolve, FinPCs
    <3>3. UNCHANGED jour \/ jour' = [jour EXCEPT ![n] = "void"]
      BY <2>1 DEF Resolve
    <3> QED BY <1>a, <3>1, <3>2, <3>3 DEF TypePlan, TypeLedger
  <2>2. CASE Begin \/ Load \/ LoadFails \/ Loaded
    BY <2>2, <1>z
       DEF Begin, Load, LoadFails, Loaded, tick, ledger, cockpit
  <2> QED BY <1>1, <2>1, <2>2 DEF Following
<1>2. CASE Polling
  <2>1. CASE FinRecord
    <3>1. lot \in Lots /\ seen \in Nat
      BY <2>1, <1>a, CurMade DEF FinRecord, FinPCs, TpPCs, DayPCs, TypeHand
    <3>2. UNCHANGED <<plan, jour, manual>> /\ (UNCHANGED sold \/ sold' = [sold EXCEPT ![lot] = @ + seen])
      BY <2>1 DEF FinRecord, Record, tick
    <3> QED BY <1>a, <3>1, <3>2 DEF TypePlan, TypeLedger
  <2>2. CASE FinDone
    <3>1. UNCHANGED <<plan, sold, manual>>
      BY <2>2 DEF FinDone, tick, ledger
    <3>2. cur \in Orders
      BY <2>2, <1>a, <1>b, CurMade DEF FinDone, FinPCs
    <3>3. UNCHANGED jour \/ jour' = [jour EXCEPT ![cur] = IF @ = "open" THEN "done" ELSE @]
      BY <2>2 DEF FinDone
    <3> QED BY <1>a, <3>1, <3>2, <3>3 DEF TypePlan, TypeLedger
  <2>3. CASE (\E n \in Orders : PollWaits(n)) \/ (\E n \in Orders : PollEnds(n)) \/
             (\E n \in Orders : PollCloses(n)) \/ Cancel \/ CancelFails \/ PollsDone \/
             FinNothing \/ FinReduce \/ FinClose
    BY <2>3, <1>z
       DEF PollWaits, PollEnds, PollCloses, Cancel, CancelFails, PollsDone, FinNothing,
           FinReduce, FinClose, tick, ledger, cockpit
  <2> QED BY <1>2, <2>1, <2>2, <2>3 DEF Polling
<1>3. CASE Profits
  <2>1. CASE TpRecord
    <3>1. lot \in Lots /\ seen \in Nat
      BY <2>1, <1>a, CurMade DEF TpRecord, FinPCs, TpPCs, DayPCs, TypeHand
    <3>2. UNCHANGED <<plan, jour, manual>> /\ (UNCHANGED sold \/ sold' = [sold EXCEPT ![lot] = @ + seen])
      BY <2>1 DEF TpRecord, Record, tick
    <3> QED BY <1>a, <3>1, <3>2 DEF TypePlan, TypeLedger
  <2>2. CASE DayRecord
    <3>1. lot \in Lots /\ seen \in Nat
      BY <2>2, <1>a, CurMade DEF DayRecord, FinPCs, TpPCs, DayPCs, TypeHand
    <3>2. UNCHANGED <<plan, jour, manual>> /\ (UNCHANGED sold \/ sold' = [sold EXCEPT ![lot] = @ + seen])
      BY <2>2 DEF DayRecord, Record, tick
    <3> QED BY <1>a, <3>1, <3>2 DEF TypePlan, TypeLedger
  <2>3. CASE TpClose \/ TpChecked \/ DayReduce \/ DayClear \/ Expired \/
             (\E l \in Lots : TpCheck(l)) \/ (\E l \in Lots : Expire(l))
    BY <2>3, <1>z
       DEF TpClose, TpChecked, DayReduce, DayClear, Expired, TpCheck, Expire, tick, ledger,
           cockpit
  <2> QED BY <1>3, <2>1, <2>2, <2>3 DEF Profits
<1>4. CASE Syncing
  <2>1. CASE ShrRecord
    <3> DEFINE v == qty[lot] - seen
    <3>1. lot \in Lots
      BY <2>1, <1>a, CurMade DEF ShrRecord, ShrPCs, ManPCs
    <3>2. UNCHANGED <<plan, jour, sold>> /\ (UNCHANGED manual \/ manual' = [manual EXCEPT ![lot] = @ + v])
      BY <2>1 DEF ShrRecord, RecordManual, tick
    <3>3. v \in Nat
      BY <2>1, <1>a, <3>1 DEF ShrRecord, Handy, HandShr, TypeHand, TypeLots, ShrPCs
    <3> HIDE DEF v
    <3> QED BY <1>a, <3>1, <3>2, <3>3 DEF TypePlan, TypeLedger
  <2>2. CASE ManRecord
    <3> DEFINE v == seen
    <3>1. lot \in Lots
      BY <2>2, <1>a, CurMade DEF ManRecord, ShrPCs, ManPCs
    <3>2. UNCHANGED <<plan, jour, sold>> /\ (UNCHANGED manual \/ manual' = [manual EXCEPT ![lot] = @ + v])
      BY <2>2 DEF ManRecord, RecordManual, tick
    <3>3. v \in Nat
      BY <2>2, <1>a, <3>1 DEF ManRecord, Handy, HandShr, TypeHand, TypeLots, ShrPCs
    <3> HIDE DEF v
    <3> QED BY <1>a, <3>1, <3>2, <3>3 DEF TypePlan, TypeLedger
  <2>3. CASE SyncFails \/ SyncVanished \/ SyncLots \/ Vanished \/ ShrReduce \/ ManClose \/
             (\E l \in Lots : SyncShrinks(l)) \/ (\E l \in Lots : VanishTp(l)) \/
             (\E l \in Lots : VanishManual(l))
    BY <2>3, <1>z
       DEF SyncFails, SyncVanished, SyncLots, Vanished, ShrReduce, ManClose, SyncShrinks,
           VanishTp, VanishManual, tick, ledger, cockpit
  <2> QED BY <1>4, <2>1, <2>2, <2>3 DEF Syncing
<1>5. CASE Selling
  <2>1. CASE MakePlan
    <3>1. plan' = [qty |-> pos, tp |-> ptp] /\ UNCHANGED <<sold, manual, jour>>
      BY <2>1 DEF MakePlan, ledger
    <3> QED BY <1>a, <3>1 DEF TypeLots, TypePlan, TypeLedger
  <2>2. CASE Journal
    <3>1. UNCHANGED <<plan, sold, manual>>
      BY <2>2 DEF Journal, tick, ledger
    <3>2. Len(book) + 1 \in Orders
      BY <2>2, <1>b, ExitAssumption DEF Handy, Orders, Journal, FinPCs
    <3>3. UNCHANGED jour \/ jour' = [jour EXCEPT ![Len(book) + 1] = "pre"]
      BY <2>2 DEF Journal
    <3> QED BY <1>a, <3>1, <3>2, <3>3 DEF TypePlan, TypeLedger
  <2>3. CASE Track
    <3>1. UNCHANGED <<plan, sold, manual>>
      BY <2>3 DEF Track, tick, ledger
    <3>2. cur \in Orders
      BY <2>3, <1>a, <1>b, CurMade DEF Track, FinPCs
    <3>3. UNCHANGED jour \/ jour' = [jour EXCEPT ![cur] = "open"]
      BY <2>3 DEF Track
    <3> QED BY <1>a, <3>1, <3>2, <3>3 DEF TypePlan, TypeLedger
  <2>4. CASE Unjournal
    <3>1. UNCHANGED <<plan, sold, manual>>
      BY <2>4 DEF Unjournal, tick, ledger
    <3>2. cur \in Orders
      BY <2>4, <1>a, <1>b, CurMade DEF Unjournal, FinPCs
    <3>3. UNCHANGED jour \/ jour' = [jour EXCEPT ![cur] = IF @ = "pre" THEN "void" ELSE @]
      BY <2>4 DEF Unjournal
    <3> QED BY <1>a, <3>1, <3>2, <3>3 DEF TypePlan, TypeLedger
  <2>5. CASE SellCancel \/ SellCancelLost \/ ClearTp \/ SubmitAccepted \/ SubmitRefused \/
             SubmitMaybe \/ SellFailed \/ SellsDone \/
             (\E l \in Lots : \E q \in 1 .. EntryQty[l] : Sell(l, q))
    BY <2>5, <1>z
       DEF SellCancel, SellCancelLost, ClearTp, SubmitAccepted, SubmitRefused, SubmitMaybe,
           SellFailed, SellsDone, Sell, tick, ledger, cockpit
  <2> QED BY <1>5, <2>1, <2>2, <2>3, <2>4, <2>5 DEF Selling
<1>6. CASE Delegating
  <2>1. CASE TickDone
    <3>1. plan' = NoPlan /\ UNCHANGED <<sold, manual, jour>>
      BY <2>1 DEF TickDone, ledger
    <3> QED BY <1>a, <3>1, ExitAssumption DEF NoPlan, TypePlan, TypeLedger, Upto
  <2>2. CASE TpCancel \/ TpCancelLost \/ TpAccepted \/ TpRefused \/ TpMaybe \/ TpSave \/
             (\E l \in Lots : PlanTp(l))
    BY <2>2, <1>z
       DEF TpCancel, TpCancelLost, TpAccepted, TpRefused, TpMaybe, TpSave, PlanTp, tick,
           ledger, cockpit
  <2>3. CASE \E l \in Lots : ArmStop(l) \/ SetTimeExit(l)
    BY <2>3, <1>z DEF ArmStop, SetTimeExit, tick, ledger
  <2> QED BY <1>6, <2>1, <2>2, <2>3 DEF Delegating
<1>7. CASE World
  BY <1>7, <1>z
     DEF World, FillOrder, KillOrder, SellByHand, CloseSession, NewDay, RestOver, tick, ledger,
         cockpit
<1>8. CASE Crash
  <2>1. plan' = NoPlan /\ UNCHANGED <<sold, manual, jour>>
    BY <1>8 DEF Crash, ledger
  <2> QED BY <1>a, <2>1, ExitAssumption DEF NoPlan, TypePlan, TypeLedger, Upto
<1>9. CASE UNCHANGED vars
  BY <1>9, <1>z
     DEF vars, tick, ledger, cockpit
<1> QED
  BY <1>1, <1>2, <1>3, <1>4, <1>5, <1>6, <1>7, <1>8, <1>9 DEF Next

\* The sets, and the hand.
LEMMA SetsNext ==
  ASSUME TypeOK, Referred, Handy, [Next]_vars
  PROVE  TypeSets' /\ TypeHand'
<1>a. /\ TypeSets /\ TypeHand /\ Made \subseteq Orders /\ Orders = 1 .. MaxOrders /\ MaxOrders \in Nat
      /\ Len(book) \in Nat /\ Made = 1 .. Len(book)
  BY TypeParts, Numbers, ExitAssumption DEF TypeOK, Orders
<1>b. /\ \A n \in Made : book[n].lot \in Lots /\ book[n].filled \in Nat /\ book[n].size \in Nat
                         /\ Reported(n) \in Nat
      /\ \A l \in Lots : qty[l] \in Nat /\ pos[l] \in Nat
      /\ plan.qty \in [Lots -> Nat]
  <2>1. \A n \in Made : book[n] \in Order
    BY Numbers DEF TypeOK
  <2> QED BY <2>1 DEF TypeOK, Reported, Order
<1>c. /\ \A l \in Lots : {tp[l], ptp[l], plan.tp[l]} \subseteq {0} \cup Made
      /\ work \cup todo \subseteq Made /\ \A n \in Orders : jour[n] # "none" => n \in Made
  BY DEF Referred, NoneOr, Of
<1>d. Held \in Nat
  BY Amounts
<1>e. OpenLots \subseteq Lots /\ Has \subseteq Lots
  BY DEF OpenLots, Has
<1>z. ASSUME UNCHANGED <<told, memory, todo, placed, gone, lots, spent, astray, twice, hand>>
      PROVE  TypeSets' /\ TypeHand'
  BY <1>a, <1>z DEF TypeSets, TypeHand, memory, hand

<1>1. CASE Following
  <2>1. CASE Begin
    BY <2>1, <1>a, <1>b, <1>c, <1>d, <1>e
       DEF Begin, TypeSets, TypeHand, ledger, memory, hand,
           agenda, tick, history, cockpit
  <2>2. CASE Load
    BY <2>2, <1>a, <1>b, <1>c, <1>d, <1>e
       DEF Load, TypeSets, TypeHand, ledger, memory, hand,
           agenda, tick, history, cockpit
  <2>3. CASE LoadFails
    BY <2>3, <1>a, <1>b, <1>c, <1>d, <1>e
       DEF LoadFails, TypeSets, TypeHand, ledger, memory, hand,
           agenda, tick, history, cockpit
  <2>4. CASE Loaded
    BY <2>4, <1>a, <1>b, <1>c, <1>d, <1>e
       DEF Loaded, TypeSets, TypeHand, ledger, memory, hand,
           agenda, tick, history, cockpit
  <2>5. ASSUME NEW n \in Orders, Resolve(n)
        PROVE  TypeSets' /\ TypeHand'
    BY <2>5, <1>a, <1>b, <1>c, <1>d, <1>e
       DEF Resolve, TypeSets, TypeHand, ledger, memory, hand,
           agenda, tick, history, cockpit
  <2> QED BY <1>1, <2>1, <2>2, <2>3, <2>4, <2>5 DEF Following
<1>2. CASE Polling
  <2>1. ASSUME NEW n \in Orders, PollWaits(n)
        PROVE  TypeSets' /\ TypeHand'
    BY <2>1, <1>a, <1>b, <1>c, <1>d, <1>e
       DEF PollWaits, TypeSets, TypeHand, ledger, memory, hand,
           agenda, tick, history, cockpit
  <2>2. ASSUME NEW n \in Orders, PollEnds(n)
        PROVE  TypeSets' /\ TypeHand'
    <3>1. /\ n \in Made /\ lot' = book[n].lot /\ cur' = n /\ seen' = book[n].filled /\ todo' = todo \ {n}
      BY <2>2, <1>c DEF PollEnds, Take
    <3>2. UNCHANGED <<told, memory, lots, placed, spent, astray, twice, gone>>
      BY <2>2 DEF PollEnds, ledger, tick, history
    <3>3. TypeHand'
      BY <1>a, <1>b, <3>1 DEF TypeHand
    <3> QED BY <1>a, <3>1, <3>2, <3>3 DEF TypeSets, memory
  <2>3. ASSUME NEW n \in Orders, PollCloses(n)
        PROVE  TypeSets' /\ TypeHand'
    <3>1. /\ n \in Made /\ lot' = book[n].lot /\ cur' = n /\ seen' = Reported(n) /\ todo' = todo \ {n}
      BY <2>3, <1>c DEF PollCloses, Take
    <3>2. UNCHANGED <<told, memory, lots, placed, spent, astray, twice, gone>>
      BY <2>3 DEF PollCloses, ledger, tick, history
    <3>3. TypeHand'
      BY <1>a, <1>b, <3>1 DEF TypeHand
    <3> QED BY <1>a, <3>1, <3>2, <3>3 DEF TypeSets, memory
  <2>4. CASE Cancel
    BY <2>4, <1>a, <1>b, <1>c, <1>d, <1>e, CurMade
       DEF Cancel, Live, TypeSets, TypeHand, ledger,
           memory, hand, agenda, tick, history, cockpit, FinPCs, TpPCs, DayPCs, ShrPCs, ManPCs,
           SellPCs, TpsPCs, Has
  <2>5. CASE CancelFails
    BY <2>5, <1>a, <1>b, <1>c, <1>d, <1>e, CurMade
       DEF CancelFails, Return, Empty, TypeSets,
           TypeHand, ledger, memory, hand, agenda, tick, history, cockpit, FinPCs, TpPCs, DayPCs,
           ShrPCs, ManPCs, SellPCs, TpsPCs, Has
  <2>6. CASE PollsDone
    BY <2>6, <1>a, <1>b, <1>c, <1>d, <1>e
       DEF PollsDone, Phase, TypeSets, TypeHand, ledger, memory,
           hand, agenda, tick, history, cockpit
  <2>7. CASE FinNothing
    BY <2>7, <1>a, <1>b, <1>c, <1>d, <1>e
       DEF FinNothing, TypeSets, TypeHand, ledger, memory, hand,
           agenda, tick, history, cockpit
  <2>8. CASE FinRecord
    BY <2>8, <1>a, <1>b, <1>c, <1>d, <1>e, CurMade
       DEF FinRecord, Record, TypeSets, TypeHand,
           ledger, memory, hand, agenda, tick, history, cockpit, FinPCs, TpPCs, DayPCs, ShrPCs,
           ManPCs, SellPCs, TpsPCs, Has
  <2>9. CASE FinReduce
    BY <2>9, <1>a, <1>b, <1>c, <1>d, <1>e, CurMade
       DEF FinReduce, TypeSets, TypeHand, ledger,
           memory, hand, agenda, tick, history, cockpit, FinPCs, TpPCs, DayPCs, ShrPCs, ManPCs,
           SellPCs, TpsPCs, Has
  <2>10. CASE FinClose
    BY <2>10, <1>a, <1>b, <1>c, <1>d, <1>e, CurMade
       DEF FinClose, TypeSets, TypeHand, ledger,
           memory, hand, agenda, tick, history, cockpit, FinPCs, TpPCs, DayPCs, ShrPCs, ManPCs,
           SellPCs, TpsPCs, Has
  <2>11. CASE FinDone
    <3>1. lot \in Lots
      BY <2>11, CurMade DEF FinDone, FinPCs
    <3>2. /\ work' = work \ {cur} /\ cur' = 0 /\ lot' = NoLot /\ seen' = 0
          /\ UNCHANGED <<told, loaded, rest, todo, lots, placed, spent, gone>>
      BY <2>11 DEF FinDone, Return, Empty, ledger, agenda, tick
    <3>3. astray' \subseteq astray \cup {lot} /\ twice' \subseteq twice \cup {lot}
      BY <2>11 DEF FinDone
    <3> QED BY <1>a, <3>1, <3>2, <3>3 DEF TypeSets, TypeHand
  <2> QED BY <1>2, <2>1, <2>2, <2>3, <2>4, <2>5, <2>6, <2>7, <2>8, <2>9, <2>10, <2>11 DEF Polling
<1>3. CASE Profits
  <2>1. CASE TpRecord
    BY <2>1, <1>a, <1>b, <1>c, <1>d, <1>e, CurMade
       DEF TpRecord, Record, TypeSets, TypeHand,
           ledger, memory, hand, agenda, tick, history, cockpit, FinPCs, TpPCs, DayPCs, ShrPCs,
           ManPCs, SellPCs, TpsPCs, Has
  <2>2. CASE TpClose
    BY <2>2, <1>a, <1>b, <1>c, <1>d, <1>e, CurMade
       DEF TpClose, Return, Empty, TypeSets, TypeHand,
           ledger, memory, hand, agenda, tick, history, cockpit, FinPCs, TpPCs, DayPCs, ShrPCs,
           ManPCs, SellPCs, TpsPCs, Has
  <2>3. CASE TpChecked
    BY <2>3, <1>a, <1>b, <1>c, <1>d, <1>e
       DEF TpChecked, Phase, TypeSets, TypeHand, ledger, memory,
           hand, agenda, tick, history, cockpit
  <2>4. CASE DayRecord
    <3>1. lot \in Lots /\ cur \in Orders
      BY <2>4, <1>a, CurMade DEF DayRecord, DayPCs
    <3>2. UNCHANGED <<memory, hand, agenda, tick, astray, gone>>
      BY <2>4 DEF DayRecord
    <3>3. told' \subseteq told \cup {cur} /\ twice' \subseteq twice \cup {lot}
      BY <2>4 DEF DayRecord, Record
    <3> QED BY <1>a, <3>1, <3>2, <3>3 DEF TypeSets, TypeHand, memory, hand, agenda, tick
  <2>5. CASE DayReduce
    BY <2>5, <1>a, <1>b, <1>c, <1>d, <1>e
       DEF DayReduce, Return, Empty, TypeSets, TypeHand, ledger,
           memory, hand, agenda, tick, history, cockpit
  <2>6. CASE DayClear
    BY <2>6, <1>a, <1>b, <1>c, <1>d, <1>e
       DEF DayClear, Return, Empty, TypeSets, TypeHand, ledger,
           memory, hand, agenda, tick, history, cockpit
  <2>7. CASE Expired
    BY <2>7, <1>a, <1>b, <1>c, <1>d, <1>e
       DEF Expired, TypeSets, TypeHand, ledger, memory, hand,
           agenda, tick, history, cockpit
  <2>8. ASSUME NEW l \in Lots, TpCheck(l)
        PROVE  TypeSets' /\ TypeHand'
    BY <2>8, <1>a, <1>b, <1>c, <1>d, <1>e
       DEF TpCheck, Take, TpFull, TypeSets, TypeHand, ledger,
           memory, hand, agenda, tick, history, cockpit
  <2>9. ASSUME NEW l \in Lots, Expire(l)
        PROVE  TypeSets' /\ TypeHand'
    BY <2>9, <1>a, <1>b, <1>c, <1>d, <1>e
       DEF Expire, Take, TypeSets, TypeHand, ledger, memory,
           hand, agenda, tick, history, cockpit
  <2> QED BY <1>3, <2>1, <2>2, <2>3, <2>4, <2>5, <2>6, <2>7, <2>8, <2>9 DEF Profits
<1>4. CASE Syncing
  <2>1. CASE SyncFails
    BY <2>1, <1>a, <1>b, <1>c, <1>d, <1>e
       DEF SyncFails, TypeSets, TypeHand, ledger, memory, hand,
           agenda, tick, history, cockpit
  <2>2. CASE SyncVanished
    BY <2>2, <1>a, <1>b, <1>c, <1>d, <1>e
       DEF SyncVanished, Phase, TypeSets, TypeHand, ledger,
           memory, hand, agenda, tick, history, cockpit
  <2>3. CASE SyncLots
    BY <2>3, <1>a, <1>b, <1>c, <1>d, <1>e
       DEF SyncLots, TypeSets, TypeHand, ledger, memory, hand,
           agenda, tick, history, cockpit
  <2>4. CASE Vanished
    BY <2>4, <1>a, <1>b, <1>c, <1>d, <1>e
       DEF Vanished, TypeSets, TypeHand, ledger, memory, hand,
           agenda, tick, history, cockpit
  <2>5. CASE ShrRecord
    BY <2>5, <1>a, <1>b, <1>c, <1>d, <1>e, CurMade
       DEF ShrRecord, RecordManual, TypeSets, TypeHand,
           ledger, memory, hand, agenda, tick, history, cockpit, FinPCs, TpPCs, DayPCs, ShrPCs,
           ManPCs, SellPCs, TpsPCs, Has
  <2>6. CASE ShrReduce
    BY <2>6, <1>a, <1>b, <1>c, <1>d, <1>e, CurMade
       DEF ShrReduce, Return, Empty, Slips, TypeSets,
           TypeHand, ledger, memory, hand, agenda, tick, history, cockpit, FinPCs, TpPCs, DayPCs,
           ShrPCs, ManPCs, SellPCs, TpsPCs, Has
  <2>7. CASE ManRecord
    BY <2>7, <1>a, <1>b, <1>c, <1>d, <1>e, CurMade
       DEF ManRecord, RecordManual, TypeSets, TypeHand,
           ledger, memory, hand, agenda, tick, history, cockpit, FinPCs, TpPCs, DayPCs, ShrPCs,
           ManPCs, SellPCs, TpsPCs, Has
  <2>8. CASE ManClose
    BY <2>8, <1>a, <1>b, <1>c, <1>d, <1>e, CurMade
       DEF ManClose, Return, Empty, Slips, TypeSets,
           TypeHand, ledger, memory, hand, agenda, tick, history, cockpit, FinPCs, TpPCs, DayPCs,
           ShrPCs, ManPCs, SellPCs, TpsPCs, Has
  <2>9. ASSUME NEW l \in Lots, SyncShrinks(l)
        PROVE  TypeSets' /\ TypeHand'
    BY <2>9, <1>a, <1>b, <1>c, <1>d, <1>e
       DEF SyncShrinks, Take, Explained, TypeSets, TypeHand,
           ledger, memory, hand, agenda, tick, history, cockpit
  <2>10. ASSUME NEW l \in Lots, VanishTp(l)
        PROVE  TypeSets' /\ TypeHand'
    BY <2>10, <1>a, <1>b, <1>c, <1>d, <1>e
       DEF VanishTp, Take, TpFull, TypeSets, TypeHand, ledger,
           memory, hand, agenda, tick, history, cockpit
  <2>11. ASSUME NEW l \in Lots, VanishManual(l)
        PROVE  TypeSets' /\ TypeHand'
    BY <2>11, <1>a, <1>b, <1>c, <1>d, <1>e
       DEF VanishManual, Take, TypeSets, TypeHand, ledger,
           memory, hand, agenda, tick, history, cockpit
  <2> QED BY <1>4, <2>1, <2>2, <2>3, <2>4, <2>5, <2>6, <2>7, <2>8, <2>9, <2>10, <2>11 DEF Syncing
<1>5. CASE Selling
  <2>1. CASE MakePlan
    BY <2>1, <1>a, <1>b, <1>c, <1>d, <1>e
       DEF MakePlan, TypeSets, TypeHand, ledger, memory, hand,
           agenda, tick, history, cockpit
  <2>2. CASE SellCancel
    BY <2>2, <1>a, <1>b, <1>c, <1>d, <1>e, CurMade
       DEF SellCancel, Return, Empty, Slips, TypeSets,
           TypeHand, ledger, memory, hand, agenda, tick, history, cockpit, FinPCs, TpPCs, DayPCs,
           ShrPCs, ManPCs, SellPCs, TpsPCs, Has
  <2>3. CASE SellCancelLost
    BY <2>3, <1>a, <1>b, <1>c, <1>d, <1>e
       DEF SellCancelLost, Return, Empty, TypeSets, TypeHand,
           ledger, memory, hand, agenda, tick, history, cockpit
  <2>4. CASE ClearTp
    BY <2>4, <1>a, <1>b, <1>c, <1>d, <1>e
       DEF ClearTp, TypeSets, TypeHand, ledger, memory, hand,
           agenda, tick, history, cockpit
  <2>5. CASE Journal
    BY <2>5, <1>a, <1>b, <1>c, <1>d, <1>e, CurMade
       DEF Journal, TypeSets, TypeHand, ledger, memory,
           hand, agenda, tick, history, cockpit, FinPCs, TpPCs, DayPCs, ShrPCs, ManPCs, SellPCs,
           TpsPCs, Has, Handy, NewOrder
  <2>6. CASE SubmitAccepted
    BY <2>6, <1>a, <1>b, <1>c, <1>d, <1>e
       DEF SubmitAccepted, TypeSets, TypeHand, ledger, memory,
           hand, agenda, tick, history, cockpit
  <2>7. CASE SubmitRefused
    BY <2>7, <1>a, <1>b, <1>c, <1>d, <1>e
       DEF SubmitRefused, TypeSets, TypeHand, ledger, memory,
           hand, agenda, tick, history, cockpit
  <2>8. CASE SubmitMaybe
    BY <2>8, <1>a, <1>b, <1>c, <1>d, <1>e, CurMade
       DEF SubmitMaybe, TypeSets, TypeHand, ledger,
           memory, hand, agenda, tick, history, cockpit, FinPCs, TpPCs, DayPCs, ShrPCs, ManPCs,
           SellPCs, TpsPCs, Has
  <2>9. CASE Track
    BY <2>9, <1>a, <1>b, <1>c, <1>d, <1>e, CurMade
       DEF Track, Return, Empty, TypeSets, TypeHand,
           ledger, memory, hand, agenda, tick, history, cockpit, FinPCs, TpPCs, DayPCs, ShrPCs,
           ManPCs, SellPCs, TpsPCs, Has
  <2>10. CASE Unjournal
    BY <2>10, <1>a, <1>b, <1>c, <1>d, <1>e, CurMade
       DEF Unjournal, Return, Empty, TypeSets,
           TypeHand, ledger, memory, hand, agenda, tick, history, cockpit, FinPCs, TpPCs, DayPCs,
           ShrPCs, ManPCs, SellPCs, TpsPCs, Has
  <2>11. CASE SellFailed
    BY <2>11, <1>a, <1>b, <1>c, <1>d, <1>e, CurMade
       DEF SellFailed, Return, Empty, TypeSets,
           TypeHand, ledger, memory, hand, agenda, tick, history, cockpit, FinPCs, TpPCs, DayPCs,
           ShrPCs, ManPCs, SellPCs, TpsPCs, Has
  <2>12. CASE SellsDone
    BY <2>12, <1>a, <1>b, <1>c, <1>d, <1>e
       DEF SellsDone, TypeSets, TypeHand, ledger, memory, hand,
           agenda, tick, history, cockpit
  <2>13. ASSUME NEW l \in Lots, NEW q \in 1 .. EntryQty[l], Sell(l, q)
        PROVE  TypeSets' /\ TypeHand'
    BY <2>13, <1>a, <1>b, <1>c, <1>d, <1>e
       DEF Sell, Take, TypeSets, TypeHand, ledger, memory, hand,
           agenda, tick, history, cockpit
  <2> QED BY <1>5, <2>1, <2>2, <2>3, <2>4, <2>5, <2>6, <2>7, <2>8, <2>9, <2>10, <2>11, <2>12,
             <2>13 DEF Selling
<1>6. CASE Delegating
  <2>1. CASE TpCancel
    BY <2>1, <1>a, <1>b, <1>c, <1>d, <1>e, CurMade
       DEF TpCancel, Return, Empty, Slips, TypeSets,
           TypeHand, ledger, memory, hand, agenda, tick, history, cockpit, FinPCs, TpPCs, DayPCs,
           ShrPCs, ManPCs, SellPCs, TpsPCs, Has
  <2>2. CASE TpCancelLost
    BY <2>2, <1>a, <1>b, <1>c, <1>d, <1>e
       DEF TpCancelLost, Return, Empty, TypeSets, TypeHand,
           ledger, memory, hand, agenda, tick, history, cockpit
  <2>3. CASE TpAccepted
    BY <2>3, <1>a, <1>b, <1>c, <1>d, <1>e, CurMade
       DEF TpAccepted, TypeSets, TypeHand, ledger,
           memory, hand, agenda, tick, history, cockpit, FinPCs, TpPCs, DayPCs, ShrPCs, ManPCs,
           SellPCs, TpsPCs, Has, Handy, NewOrder
  <2>4. CASE TpRefused
    BY <2>4, <1>a, <1>b, <1>c, <1>d, <1>e
       DEF TpRefused, Return, Empty, TypeSets, TypeHand, ledger,
           memory, hand, agenda, tick, history, cockpit
  <2>5. CASE TpMaybe
    BY <2>5, <1>a, <1>b, <1>c, <1>d, <1>e, CurMade
       DEF TpMaybe, Return, Empty, TypeSets, TypeHand,
           ledger, memory, hand, agenda, tick, history, cockpit, FinPCs, TpPCs, DayPCs, ShrPCs,
           ManPCs, SellPCs, TpsPCs, Has
  <2>6. CASE TpSave
    BY <2>6, <1>a, <1>b, <1>c, <1>d, <1>e, CurMade
       DEF TpSave, Return, Empty, TypeSets, TypeHand,
           ledger, memory, hand, agenda, tick, history, cockpit, FinPCs, TpPCs, DayPCs, ShrPCs,
           ManPCs, SellPCs, TpsPCs, Has
  <2>7. CASE TickDone
    BY <2>7, <1>a, <1>b, <1>c, <1>d, <1>e
       DEF TickDone, TypeSets, TypeHand, ledger, memory, hand,
           agenda, tick, history, cockpit
  <2>8. ASSUME NEW l \in Lots, PlanTp(l)
        PROVE  TypeSets' /\ TypeHand'
    BY <2>8, <1>a, <1>b, <1>c, <1>d, <1>e
       DEF PlanTp, Take, TypeSets, TypeHand, ledger, memory,
           hand, agenda, tick, history, cockpit
  <2>9. ASSUME NEW l \in Lots, ArmStop(l) \/ SetTimeExit(l)
        PROVE  TypeSets' /\ TypeHand'
    BY <2>9, <1>a
       DEF ArmStop, SetTimeExit, TypeSets, TypeHand, ledger, memory, hand, agenda, tick, history
  <2> QED BY <1>6, <2>1, <2>2, <2>3, <2>4, <2>5, <2>6, <2>7, <2>8, <2>9 DEF Delegating
<1>7. CASE World
  <2>1. ASSUME NEW n \in Made, FillOrder(n)
        PROVE  TypeSets' /\ TypeHand'
    BY <2>1, <1>a, <1>b, <1>c, <1>d, <1>e
       DEF FillOrder, TypeSets, TypeHand, ledger, memory, hand,
           agenda, tick, history, cockpit
  <2>2. ASSUME NEW n \in Made, KillOrder(n)
        PROVE  TypeSets' /\ TypeHand'
    BY <2>2, <1>a, <1>b, <1>c, <1>d, <1>e
       DEF KillOrder, TypeSets, TypeHand, ledger, memory, hand,
           agenda, tick, history, cockpit
  <2>3. CASE SellByHand
    BY <2>3, <1>a, <1>b, <1>c, <1>d, <1>e
       DEF SellByHand, TypeSets, TypeHand, ledger, memory, hand,
           agenda, tick, history, cockpit
  <2>4. CASE CloseSession
    BY <2>4, <1>a, <1>b, <1>c, <1>d, <1>e
       DEF CloseSession, TypeSets, TypeHand, ledger, memory,
           hand, agenda, tick, history, cockpit
  <2>5. CASE NewDay
    BY <2>5, <1>a, <1>b, <1>c, <1>d, <1>e
       DEF NewDay, TypeSets, TypeHand, ledger, memory, hand,
           agenda, tick, history, cockpit
  <2>6. ASSUME NEW l \in Lots, RestOver(l)
        PROVE  TypeSets' /\ TypeHand'
    BY <2>6, <1>a, <1>b, <1>c, <1>d, <1>e
       DEF RestOver, TypeSets, TypeHand, ledger, memory, hand,
           agenda, tick, history, cockpit
  <2> QED BY <1>7, <2>1, <2>2, <2>3, <2>4, <2>5, <2>6 DEF World
<1>8. CASE Crash
  <2>1. /\ work' = {} /\ loaded' = FALSE /\ rest' = {} /\ todo' = {} /\ lots' = {}
        /\ spent' = {} /\ placed' = {} /\ cur' = 0 /\ lot' = NoLot /\ seen' = 0 /\ UNCHANGED <<ledger, gone>>
    BY <1>8 DEF Crash, Empty
  <2>2. astray' \subseteq (astray \cup {lot}) /\ (~(pc \in {"track", "tpSave"}) => astray' = astray)
    BY <1>8 DEF Crash
  <2>3. twice' \subseteq (twice \cup {lot}) /\ (~Unsettled => twice' = twice)
    BY <1>8 DEF Crash
  <2>4. (pc \in {"track", "tpSave"} \/ Unsettled) => lot \in Lots
    BY CurMade DEF Unsettled, FinPCs, TpPCs, ManPCs, ShrPCs, SellPCs, TpsPCs
  <2>5. astray' \subseteq Lots
    <3>1. CASE pc \in {"track", "tpSave"}
      BY <1>a, <2>2, <2>4, <3>1 DEF TypeSets
    <3> QED BY <1>a, <2>2, <3>1 DEF TypeSets
  <2>6. twice' \subseteq Lots
    <3>1. CASE Unsettled
      BY <1>a, <2>3, <2>4, <3>1 DEF TypeSets
    <3> QED BY <1>a, <2>3, <3>1 DEF TypeSets
  <2>7. loaded' \in BOOLEAN /\ told' \subseteq Orders /\ gone' \subseteq Orders
    BY <1>a, <2>1 DEF TypeSets, ledger
  <2>8. TypeHand'
    BY <1>a, <2>1 DEF TypeHand
  <2> QED BY <2>1, <2>5, <2>6, <2>7, <2>8 DEF TypeSets
<1>9. CASE UNCHANGED vars
  BY <1>9, <1>z DEF vars, ledger, agenda, tick, history
<1> QED
  BY <1>1, <1>2, <1>3, <1>4, <1>5, <1>6, <1>7, <1>8, <1>9 DEF Next

\* Orders stay, with their lot and size.
LEMMA Stay ==
  ASSUME BookStep
  PROVE  /\ Made \subseteq Made' /\ \A n \in Made : book'[n].lot = book[n].lot /\ book'[n].size = book[n].size
         /\ \A l : Of(l) \subseteq Of(l)'
<1> DEFINE Goal == Made \subseteq Made' /\ \A n \in Made : book'[n].lot = book[n].lot /\ book'[n].size = book[n].size
<1>0. SUFFICES Goal
  BY DEF Of
<1>1. CASE UNCHANGED book
  BY <1>1 DEF Made
<1>2. BookStays \/ SellByHand \/ CloseSession => UNCHANGED book
  BY DEF BookStays, SellByHand, CloseSession
<1>3. ASSUME NEW n, OneChanges(n) PROVE Goal
  BY <1>3 DEF OneChanges
<1>4. CASE OneMoves
  BY <1>3, <1>4 DEF OneMoves, Fills, Dies, Accepted
<1>5. CASE OneMore
  BY <1>5 DEF OneMore, Appends
<1>6. CASE Night
  BY <1>6 DEF Night
<1> QED BY <1>1, <1>2, <1>4, <1>5, <1>6 DEF BookStep

\* What is referred to was made.
LEMMA ReferredNext ==
  ASSUME TypeOK, Referred, Handy, Snapshot, BookStep, [Next]_vars
  PROVE  Referred'
<1>a. /\ Made \subseteq Made' /\ \A l : Of(l) \subseteq Of(l)'
      /\ \A n \in Orders : jour[n] # "none" => n \in Made
      /\ work \subseteq Made /\ todo \subseteq Made /\ placed \subseteq Made /\ told \subseteq Made
      /\ \A l \in Lots : tp[l] \in {0} \cup Of(l) /\ ptp[l] \in {0} \cup Of(l) /\ plan.tp[l] \in {0} \cup Of(l)
  BY Stay DEF Referred, NoneOr
<1>b. /\ jour \in [Orders -> {"none", "pre", "void", "open", "done"}]
      /\ tp \in [Lots -> 0 .. MaxOrders] /\ ptp \in [Lots -> 0 .. MaxOrders]
  BY DEF TypeOK
<1> DEFINE RJour == \A n \in Orders : jour[n] # "none" => n \in Made
           RSets == work \subseteq Made /\ todo \subseteq Made /\ placed \subseteq Made /\ told \subseteq Made
           RTps  == \A l \in Lots : tp[l] \in {0} \cup Of(l) /\ ptp[l] \in {0} \cup Of(l)
           RPlan == \A l \in Lots : plan.tp[l] \in {0} \cup Of(l)
<1>c. SUFFICES RJour' /\ RSets' /\ RTps' /\ RPlan'
  BY DEF Referred, NoneOr
<1>d. ASSUME UNCHANGED jour PROVE RJour'
  BY <1>a, <1>d
<1>e. ASSUME UNCHANGED <<work, todo, placed, told>> PROVE RSets'
  BY <1>a, <1>e
<1>f. ASSUME UNCHANGED <<tp, ptp>> PROVE RTps'
  BY <1>a, <1>f
<1>g. ASSUME UNCHANGED plan PROVE RPlan'
  BY <1>a, <1>g
<1> HIDE DEF RJour, RSets, RTps, RPlan

<1>1. CASE Following
  <2>1. CASE Load
    <3>1. RSets'
      BY <2>1, <1>a DEF RSets, Load, memory, ledger, tick
    <3>0. UNCHANGED <<jour, tp, ptp, plan>>
      BY <2>1 DEF Load, rows, ledger, engine, memory, hand, agenda, tick, history, cockpit
    <3> QED BY <3>1, <3>0, <1>d, <1>f, <1>g
  <2>2. CASE LoadFails
    <3>1. RSets'
      BY <2>2, <1>a DEF RSets, LoadFails, memory, ledger, tick
    <3>0. UNCHANGED <<jour, tp, ptp, plan>>
      BY <2>2 DEF LoadFails, rows, ledger, engine, memory, hand, agenda, tick, history, cockpit
    <3> QED BY <3>1, <3>0, <1>d, <1>f, <1>g
  <2>3. CASE Loaded
    <3>1. RSets'
      BY <2>3, <1>a DEF RSets, Loaded, memory, ledger, tick
    <3>0. UNCHANGED <<jour, tp, ptp, plan>>
      BY <2>3 DEF Loaded, rows, ledger, engine, memory, hand, agenda, tick, history, cockpit
    <3> QED BY <3>1, <3>0, <1>d, <1>f, <1>g
  <2>4. ASSUME NEW n \in Orders, Resolve(n)
        PROVE  RJour' /\ RSets' /\ RTps' /\ RPlan'
    <3>1. RSets'
      BY <2>4, <1>a DEF RSets, Resolve, ledger, tick
    <3>2. RJour'
      BY <2>4, <1>a, <1>b DEF RJour, Resolve
    <3>0. UNCHANGED <<tp, ptp, plan>>
      BY <2>4 DEF Resolve, rows, ledger, engine, memory, hand, agenda, tick, history, cockpit
    <3> QED BY <3>1, <3>2, <3>0, <1>f, <1>g
  <2>5. CASE Begin
    BY <2>5, <1>d, <1>e, <1>f, <1>g
       DEF Begin, rows, ledger, engine, memory, hand, agenda, tick, history, cockpit
  <2> QED BY <1>1, <2>1, <2>2, <2>3, <2>4, <2>5 DEF Following
<1>2. CASE Polling
  <2>1. ASSUME NEW n \in Orders, PollWaits(n)
        PROVE  RJour' /\ RSets' /\ RTps' /\ RPlan'
    <3>1. RSets'
      BY <2>1, <1>a DEF RSets, PollWaits, memory, ledger, tick
    <3>0. UNCHANGED <<jour, tp, ptp, plan>>
      BY <2>1 DEF PollWaits, rows, ledger, engine, memory, hand, agenda, tick, history, cockpit
    <3> QED BY <3>1, <3>0, <1>d, <1>f, <1>g
  <2>2. ASSUME NEW n \in Orders, PollEnds(n)
        PROVE  RJour' /\ RSets' /\ RTps' /\ RPlan'
    <3>1. RSets'
      BY <2>2, <1>a DEF RSets, PollEnds, memory, ledger, tick
    <3>0. UNCHANGED <<jour, tp, ptp, plan>>
      BY <2>2 DEF PollEnds, rows, ledger, engine, memory, hand, agenda, tick, history, cockpit
    <3> QED BY <3>1, <3>0, <1>d, <1>f, <1>g
  <2>3. ASSUME NEW n \in Orders, PollCloses(n)
        PROVE  RJour' /\ RSets' /\ RTps' /\ RPlan'
    <3>1. RSets'
      BY <2>3, <1>a DEF RSets, PollCloses, memory, ledger, tick
    <3>0. UNCHANGED <<jour, tp, ptp, plan>>
      BY <2>3 DEF PollCloses, rows, ledger, engine, memory, hand, agenda, tick, history, cockpit
    <3> QED BY <3>1, <3>0, <1>d, <1>f, <1>g
  <2>4. CASE FinRecord
    <3>2. cur \in Made
      BY <2>4, CurMade DEF FinRecord, FinPCs, TpPCs, DayPCs
    <3>1. RSets'
      BY <2>4, <1>a, <3>2 DEF RSets, FinRecord, Record, memory, agenda, tick
    <3>0. UNCHANGED <<jour, tp, ptp, plan>>
      BY <2>4 DEF FinRecord, rows, ledger, engine, memory, hand, agenda, tick, history, cockpit
    <3> QED BY <3>2, <3>1, <3>0, <1>d, <1>f, <1>g
  <2>5. CASE FinReduce
    <3>1. RTps'
      BY <2>5, <1>a, <1>b DEF RTps, FinReduce, CloseLot, rows, engine
    <3>0. UNCHANGED <<jour, work, todo, placed, told, plan>>
      BY <2>5 DEF FinReduce, rows, ledger, engine, memory, hand, agenda, tick, history, cockpit
    <3> QED BY <3>1, <3>0, <1>d, <1>e, <1>g
  <2>6. CASE FinClose
    <3>1. RTps'
      BY <2>6, <1>a, <1>b DEF RTps, FinClose, CloseLot, rows, engine
    <3>0. UNCHANGED <<jour, work, todo, placed, told, plan>>
      BY <2>6 DEF FinClose, rows, ledger, engine, memory, hand, agenda, tick, history, cockpit
    <3> QED BY <3>1, <3>0, <1>d, <1>e, <1>g
  <2>7. CASE FinDone
    <3>3. cur \in Made
      BY <2>7, CurMade DEF FinDone, FinPCs
    <3>1. RSets'
      BY <2>7, <1>a DEF RSets, FinDone, ledger, agenda, tick
    <3>2. RJour'
      BY <2>7, <1>a, <1>b, <3>3 DEF RJour, FinDone
    <3>0. UNCHANGED <<tp, ptp, plan>>
      BY <2>7 DEF FinDone, rows, ledger, engine, memory, hand, agenda, tick, history, cockpit
    <3> QED BY <3>3, <3>1, <3>2, <3>0, <1>f, <1>g
  <2>8. CASE Cancel \/ CancelFails \/ PollsDone \/ FinNothing
    BY <2>8, <1>d, <1>e, <1>f, <1>g
       DEF Cancel, CancelFails, PollsDone, FinNothing, rows, ledger, engine, memory, hand,
           agenda, tick, history, cockpit
  <2> QED BY <1>2, <2>1, <2>2, <2>3, <2>4, <2>5, <2>6, <2>7, <2>8 DEF Polling
<1>3. CASE Profits
  <2>1. CASE TpRecord
    <3>2. cur \in Made
      BY <2>1, CurMade DEF TpRecord, FinPCs, TpPCs, DayPCs
    <3>1. RSets'
      BY <2>1, <1>a, <3>2 DEF RSets, TpRecord, Record, memory, agenda, tick
    <3>0. UNCHANGED <<jour, tp, ptp, plan>>
      BY <2>1 DEF TpRecord, rows, ledger, engine, memory, hand, agenda, tick, history, cockpit
    <3> QED BY <3>2, <3>1, <3>0, <1>d, <1>f, <1>g
  <2>2. CASE TpClose
    <3>1. RTps'
      BY <2>2, <1>a, <1>b DEF RTps, TpClose, CloseLot, rows, engine
    <3>0. UNCHANGED <<jour, work, todo, placed, told, plan>>
      BY <2>2 DEF TpClose, rows, ledger, engine, memory, hand, agenda, tick, history, cockpit
    <3> QED BY <3>1, <3>0, <1>d, <1>e, <1>g
  <2>3. CASE DayRecord
    <3>2. cur \in Made
      BY <2>3, CurMade DEF DayRecord, FinPCs, TpPCs, DayPCs
    <3>1. RSets'
      BY <2>3, <1>a, <3>2 DEF RSets, DayRecord, Record, memory, agenda, tick
    <3>0. UNCHANGED <<jour, tp, ptp, plan>>
      BY <2>3 DEF DayRecord, rows, ledger, engine, memory, hand, agenda, tick, history, cockpit
    <3> QED BY <3>2, <3>1, <3>0, <1>d, <1>f, <1>g
  <2>4. CASE DayReduce
    <3>1. RTps'
      BY <2>4, <1>a, <1>b DEF RTps, DayReduce, CloseLot, rows, engine
    <3>0. UNCHANGED <<jour, work, todo, placed, told, plan>>
      BY <2>4 DEF DayReduce, rows, ledger, engine, memory, hand, agenda, tick, history, cockpit
    <3> QED BY <3>1, <3>0, <1>d, <1>e, <1>g
  <2>5. CASE DayClear
    <3>1. RTps'
      BY <2>5, <1>a, <1>b DEF RTps, DayClear, CloseLot, rows, engine
    <3>0. UNCHANGED <<jour, work, todo, placed, told, plan>>
      BY <2>5 DEF DayClear, rows, ledger, engine, memory, hand, agenda, tick, history, cockpit
    <3> QED BY <3>1, <3>0, <1>d, <1>e, <1>g
  <2>6. CASE TpChecked \/ Expired \/ (\E l \in Lots : TpCheck(l)) \/
             (\E l \in Lots : Expire(l))
    BY <2>6, <1>d, <1>e, <1>f, <1>g
       DEF TpChecked, Expired, TpCheck, Expire, rows, ledger, engine, memory, hand, agenda,
           tick, history, cockpit
  <2> QED BY <1>3, <2>1, <2>2, <2>3, <2>4, <2>5, <2>6 DEF Profits
<1>4. CASE Syncing
  <2>1. CASE SyncLots
    <3>1. RTps'
      BY <2>1, <1>a, <1>b DEF RTps, SyncLots, CloseLot, rows, engine
    <3>0. UNCHANGED <<jour, work, todo, placed, told, plan>>
      BY <2>1 DEF SyncLots, rows, ledger, engine, memory, hand, agenda, tick, history, cockpit
    <3> QED BY <3>1, <3>0, <1>d, <1>e, <1>g
  <2>2. CASE ShrReduce
    <3>1. RTps'
      BY <2>2, <1>a, <1>b DEF RTps, ShrReduce, CloseLot, rows, engine
    <3>0. UNCHANGED <<jour, work, todo, placed, told, plan>>
      BY <2>2 DEF ShrReduce, rows, ledger, engine, memory, hand, agenda, tick, history, cockpit
    <3> QED BY <3>1, <3>0, <1>d, <1>e, <1>g
  <2>3. CASE ManClose
    <3>1. RTps'
      BY <2>3, <1>a, <1>b DEF RTps, ManClose, CloseLot, rows, engine
    <3>0. UNCHANGED <<jour, work, todo, placed, told, plan>>
      BY <2>3 DEF ManClose, rows, ledger, engine, memory, hand, agenda, tick, history, cockpit
    <3> QED BY <3>1, <3>0, <1>d, <1>e, <1>g
  <2>4. CASE SyncFails \/ SyncVanished \/ Vanished \/ ShrRecord \/ ManRecord \/
             (\E l \in Lots : SyncShrinks(l)) \/ (\E l \in Lots : VanishTp(l)) \/
             (\E l \in Lots : VanishManual(l))
    BY <2>4, <1>d, <1>e, <1>f, <1>g
       DEF SyncFails, SyncVanished, Vanished, ShrRecord, ManRecord, SyncShrinks, VanishTp,
           VanishManual, rows, ledger, engine, memory, hand, agenda, tick, history, cockpit
  <2> QED BY <1>4, <2>1, <2>2, <2>3, <2>4 DEF Syncing
<1>5. CASE Selling
  <2>1. CASE MakePlan
    <3>1. RPlan'
      BY <2>1, <1>a DEF RPlan, MakePlan
    <3>0. UNCHANGED <<jour, work, todo, placed, told, tp, ptp>>
      BY <2>1 DEF MakePlan, rows, ledger, engine, memory, hand, agenda, tick, history, cockpit
    <3> QED BY <3>1, <3>0, <1>d, <1>e, <1>f
  <2>2. CASE ClearTp
    <3>1. RTps'
      BY <2>2, <1>a, <1>b DEF RTps, ClearTp, CloseLot, rows, engine
    <3>0. UNCHANGED <<jour, work, todo, placed, told, plan>>
      BY <2>2 DEF ClearTp, rows, ledger, engine, memory, hand, agenda, tick, history, cockpit
    <3> QED BY <3>1, <3>0, <1>d, <1>e, <1>g
  <2>3. CASE Journal
    <3>3. lot \in Lots /\ pc = "journal" /\ NewOrder(lot, "exit", seen, "unsent")
      BY <2>3, CurMade DEF Journal, SellPCs
    <3>4. Appends("unsent")
      BY <3>3, AddIs
    <3>1. Len(book) + 1 \in Made'
      BY <3>4 DEF Appends
    <3>2. RJour'
      BY <2>3, <1>a, <1>b, <3>1 DEF RJour, Journal
    <3>0. UNCHANGED <<work, todo, placed, told, tp, ptp, plan>>
      BY <2>3 DEF Journal, rows, ledger, engine, memory, hand, agenda, tick, history, cockpit
    <3> QED BY <3>3, <3>4, <3>1, <3>2, <3>0, <1>e, <1>f, <1>g
  <2>4. CASE Track
    <3>3. cur \in Made
      BY <2>4, CurMade DEF Track
    <3>1. RSets'
      BY <2>4, <1>a, <3>3 DEF RSets, Track, ledger, agenda
    <3>2. RJour'
      BY <2>4, <1>a, <1>b, <3>3 DEF RJour, Track
    <3>0. UNCHANGED <<tp, ptp, plan>>
      BY <2>4 DEF Track, rows, ledger, engine, memory, hand, agenda, tick, history, cockpit
    <3> QED BY <3>3, <3>1, <3>2, <3>0, <1>f, <1>g
  <2>5. CASE Unjournal
    <3>2. RJour'
      BY <2>5, <1>a, <1>b DEF RJour, Unjournal
    <3>0. UNCHANGED <<work, todo, placed, told, tp, ptp, plan>>
      BY <2>5 DEF Unjournal, rows, ledger, engine, memory, hand, agenda, tick, history, cockpit,
             Return
    <3> QED BY <3>2, <3>0, <1>e, <1>f, <1>g
  <2>6. CASE SellsDone
    <3>1. RSets'
      BY <2>6, <1>a DEF RSets, SellsDone, memory, ledger, tick
    <3>0. UNCHANGED <<jour, tp, ptp, plan>>
      BY <2>6 DEF SellsDone, rows, ledger, engine, memory, hand, agenda, tick, history, cockpit
    <3> QED BY <3>1, <3>0, <1>d, <1>f, <1>g
  <2>7. CASE SellCancel \/ SellCancelLost \/ SubmitAccepted \/ SubmitRefused \/ SubmitMaybe \/
             SellFailed \/ (\E l \in Lots : \E q \in 1 .. EntryQty[l] : Sell(l, q))
    BY <2>7, <1>d, <1>e, <1>f, <1>g
       DEF SellCancel, SellCancelLost, SubmitAccepted, SubmitRefused, SubmitMaybe, SellFailed,
           Sell, rows, ledger, engine, memory, hand, agenda, tick, history, cockpit
  <2> QED BY <1>5, <2>1, <2>2, <2>3, <2>4, <2>5, <2>6, <2>7 DEF Selling
<1>6. CASE Delegating
  <2>1. CASE TpSave
    <3>3. cur \in Of(lot)
      BY <2>1 DEF TpSave, Handy, HandSave
    <3>1. RTps'
      BY <2>1, <1>a, <1>b, <3>3 DEF RTps, TpSave, CloseLot, rows, engine
    <3>0. UNCHANGED <<jour, work, todo, placed, told, plan>>
      BY <2>1 DEF TpSave, rows, ledger, engine, memory, hand, agenda, tick, history, cockpit
    <3> QED BY <3>3, <3>1, <3>0, <1>d, <1>e, <1>g
  <2>2. CASE TickDone
    <3>1. RPlan'
      BY <2>2, <1>a DEF RPlan, TickDone, NoPlan
    <3>0. UNCHANGED <<jour, work, todo, placed, told, tp, ptp>>
      BY <2>2 DEF TickDone, rows, ledger, engine, memory, hand, agenda, tick, history, cockpit
    <3> QED BY <3>1, <3>0, <1>d, <1>e, <1>f
  <2>3. CASE TpCancel \/ TpCancelLost \/ TpAccepted \/ TpRefused \/ TpMaybe \/
             (\E l \in Lots : PlanTp(l))
    BY <2>3, <1>d, <1>e, <1>f, <1>g
       DEF TpCancel, TpCancelLost, TpAccepted, TpRefused, TpMaybe, PlanTp, rows, ledger,
           engine, memory, hand, agenda, tick, history, cockpit
  <2>4. ASSUME NEW l \in Lots, ArmStop(l) \/ SetTimeExit(l)
        PROVE  RJour' /\ RSets' /\ RTps' /\ RPlan'
    <3>0. Rewrites(l)
      BY <2>4, UpdateIs
    <3>1. /\ UNCHANGED <<jour, work, todo, placed, told, plan, ptp>>
          /\ tp' = tp \/ tp' = [tp EXCEPT ![l] = ptp[l]]
      BY <3>0 DEF Rewrites, ledger, engine, memory, agenda, tick
    <3>2. RTps'
      BY <1>a, <1>b, <3>1 DEF RTps
    <3> QED BY <3>1, <3>2, <1>d, <1>e, <1>g
  <2> QED BY <1>6, <2>1, <2>2, <2>3, <2>4 DEF Delegating
<1>7. CASE World
  BY <1>7, <1>d, <1>e, <1>f, <1>g
     DEF World, FillOrder, KillOrder, SellByHand, CloseSession, NewDay, RestOver, rows, ledger,
         engine, memory, hand, agenda, tick, history, cockpit
<1>8. CASE Crash
  <2>1. RSets'
    BY <1>8, <1>a DEF RSets, Crash, ledger
  <2>2. RTps'
    BY <1>8, <1>a DEF RTps, Crash, rows
  <2>3. RPlan'
    BY <1>8, <1>a DEF RPlan, Crash, NoPlan
  <2>4. UNCHANGED jour
    BY <1>8 DEF Crash
  <2> QED BY <2>1, <2>2, <2>3, <2>4, <1>d
<1>9. CASE UNCHANGED vars
  BY <1>9, <1>d, <1>e, <1>f, <1>g
     DEF vars, rows, ledger, engine, memory, hand, agenda, tick, history, cockpit
<1> QED
  BY <1>1, <1>2, <1>3, <1>4, <1>5, <1>6, <1>7, <1>8, <1>9 DEF Next
\* Orders that are not being sent: none becomes live, and one that was not sent stays so.
LEMMA Calm ==
  ASSUME BookStep
  PROVE  \A n \in Made : pc # "submit" \/ n # cur => (Live(n)' => Live(n))
<1>1. CASE UNCHANGED book
  BY <1>1 DEF Live
<1>2. BookStays \/ SellByHand \/ CloseSession => UNCHANGED book
  BY DEF BookStays, SellByHand, CloseSession
<1>3. CASE OneMoves
  <2>1. PICK n \in Made : Fills(n) \/ Dies(n) \/ Accepted(n)
    BY <1>3 DEF OneMoves
  <2>2. \A m \in Made \ {n} : book'[m] = book[m]
    BY <2>1 DEF Fills, Dies, Accepted, OneChanges
  <2>3. Live(n) \/ (n = cur /\ pc = "submit")
    BY <2>1 DEF Fills, Dies, Accepted
  <2> QED BY <2>2, <2>3 DEF Live
<1>4. CASE OneMore
  BY <1>4 DEF OneMore, Appends, Live
<1>5. CASE Night
  BY <1>5 DEF Night, Live
<1> QED BY <1>1, <1>2, <1>3, <1>4, <1>5 DEF BookStep

\* What the world does to orders.
LEMMA WorldIs ==
  ASSUME TypeOK, World
  PROVE  /\ Made' = Made /\ Len(book') = Len(book) /\ (UNCHANGED cockpit \/ \E l \in Lots : RestOver(l))
         /\ \A n \in Made : /\ Live(n)' => Live(n)
                            /\ book[n].state = "unsent" => book'[n].state = "unsent"
<1> DEFINE Goal == /\ Made' = Made /\ Len(book') = Len(book)
                   /\ \A n \in Made : /\ Live(n)' => Live(n)
                                      /\ book[n].state = "unsent" => book'[n].state = "unsent"
<1>1. ASSUME NEW n \in Made, OneChanges(n), Live(n) PROVE Goal
  BY <1>1 DEF OneChanges, Live
<1>2. ASSUME NEW n \in Made, FillOrder(n) PROVE Goal /\ UNCHANGED cockpit
  <2>1. Fills(n)
    BY <1>2, FillIs
  <2> QED BY <1>1, <1>2, <2>1 DEF Fills, FillOrder
<1>3. ASSUME NEW n \in Made, KillOrder(n) PROVE Goal /\ UNCHANGED cockpit
  <2>1. Dies(n)
    BY <1>3, DieIs DEF KillOrder
  <2> QED BY <1>1, <1>3, <2>1 DEF Dies, KillOrder
<1>4. CASE NewDay
  <2>1. Night
    BY <1>4, NightIs
  <2>2. Goal
    BY <2>1 DEF Night, Live
  <2> QED BY <1>4, <2>2 DEF NewDay
<1>5. ASSUME UNCHANGED book PROVE Goal
  BY <1>5 DEF Live, Made
<1>6. SellByHand \/ CloseSession \/ (\E l \in Lots : RestOver(l)) => UNCHANGED book
  BY DEF SellByHand, CloseSession, RestOver
<1>7. SellByHand \/ CloseSession => UNCHANGED cockpit
  BY DEF SellByHand, CloseSession
<1> HIDE DEF Goal
<1>8. CASE \E n \in Made : FillOrder(n) \/ KillOrder(n)
  BY <1>2, <1>3, <1>8 DEF Goal
<1> QED BY <1>4, <1>5, <1>6, <1>7, <1>8 DEF World, Goal

\* A lot is worked on as long as its order is followed.
LEMMA WorkingStays ==
  ASSUME Referred, BookStep
  PROVE  \A l : /\ work' \subseteq work /\ Working(l)' => Working(l)
                /\ work' = work => Working(l)' = Working(l)
BY Stay DEF Referred, Working

\* What is in hand.
LEMMA HandyNext ==
  ASSUME TypeOK, Referred, Handy, Engine, Backs, Visited, Snapshot, BookStep, IsBook', [Next]_vars
  PROVE  Handy'
<1> USE DEF FinPCs, TpPCs, DayPCs, ShrPCs, ManPCs, SellPCs, NewPCs, TpsPCs
<1>a. /\ Made \subseteq Made' /\ \A n \in Made : book'[n].lot = book[n].lot /\ book'[n].size = book[n].size
      /\ \A l : Of(l) \subseteq Of(l)'
  BY Stay
<1>b. /\ \A l : work' \subseteq work /\ Working(l)' => Working(l)
      /\ \A l : work' = work => Working(l)' = Working(l)
      /\ \A n \in Made : pc # "submit" \/ n # cur => (Live(n)' => Live(n))
  BY WorkingStays, Calm
<1>c. /\ work \subseteq Made /\ todo \subseteq Made
      /\ \A l \in Lots : tp[l] \in {0} \cup Of(l) /\ ptp[l] \in {0} \cup Of(l) /\ Of(l) \subseteq Made
  BY DEF Referred, NoneOr, Of
<1>d. /\ row \in [Lots -> {"open", "closed"}] /\ qty \in [Lots -> Nat] /\ pos \in [Lots -> Nat]
      /\ \A l \in Lots : qty[l] >= 1
      /\ ptp \in [Lots -> 0 .. MaxOrders] /\ tp \in [Lots -> 0 .. MaxOrders]
      /\ seen \in Nat /\ spent \subseteq Lots /\ lots \subseteq Lots
      /\ \A n \in Made : book[n].lot \in Lots /\ book[n].filled \in Nat /\ Reported(n) \in Nat
      /\ Made \subseteq Orders
  <2>1. Made \subseteq Orders /\ \A n \in Made : book[n] \in Order
    BY Numbers DEF TypeOK
  <2>2. \A n \in Made : book[n].lot \in Lots /\ book[n].filled \in Nat /\ Reported(n) \in Nat
    BY <2>1 DEF Order, Reported
  <2>3. \A l \in Lots : qty[l] >= 1
    BY ExitAssumption DEF TypeOK
  <2> QED BY <2>1, <2>2, <2>3 DEF TypeOK
<1>e. \A l \in Lots : /\ row[l] = "closed" => pos[l] = 0
                      /\ pos[l] = 0 => ptp[l] = 0
                      /\ pos[l] <= qty[l]
  BY DEF Engine

<1>f. ASSUME pc' \in {"idle", "load", "resolve", "poll", "tpcheck", "expire", "sync", "vanish", "plan", "sell", "tps"}
      PROVE  Handy'
  BY <1>f DEF Handy
<1>g. ASSUME pc' \in {"cancel", "finRecord", "finDone"}, HandFin' PROVE Handy'
  BY <1>g DEF Handy
<1>h. ASSUME pc' \in TpPCs, HandTp' PROVE Handy'
  BY <1>h DEF Handy
<1>i. ASSUME pc' \in DayPCs, HandDay', pc' # "dayClear" => 0 < seen' /\ seen' < pos'[lot'] PROVE Handy'
  BY <1>i DEF Handy
<1>j. ASSUME pc' \in ShrPCs, HandShr' PROVE Handy'
  BY <1>j DEF Handy
<1>k. ASSUME pc' \in ManPCs, HandMan' PROVE Handy'
  BY <1>k DEF Handy
<1>l. ASSUME pc' \in {"journal", "askHeld"}, HandSell', ptp'[lot'] = 0, pc' = "journal" => Len(book') < MaxOrders
      PROVE  Handy'
  BY <1>l DEF Handy
<1>m. ASSUME pc' \in {"sellCancel", "clearTp"}, HandSell', cur' = ptp'[lot'], cur' # 0,
             pc' = "clearTp" => ~Live(cur)', Len(book') < MaxOrders
      PROVE  Handy'
  BY <1>m DEF Handy
<1>n. ASSUME pc' \in NewPCs, HandSell', HandNew', ptp'[lot'] = 0, pc' = "submit" => book'[cur'].state = "unsent"
      PROVE  Handy'
  BY <1>n DEF Handy
<1>o. ASSUME pc' \in {"tpCancel", "tpPlace"}, HandTps', Len(book') < MaxOrders,
             pc' = "tpCancel" => cur' = ptp'[lot'] /\ cur' # 0,
             pc' = "tpPlace" => ptp'[lot'] = 0 \/ ~Live(ptp[lot])'
      PROVE  Handy'
  BY <1>o DEF Handy
<1>p. ASSUME pc' = "tpSave", HandTps', HandSave' PROVE Handy'
  BY <1>p DEF Handy
<1>q. ASSUME UNCHANGED <<rows, jour, engine, work, pc, hand, agenda, spent>>, Len(book') = Len(book),
             \A n \in Made : /\ Live(n)' => Live(n)
                             /\ book[n].state = "unsent" => book'[n].state = "unsent"
      PROVE  Handy'
  <2>1. \A l : Working(l)' = Working(l)
    BY <1>b, <1>q
  <2>2. Has' = Has /\ OpenLots' = OpenLots /\ UNCHANGED <<row, qty, tp, pos, ptp, cur, lot, seen, back, lots>>
    BY <1>q DEF Has, OpenLots, rows, engine, hand, agenda
  <2>3. pc \in {"cancel"} \cup FinPCs => HandFin'
    BY <1>a, <1>c, <1>q, <2>2 DEF Handy, HandFin
  <2>4. /\ pc = "finReduce" => (lot \in Has /\ seen > 0 /\ Remainder > 0)'
        /\ pc = "finClose" => (lot \in Has /\ seen > 0 /\ Drops)'
    BY <2>2 DEF Handy, Remainder, Drops, Keeps
  <2>5. pc \in TpPCs => HandTp'
    BY <1>a, <2>1, <2>2 DEF Handy, HandTp
  <2>6. pc \in DayPCs => HandDay'
    BY <2>1, <2>2 DEF Handy, HandDay
  <2>7. pc \in ShrPCs => HandShr'
    BY <2>1, <2>2 DEF Handy, HandShr
  <2>8. pc \in ManPCs => HandMan'
    BY <1>q, <2>1, <2>2 DEF Handy, HandMan
  <2>9. pc \in SellPCs => HandSell'
    BY <1>q, <2>1, <2>2 DEF Handy, HandSell
  <2>10. pc \in NewPCs => HandNew'
    BY <1>a, <1>c, <1>q, <2>2 DEF Handy, HandNew, Of
  <2>11. pc \in TpsPCs => HandTps'
    BY <1>q, <2>1, <2>2 DEF Handy, HandTps
  <2>12. pc = "tpSave" => HandSave'
    BY <1>a, <1>c, <1>q, <2>2 DEF Handy, HandSave, Of
  <2>13. /\ pc \in {"dayRecord", "dayReduce"} => (0 < seen /\ seen < pos[lot])'
         /\ pc \in {"sellCancel", "clearTp", "tpCancel"} => (cur = ptp[lot] /\ cur # 0)'
         /\ pc \in {"journal", "askHeld"} \cup NewPCs => (ptp[lot] = 0)'
         /\ pc \in {"sellCancel", "clearTp", "journal", "tpCancel", "tpPlace"} => (Len(book) < MaxOrders)'
    BY <1>q, <2>2 DEF Handy
  <2>14. pc = "clearTp" => ~Live(cur)'
    BY <1>q, <2>2, CurMade DEF Handy, Live
  <2>15. pc = "submit" => book'[cur'].state = "unsent"
    BY <1>q, <2>2, CurMade DEF Handy
  <2>16. pc = "tpPlace" => (ptp[lot] = 0 \/ ~Live(ptp[lot]))'
    <3>1. ASSUME pc = "tpPlace" PROVE lot \in Lots
      BY <3>1 DEF Handy, HandTps, Has
    <3> QED BY <1>c, <1>q, <2>2, <3>1 DEF Handy, Live
  <2> HIDE DEF FinPCs, TpPCs, DayPCs, ShrPCs, ManPCs, SellPCs, NewPCs, TpsPCs
  <2> QED BY <1>q, <2>3, <2>4, <2>5, <2>6, <2>7, <2>8, <2>9, <2>10, <2>11, <2>12, <2>13, <2>14, <2>15, <2>16
             DEF Handy

<1>1. CASE Following
  <2>1. CASE Begin
    BY <2>1, <1>f DEF Begin
  <2>2. CASE Load
    BY <2>2, <1>f DEF Load
  <2>3. CASE LoadFails
    BY <2>3, <1>f DEF LoadFails
  <2>4. CASE Loaded
    BY <2>4, <1>f DEF Loaded
  <2>5. ASSUME NEW n \in Orders, Resolve(n)
        PROVE  Handy'
    BY <2>5, <1>f DEF Resolve
  <2> QED BY <1>1, <2>1, <2>2, <2>3, <2>4, <2>5 DEF Following
<1>2. CASE Polling
  <2>1. ASSUME NEW n \in Orders, PollWaits(n)
        PROVE  Handy'
    BY <2>1, <1>f DEF PollWaits
  <2>2. ASSUME NEW n \in Orders, PollEnds(n)
        PROVE  Handy'
    <3>1. pc' \in {"finRecord", "cancel"} /\ cur' = n /\ lot' = book[n].lot /\ work' = work /\ n \in work
      BY <2>2 DEF PollEnds, Take, memory
    <3>2. HandFin'
      BY <1>a, <1>c, <3>1 DEF HandFin
    <3> QED BY <1>g, <3>1, <3>2
  <2>3. ASSUME NEW n \in Orders, PollCloses(n)
        PROVE  Handy'
    <3>1. pc' \in {"finRecord", "cancel"} /\ cur' = n /\ lot' = book[n].lot /\ work' = work /\ n \in work
      BY <2>3 DEF PollCloses, Take, memory
    <3>2. HandFin'
      BY <1>a, <1>c, <3>1 DEF HandFin
    <3> QED BY <1>g, <3>1, <3>2
  <2>4. CASE Cancel
    <3>1. pc' \in {"finRecord", "finDone"} /\ UNCHANGED <<cur, lot, work>> /\ HandFin
      BY <2>4 DEF Cancel, Handy, hand, memory, tick
    <3>2. HandFin'
      BY <1>a, <1>c, <3>1 DEF HandFin
    <3> QED BY <1>g, <3>1, <3>2
  <2>5. CASE CancelFails
    <3>1. CASE pc' = "poll"
      BY <1>f, <3>1
    <3>2. CASE pc' # "poll"
      <4>1. pc' = "finRecord" /\ UNCHANGED <<cur, lot, work>> /\ HandFin
        BY <2>5, <3>2 DEF CancelFails, Return, Handy, memory
      <4>2. HandFin'
        BY <1>a, <1>c, <4>1 DEF HandFin
      <4> QED BY <1>g, <4>1, <4>2
    <3> QED BY <3>1, <3>2
  <2>6. CASE PollsDone
    BY <2>6, <1>f DEF PollsDone, Phase, Backs, PollPCs
  <2>7. CASE FinNothing
    <3>1. pc' \in {"finRecord", "finDone"} /\ UNCHANGED <<cur, lot, work>> /\ HandFin
      BY <2>7 DEF FinNothing, Handy, hand, memory, tick
    <3>2. HandFin'
      BY <1>a, <1>c, <3>1 DEF HandFin
    <3> QED BY <1>g, <3>1, <3>2
  <2>8. CASE FinRecord
    <3>1. /\ UNCHANGED <<cur, lot, seen, work, pos>> /\ HandFin /\ seen > 0 /\ lot \in Has
          /\ \/ pc' = "finReduce" /\ Remainder > 0
             \/ pc' = "finClose" /\ Drops
      BY <2>8 DEF FinRecord, Handy, memory, hand, engine, Keeps
    <3>2. HandFin'
      BY <1>a, <1>c, <3>1 DEF HandFin
    <3>3. (lot \in Has)' /\ Remainder' = Remainder /\ seen' > 0 /\ (Drops => Drops')
      BY <3>1 DEF Has, Remainder, Drops, Keeps
    <3> QED BY <3>1, <3>2, <3>3 DEF Handy
  <2>9. CASE FinReduce
    <3>1. pc' \in {"finRecord", "finDone"} /\ UNCHANGED <<cur, lot, work>> /\ HandFin
      BY <2>9 DEF FinReduce, Handy, hand, memory, tick
    <3>2. HandFin'
      BY <1>a, <1>c, <3>1 DEF HandFin
    <3> QED BY <1>g, <3>1, <3>2
  <2>10. CASE FinClose
    <3>1. pc' \in {"finRecord", "finDone"} /\ UNCHANGED <<cur, lot, work>> /\ HandFin
      BY <2>10 DEF FinClose, Handy, hand, memory, tick
    <3>2. HandFin'
      BY <1>a, <1>c, <3>1 DEF HandFin
    <3> QED BY <1>g, <3>1, <3>2
  <2>11. CASE FinDone
    BY <2>11, <1>f DEF FinDone, Return
  <2> QED BY <1>2, <2>1, <2>2, <2>3, <2>4, <2>5, <2>6, <2>7, <2>8, <2>9, <2>10, <2>11 DEF Polling
<1>3. CASE Profits
  <2>1. CASE TpRecord
    <3>1. pc' = "tpClose" /\ UNCHANGED <<row, cur, lot, seen, lots, work>> /\ HandTp
      BY <2>1 DEF TpRecord, Handy, rows, hand, memory, agenda
    <3>2. HandTp'
      BY <1>a, <1>b, <3>1 DEF HandTp, OpenLots
    <3> QED BY <1>h, <3>1, <3>2
  <2>2. CASE TpClose
    BY <2>2, <1>f DEF TpClose, Return, Backs
  <2>3. CASE TpChecked
    BY <2>3, <1>f DEF TpChecked, Phase
  <2>4. CASE DayRecord
    <3>1. /\ pc' = "dayReduce" /\ UNCHANGED <<pos, ptp, cur, lot, seen, work>> /\ HandDay /\ 0 < seen /\ seen < pos[lot]
      BY <2>4 DEF DayRecord, Handy, engine, hand, memory
    <3>2. HandDay'
      BY <1>b, <3>1 DEF HandDay, Has
    <3> QED BY <1>i, <3>1, <3>2
  <2>5. CASE DayReduce
    BY <2>5, <1>f DEF DayReduce, Return
  <2>6. CASE DayClear
    BY <2>6, <1>f DEF DayClear, Return
  <2>7. CASE Expired
    BY <2>7, <1>f DEF Expired
  <2>8. ASSUME NEW l \in Lots, TpCheck(l)
        PROVE  Handy'
    <3>1. CASE pc' = pc
      BY <2>8, <1>f, <3>1 DEF TpCheck
    <3>2. CASE pc' # pc
      <4>1. /\ pc' = "tpRecord" /\ lot' = l /\ cur' = ptp[l] /\ seen' = Reported(ptp[l]) /\ lots' = lots \ {l}
            /\ ptp[l] # 0 /\ Reported(ptp[l]) >= pos[l] /\ ~Working(l) /\ UNCHANGED <<row, work>>
        BY <2>8, <3>2 DEF TpCheck, Take, TpFull, rows, memory
      <4>2. pos[l] > 0 /\ row[l] = "open" /\ ptp[l] \in Of(l) /\ seen' > 0
        BY <1>c, <1>d, <1>e, <4>1
      <4>3. HandTp'
        BY <1>a, <1>b, <4>1, <4>2 DEF HandTp, OpenLots
      <4> QED BY <1>h, <4>1, <4>3
    <3> QED BY <3>1, <3>2
  <2>9. ASSUME NEW l \in Lots, Expire(l)
        PROVE  Handy'
    <3>1. CASE pc' = pc
      BY <2>9, <1>f, <3>1 DEF Expire
    <3>2. CASE pc' # pc
      <4>1. /\ lot' = l /\ cur' = ptp[l] /\ seen' = Reported(ptp[l]) /\ lots' = lots \ {l}
            /\ ptp[l] # 0 /\ ~Working(l) /\ UNCHANGED <<row, work, pos, ptp>>
            /\ pc' \in {"tpRecord", "dayRecord", "dayClear"}
            /\ pc' = "tpRecord" => Reported(ptp[l]) >= pos[l]
            /\ pc' = "dayRecord" => Reported(ptp[l]) > 0 /\ ~(Reported(ptp[l]) >= pos[l])
        BY <2>9, <3>2 DEF Expire, Take, TpFull, rows, memory, engine
      <4>2. pos[l] > 0 /\ row[l] = "open" /\ ptp[l] \in Of(l)
        BY <1>c, <1>d, <1>e, <4>1
      <4>3. CASE pc' = "tpRecord"
        <5>1. seen' > 0
          BY <1>c, <1>d, <4>1, <4>2, <4>3
        <5>2. HandTp'
          BY <1>a, <1>b, <4>1, <4>2, <5>1 DEF HandTp, OpenLots
        <5> QED BY <1>h, <4>3, <5>2
      <4>4. CASE pc' \in {"dayRecord", "dayClear"}
        <5>1. HandDay'
          BY <1>b, <4>1, <4>2 DEF HandDay, Has
        <5>2. pc' = "dayRecord" => 0 < seen' /\ seen' < pos'[lot']
          BY <1>c, <1>d, <4>1, <4>2
        <5> QED BY <1>i, <4>4, <5>1, <5>2
      <4> QED BY <4>1, <4>3, <4>4
    <3> QED BY <3>1, <3>2
  <2> QED BY <1>3, <2>1, <2>2, <2>3, <2>4, <2>5, <2>6, <2>7, <2>8, <2>9 DEF Profits
<1>4. CASE Syncing
  <2>1. CASE SyncFails
    BY <2>1, <1>f DEF SyncFails
  <2>2. CASE SyncVanished
    BY <2>2, <1>f DEF SyncVanished, Phase
  <2>3. CASE SyncLots
    BY <2>3, <1>f DEF SyncLots
  <2>4. CASE Vanished
    BY <2>4, <1>f DEF Vanished
  <2>5. CASE ShrRecord
    <3>1. pc' = "shrReduce" /\ UNCHANGED <<row, qty, lot, seen, work>> /\ HandShr
      BY <2>5 DEF ShrRecord, Handy, rows, hand, memory
    <3>2. HandShr'
      BY <1>b, <3>1 DEF HandShr, OpenLots
    <3> QED BY <1>j, <3>1, <3>2
  <2>6. CASE ShrReduce
    BY <2>6, <1>f DEF ShrReduce, Return
  <2>7. CASE ManRecord
    <3>1. pc' = "manClose" /\ UNCHANGED <<row, tp, cur, lot, seen, lots, back, spent, work>> /\ HandMan
      BY <2>7 DEF ManRecord, Handy, rows, hand, memory, agenda, tick
    <3>2. HandMan'
      BY <1>b, <3>1 DEF HandMan, OpenLots
    <3> QED BY <1>k, <3>1, <3>2
  <2>8. CASE ManClose
    BY <2>8, <1>f DEF ManClose, Return, Backs
  <2>9. ASSUME NEW l \in Lots, SyncShrinks(l)
        PROVE  Handy'
    <3>1. /\ pc' = "shrRecord" /\ lot' = l /\ seen' = Held /\ OpenLots = {l} /\ ~Working(l) /\ Expected > Held /\ Held > 0
          /\ UNCHANGED <<row, qty, work>>
      BY <2>9 DEF SyncShrinks, Explained, Take, rows, memory
    <3>2. Expected = qty[l]
      <4>3. IsFiniteSet({l}) /\ {l} \ {l} = {}
        BY FS_Singleton
      <4>4. qty[l] \in Int
        BY <1>d
      <4>1. IsFiniteSet({l}) /\ {l} \ {l} = {} /\ \A x \in {l} : qty[x] \in Int
        BY <4>3, <4>4
      <4>2. SumFunctionOnSet(qty, {l}) = qty[l] + SumFunctionOnSet(qty, {l} \ {l})
        BY <4>1, SumTake
      <4> QED BY <1>d, <3>1, <4>1, <4>2, SumEmpty DEF Expected
    <3>3. HandShr'
      BY <1>b, <3>1, <3>2 DEF HandShr, OpenLots
    <3> QED BY <1>j, <3>1, <3>3
  <2>10. ASSUME NEW l \in Lots, VanishTp(l)
        PROVE  Handy'
    <3>1. /\ pc' = "tpRecord" /\ lot' = l /\ cur' = tp[l] /\ seen' = Reported(tp[l]) /\ lots' = lots \ {l} /\ l \in lots
          /\ tp[l] # 0 /\ Reported(tp[l]) >= qty[l] /\ UNCHANGED <<row, work>> /\ pc = "vanish"
      BY <2>10 DEF VanishTp, Take, TpFull, rows, memory
    <3>2. row[l] = "open" /\ ~Working(l)
      BY <3>1 DEF Visited, Backs
    <3>3. tp[l] \in Of(l) /\ seen' > 0
      BY <1>c, <1>d, <3>1
    <3>4. HandTp'
      BY <1>a, <1>b, <3>1, <3>2, <3>3 DEF HandTp, OpenLots
    <3> QED BY <1>h, <3>1, <3>4
  <2>11. ASSUME NEW l \in Lots, VanishManual(l)
        PROVE  Handy'
    <3>1. /\ pc' = "manRecord" /\ lot' = l /\ cur' = tp[l] /\ seen' = qty[l] /\ lots' = lots \ {l} /\ l \in lots
          /\ UNCHANGED <<row, tp, work, back>> /\ pc = "vanish"
      BY <2>11 DEF VanishManual, Take, rows, memory
    <3>2. row[l] = "open" /\ ~Working(l) /\ back = "vanish"
      BY <3>1 DEF Visited, Backs
    <3>3. HandMan'
      BY <1>b, <1>d, <3>1, <3>2 DEF HandMan, OpenLots
    <3> QED BY <1>k, <3>1, <3>3
  <2> QED BY <1>4, <2>1, <2>2, <2>3, <2>4, <2>5, <2>6, <2>7, <2>8, <2>9, <2>10, <2>11 DEF Syncing
<1>5. CASE Selling
  <2>1. CASE MakePlan
    BY <2>1, <1>f DEF MakePlan
  <2>2. CASE SellCancel
    <3>1. CASE pc' = "sell"
      BY <1>f, <3>1
    <3>2. CASE pc' # "sell"
      <4>1. /\ pc' = "clearTp" /\ UNCHANGED <<cur, lot, seen, spent, pos, ptp, work>> /\ HandSell /\ cur = ptp[lot] /\ cur # 0
            /\ Live(cur) /\ book' = [book EXCEPT ![cur].state = "dead"] /\ cur \in Made /\ Len(book) < MaxOrders
        BY <2>2, <3>2, CurMade DEF SellCancel, Return, Handy, hand, tick, engine, memory
      <4>2. Dies(cur)
        BY <4>1, DieIs
      <4>3. ~Live(cur)' /\ Len(book') < MaxOrders
        BY <4>1, <4>2 DEF Dies, OneChanges, Live
      <4>4. HandSell'
        BY <1>b, <4>1 DEF HandSell, Has
      <4> QED BY <1>m, <4>1, <4>3, <4>4
    <3> QED BY <3>1, <3>2
  <2>3. CASE SellCancelLost
    BY <2>3, <1>f DEF SellCancelLost, Return
  <2>4. CASE ClearTp
    <3>1. /\ pc' = "journal" /\ UNCHANGED <<cur, lot, seen, spent, pos, work, book>> /\ HandSell /\ Len(book) < MaxOrders
          /\ ptp' = [ptp EXCEPT ![lot] = 0]
      BY <2>4 DEF ClearTp, Handy, hand, tick, memory
    <3>2. ptp'[lot'] = 0
      BY <1>d, <3>1 DEF HandSell, Has
    <3>3. HandSell'
      BY <1>b, <3>1 DEF HandSell, Has
    <3> QED BY <1>l, <3>1, <3>2, <3>3
  <2>5. CASE Journal
    <3>1. /\ pc' = "submit" /\ UNCHANGED <<lot, seen, spent, pos, tp, ptp, work>> /\ HandSell /\ ptp[lot] = 0
          /\ cur' = Len(book) + 1 /\ NewOrder(lot, "exit", seen, "unsent") /\ pc = "journal" /\ Len(book) < MaxOrders
          /\ (jour' = jour \/ jour' = [jour EXCEPT ![Len(book) + 1] = "pre"])
      BY <2>5 DEF Journal, Handy, tick, engine, memory, rows
    <3>2. lot \in Lots
      BY <3>1 DEF HandSell, Has
    <3>3. Appends("unsent")
      BY <3>1, <3>2, AddIs
    <3>4. /\ cur' \notin Made /\ cur' \in Made' /\ book'[cur'].lot = lot /\ book'[cur'].size = seen
          /\ book'[cur'].state = "unsent"
      BY <3>1, <3>3 DEF Appends
    <3>5. cur' \in Orders /\ jour[cur'] = "none"
      <4>1. Len(book) \in Nat
        BY Numbers DEF TypeOK
      <4>2. cur' \in Orders
        BY <3>1, <4>1, ExitAssumption DEF Orders
      <4> QED BY <3>4, <4>2 DEF Referred
    <3>6. jour'[cur'] \in {"none", "pre"}
      BY <3>1, <3>5 DEF TypeOK
    <3>7. tp[lot] # cur'
      BY <1>c, <3>2, <3>4, <3>5 DEF Orders
    <3>8. HandNew'
      BY <3>1, <3>4, <3>6, <3>7 DEF HandNew, Of
    <3>9. HandSell'
      BY <1>b, <3>1 DEF HandSell, Has
    <3> QED BY <1>n, <3>1, <3>4, <3>8, <3>9
  <2>6. CASE SubmitAccepted
    <3>1. /\ pc' \in {"track", "unjournal"} /\ UNCHANGED <<cur, lot, seen, spent, pos, tp, ptp, jour, work>>
          /\ HandSell /\ HandNew /\ ptp[lot] = 0
      BY <2>6 DEF SubmitAccepted, Handy, hand, tick, engine, memory, rows
    <3>2. HandSell'
      BY <1>b, <3>1 DEF HandSell, Has
    <3>3. HandNew'
      BY <1>a, <1>c, <3>1 DEF HandNew, HandSell, Has
    <3> QED BY <1>n, <3>1, <3>2, <3>3
  <2>7. CASE SubmitRefused
    <3>1. /\ pc' \in {"track", "unjournal"} /\ UNCHANGED <<cur, lot, seen, spent, pos, tp, ptp, jour, work>>
          /\ HandSell /\ HandNew /\ ptp[lot] = 0
      BY <2>7 DEF SubmitRefused, Handy, hand, tick, engine, memory, rows
    <3>2. HandSell'
      BY <1>b, <3>1 DEF HandSell, Has
    <3>3. HandNew'
      BY <1>a, <1>c, <3>1 DEF HandNew, HandSell, Has
    <3> QED BY <1>n, <3>1, <3>2, <3>3
  <2>8. CASE SubmitMaybe
    <3>1. /\ pc' \in {"track", "unjournal"} /\ UNCHANGED <<cur, lot, seen, spent, pos, tp, ptp, jour, work>>
          /\ HandSell /\ HandNew /\ ptp[lot] = 0
      BY <2>8 DEF SubmitMaybe, Handy, hand, tick, engine, memory, rows
    <3>2. HandSell'
      BY <1>b, <3>1 DEF HandSell, Has
    <3>3. HandNew'
      BY <1>a, <1>c, <3>1 DEF HandNew, HandSell, Has
    <3> QED BY <1>n, <3>1, <3>2, <3>3
  <2>9. CASE Track
    BY <2>9, <1>f DEF Track, Return
  <2>10. CASE Unjournal
    <3>1. CASE pc' = "sell"
      BY <1>f, <3>1
    <3>2. CASE pc' # "sell"
      <4>1. pc' = "askHeld" /\ UNCHANGED <<cur, lot, seen, spent, pos, ptp, work>> /\ HandSell /\ ptp[lot] = 0
        BY <2>10, <3>2 DEF Unjournal, Return, Handy, hand, tick, engine
      <4>2. HandSell'
        BY <1>b, <4>1 DEF HandSell, Has
      <4> QED BY <1>l, <4>1, <4>2
    <3> QED BY <3>1, <3>2
  <2>11. CASE SellFailed
    <3>1. CASE pc' = "sell"
      BY <1>f, <3>1
    <3>2. CASE pc' # "sell"
      <4>1. /\ pc' = "manRecord" /\ cur' = tp[lot] /\ seen' = pos[lot] /\ UNCHANGED <<row, tp, lot, spent, back, work>>
            /\ HandSell /\ pc = "askHeld"
        BY <2>11, <3>2 DEF SellFailed, Return, Handy, tick, agenda, rows
      <4>2. back = "sell"
        BY <4>1 DEF Backs
      <4>3. row[lot] = "open" /\ lot \in Lots /\ pos[lot] > 0
        BY <1>d, <1>e, <4>1 DEF HandSell, Has
      <4>4. HandMan'
        BY <1>b, <4>1, <4>2, <4>3 DEF HandMan, HandSell, OpenLots
      <4> QED BY <1>k, <4>1, <4>4
    <3> QED BY <3>1, <3>2
  <2>12. CASE SellsDone
    BY <2>12, <1>f DEF SellsDone
  <2>13. ASSUME NEW l \in Lots, NEW q \in 1 .. EntryQty[l], Sell(l, q)
        PROVE  Handy'
    <3>1. /\ pc' \in {"journal", "sellCancel"} /\ lot' = l /\ cur' = ptp[l] /\ seen' = q /\ spent' = spent \cup {l}
          /\ pc' = "journal" <=> ptp[l] = 0
          /\ l \in Has /\ ~Working(l) /\ q <= pos[l] /\ Len(book) < MaxOrders /\ UNCHANGED <<pos, ptp, work, book>>
      BY <2>13 DEF Sell, Take, memory, engine
    <3>2. 1 <= q
      BY ExitAssumption
    <3>3. HandSell'
      BY <1>b, <3>1, <3>2 DEF HandSell, Has
    <3> QED BY <1>l, <1>m, <3>1, <3>3
  <2> QED BY <1>5, <2>1, <2>2, <2>3, <2>4, <2>5, <2>6, <2>7, <2>8, <2>9, <2>10, <2>11, <2>12,
             <2>13 DEF Selling
<1>6. CASE Delegating
  <2>1. CASE TpCancel
    <3>1. CASE pc' = "tps"
      BY <1>f, <3>1
    <3>2. CASE pc' # "tps"
      <4>1. /\ pc' = "tpPlace" /\ UNCHANGED <<cur, lot, seen, lots, spent, pos, ptp, work>> /\ HandTps /\ cur = ptp[lot]
            /\ Live(cur) /\ book' = [book EXCEPT ![cur].state = "dead"] /\ cur \in Made /\ Len(book) < MaxOrders
        BY <2>1, <3>2, CurMade DEF TpCancel, Return, Handy, hand, tick, engine, memory, agenda
      <4>2. Dies(cur)
        BY <4>1, DieIs
      <4>3. ~Live(ptp[lot])' /\ Len(book') < MaxOrders
        BY <4>1, <4>2 DEF Dies, OneChanges, Live
      <4>4. HandTps'
        BY <1>b, <4>1 DEF HandTps, Has
      <4> QED BY <1>o, <4>1, <4>3, <4>4
    <3> QED BY <3>1, <3>2
  <2>2. CASE TpCancelLost
    BY <2>2, <1>f DEF TpCancelLost, Return
  <2>3. CASE TpAccepted
    <3>1. /\ pc' = "tpSave" /\ UNCHANGED <<lot, seen, lots, spent, pos, tp, ptp, work, jour>> /\ HandTps
          /\ cur' = Len(book) + 1 /\ NewOrder(lot, "tp", seen, "live") /\ pc = "tpPlace" /\ Len(book) < MaxOrders
          /\ session = "open" /\ Free >= seen
      BY <2>3 DEF TpAccepted, Handy, tick, engine, memory, rows, agenda
    <3>2. lot \in Lots
      BY <3>1 DEF HandTps, Has
    <3>3. Appends("live")
      BY <3>1, <3>2, AddIs
    <3>4. cur' \notin Made /\ cur' \in Made' /\ book'[cur'].lot = lot /\ book'[cur'].size = seen
      BY <3>1, <3>3 DEF Appends
    <3>5. cur' \in Orders /\ jour[cur'] = "none"
      <4>1. Len(book) \in Nat
        BY Numbers DEF TypeOK
      <4>2. cur' \in Orders
        BY <3>1, <4>1, ExitAssumption DEF Orders
      <4> QED BY <3>4, <4>2 DEF Referred
    <3>7. tp[lot] # cur' /\ ptp[lot] # cur'
      BY <1>c, <3>2, <3>4, <3>5 DEF Orders
    <3>8. HandSave'
      BY <3>1, <3>4, <3>5, <3>7 DEF HandSave, Of
    <3>9. HandTps'
      BY <1>b, <3>1 DEF HandTps, Has
    <3> QED BY <1>p, <3>1, <3>8, <3>9
  <2>4. CASE TpRefused
    BY <2>4, <1>f DEF TpRefused, Return
  <2>5. CASE TpMaybe
    BY <2>5, <1>f DEF TpMaybe, Return
  <2>6. CASE TpSave
    BY <2>6, <1>f DEF TpSave, Return
  <2>7. CASE TickDone
    BY <2>7, <1>f DEF TickDone
  <2>8. ASSUME NEW l \in Lots, PlanTp(l)
        PROVE  Handy'
    <3>1. /\ pc' \in {"tpPlace", "tpCancel"} /\ lot' = l /\ cur' = plan.tp[l] /\ seen' = plan.qty[l] /\ lots' = lots \ {l}
          /\ pc' = "tpPlace" <=> plan.tp[l] = 0
          /\ l \in lots /\ plan.qty[l] > 0 /\ ~Working(l) /\ l \notin spent /\ Len(book) < MaxOrders /\ pc = "tps"
          /\ UNCHANGED <<pos, ptp, work, book, spent>>
      BY <2>8 DEF PlanTp, Untouched, Take, memory, engine, tick
    <3>2. plan.qty[l] = pos[l] /\ plan.tp[l] = ptp[l]
      BY <3>1 DEF Snapshot, SameAsPlan
    <3>3. HandTps'
      BY <1>b, <3>1, <3>2 DEF HandTps, Has
    <3> QED BY <1>o, <3>1, <3>2, <3>3
  <2>9. ASSUME NEW l \in Lots, ArmStop(l) \/ SetTimeExit(l)
        PROVE  Handy'
    BY <2>9, <1>f DEF ArmStop, SetTimeExit, BeforeTps
  <2> QED BY <1>6, <2>1, <2>2, <2>3, <2>4, <2>5, <2>6, <2>7, <2>8, <2>9 DEF Delegating
<1>7. CASE World
  <2>1. ASSUME NEW n \in Made, FillOrder(n)
        PROVE  Handy'
    <3>1. UNCHANGED <<rows, jour, engine, work, pc, hand, agenda, spent>>
      BY <2>1 DEF FillOrder, cockpit, memory, tick
    <3>2. World
      BY <2>1 DEF World
    <3> QED BY <1>q, <3>1, <3>2, WorldIs
  <2>2. ASSUME NEW n \in Made, KillOrder(n)
        PROVE  Handy'
    <3>1. UNCHANGED <<rows, jour, engine, work, pc, hand, agenda, spent>>
      BY <2>2 DEF KillOrder, cockpit, memory, tick
    <3>2. World
      BY <2>2 DEF World
    <3> QED BY <1>q, <3>1, <3>2, WorldIs
  <2>3. CASE SellByHand
    <3>1. UNCHANGED <<rows, jour, engine, work, pc, hand, agenda, spent>>
      BY <2>3 DEF SellByHand, cockpit, memory, tick
    <3>2. World
      BY <2>3 DEF World
    <3> QED BY <1>q, <3>1, <3>2, WorldIs
  <2>4. CASE CloseSession
    <3>1. UNCHANGED <<rows, jour, engine, work, pc, hand, agenda, spent>>
      BY <2>4 DEF CloseSession, cockpit, memory, tick
    <3>2. World
      BY <2>4 DEF World
    <3> QED BY <1>q, <3>1, <3>2, WorldIs
  <2>5. CASE NewDay
    <3>1. UNCHANGED <<rows, jour, engine, work, pc, hand, agenda, spent>>
      BY <2>5 DEF NewDay, cockpit, memory, tick
    <3>2. World
      BY <2>5 DEF World
    <3> QED BY <1>q, <3>1, <3>2, WorldIs
  <2>6. ASSUME NEW l \in Lots, RestOver(l)
        PROVE  Handy'
    <3>1. UNCHANGED <<rows, jour, engine, work, pc, hand, agenda, spent>>
      BY <2>6 DEF RestOver, cockpit, memory, tick
    <3>2. World
      BY <2>6 DEF World
    <3> QED BY <1>q, <3>1, <3>2, WorldIs
  <2> QED BY <1>7, <2>1, <2>2, <2>3, <2>4, <2>5, <2>6 DEF World
<1>8. CASE Crash
  BY <1>8, <1>f DEF Crash
<1>9. CASE UNCHANGED vars
  <2>1. UNCHANGED <<rows, jour, engine, work, pc, hand, agenda, spent, book>>
    BY <1>9 DEF vars, memory, tick
  <2> QED BY <1>q, <2>1 DEF Live
<1> QED
  BY <1>1, <1>2, <1>3, <1>4, <1>5, <1>6, <1>7, <1>8, <1>9 DEF Next
\* Where the goroutine comes back to.
LEMMA BacksNext ==
  ASSUME Backs, [Next]_vars
  PROVE  Backs'
<1>a. ASSUME UNCHANGED <<pc, back>> PROVE Backs'
  BY <1>a DEF Backs
<1> USE DEF PCs, PollPCs, FinPCs, TpPCs, DayPCs, ShrPCs, ManPCs, SellPCs, TpsPCs

<1>1. CASE Following
  <2>1. CASE Begin
    BY <2>1 DEF Backs, Begin, agenda, cockpit
  <2>2. CASE Load
    BY <2>2 DEF Backs, Load, agenda, cockpit
  <2>3. CASE LoadFails
    BY <2>3 DEF Backs, LoadFails, agenda, cockpit
  <2>4. CASE Loaded
    BY <2>4 DEF Backs, Loaded, agenda, cockpit
  <2>5. ASSUME NEW n \in Orders, Resolve(n)
        PROVE  Backs'
    BY <2>5, <1>a DEF Resolve, agenda, cockpit
  <2> QED BY <1>1, <2>1, <2>2, <2>3, <2>4, <2>5 DEF Following
<1>2. CASE Polling
  <2>1. ASSUME NEW n \in Orders, PollWaits(n)
        PROVE  Backs'
    BY <2>1, <1>a DEF PollWaits, agenda, cockpit
  <2>2. ASSUME NEW n \in Orders, PollEnds(n)
        PROVE  Backs'
    BY <2>2 DEF Backs, PollEnds, Take, agenda, cockpit
  <2>3. ASSUME NEW n \in Orders, PollCloses(n)
        PROVE  Backs'
    BY <2>3 DEF Backs, PollCloses, Take, agenda, cockpit
  <2>4. CASE Cancel
    BY <2>4 DEF Backs, Cancel, agenda, cockpit
  <2>5. CASE CancelFails
    BY <2>5 DEF Backs, CancelFails, Return, agenda, cockpit
  <2>6. CASE PollsDone
    BY <2>6 DEF Backs, PollsDone, Phase, agenda, cockpit
  <2>7. CASE FinNothing
    BY <2>7 DEF Backs, FinNothing, agenda, cockpit
  <2>8. CASE FinRecord
    BY <2>8 DEF Backs, FinRecord, agenda, cockpit
  <2>9. CASE FinReduce
    BY <2>9 DEF Backs, FinReduce, agenda, cockpit
  <2>10. CASE FinClose
    BY <2>10 DEF Backs, FinClose, agenda, cockpit
  <2>11. CASE FinDone
    BY <2>11 DEF Backs, FinDone, Return, agenda, cockpit
  <2> QED BY <1>2, <2>1, <2>2, <2>3, <2>4, <2>5, <2>6, <2>7, <2>8, <2>9, <2>10, <2>11 DEF Polling
<1>3. CASE Profits
  <2>1. CASE TpRecord
    BY <2>1 DEF Backs, TpRecord, agenda, cockpit
  <2>2. CASE TpClose
    BY <2>2 DEF Backs, TpClose, Return, agenda, cockpit
  <2>3. CASE TpChecked
    BY <2>3 DEF Backs, TpChecked, Phase, agenda, cockpit
  <2>4. CASE DayRecord
    BY <2>4 DEF Backs, DayRecord, agenda, cockpit
  <2>5. CASE DayReduce
    BY <2>5 DEF Backs, DayReduce, Return, agenda, cockpit
  <2>6. CASE DayClear
    BY <2>6 DEF Backs, DayClear, Return, agenda, cockpit
  <2>7. CASE Expired
    BY <2>7 DEF Backs, Expired, agenda, cockpit
  <2>8. ASSUME NEW l \in Lots, TpCheck(l)
        PROVE  Backs'
    BY <2>8 DEF Backs, TpCheck, Take, agenda, cockpit
  <2>9. ASSUME NEW l \in Lots, Expire(l)
        PROVE  Backs'
    BY <2>9 DEF Backs, Expire, Take, agenda, cockpit
  <2> QED BY <1>3, <2>1, <2>2, <2>3, <2>4, <2>5, <2>6, <2>7, <2>8, <2>9 DEF Profits
<1>4. CASE Syncing
  <2>1. CASE SyncFails
    BY <2>1 DEF Backs, SyncFails, agenda, cockpit
  <2>2. CASE SyncVanished
    BY <2>2 DEF Backs, SyncVanished, Phase, agenda, cockpit
  <2>3. CASE SyncLots
    BY <2>3 DEF Backs, SyncLots, agenda, cockpit
  <2>4. CASE Vanished
    BY <2>4 DEF Backs, Vanished, agenda, cockpit
  <2>5. CASE ShrRecord
    BY <2>5 DEF Backs, ShrRecord, agenda, cockpit
  <2>6. CASE ShrReduce
    BY <2>6 DEF Backs, ShrReduce, Return, agenda, cockpit
  <2>7. CASE ManRecord
    BY <2>7 DEF Backs, ManRecord, agenda, cockpit
  <2>8. CASE ManClose
    BY <2>8 DEF Backs, ManClose, Return, agenda, cockpit
  <2>9. ASSUME NEW l \in Lots, SyncShrinks(l)
        PROVE  Backs'
    BY <2>9 DEF Backs, SyncShrinks, Take, agenda, cockpit
  <2>10. ASSUME NEW l \in Lots, VanishTp(l)
        PROVE  Backs'
    BY <2>10 DEF Backs, VanishTp, Take, agenda, cockpit
  <2>11. ASSUME NEW l \in Lots, VanishManual(l)
        PROVE  Backs'
    BY <2>11 DEF Backs, VanishManual, Take, agenda, cockpit
  <2> QED BY <1>4, <2>1, <2>2, <2>3, <2>4, <2>5, <2>6, <2>7, <2>8, <2>9, <2>10, <2>11 DEF Syncing
<1>5. CASE Selling
  <2>1. CASE MakePlan
    BY <2>1 DEF Backs, MakePlan, agenda, cockpit
  <2>2. CASE SellCancel
    BY <2>2 DEF Backs, SellCancel, Return, agenda, cockpit
  <2>3. CASE SellCancelLost
    BY <2>3 DEF Backs, SellCancelLost, Return, agenda, cockpit
  <2>4. CASE ClearTp
    BY <2>4 DEF Backs, ClearTp, agenda, cockpit
  <2>5. CASE Journal
    BY <2>5 DEF Backs, Journal, agenda, cockpit
  <2>6. CASE SubmitAccepted
    BY <2>6 DEF Backs, SubmitAccepted, agenda, cockpit
  <2>7. CASE SubmitRefused
    BY <2>7 DEF Backs, SubmitRefused, agenda, cockpit
  <2>8. CASE SubmitMaybe
    BY <2>8 DEF Backs, SubmitMaybe, agenda, cockpit
  <2>9. CASE Track
    BY <2>9 DEF Backs, Track, Return, agenda, cockpit
  <2>10. CASE Unjournal
    BY <2>10 DEF Backs, Unjournal, Return, agenda, cockpit
  <2>11. CASE SellFailed
    BY <2>11 DEF Backs, SellFailed, Return, agenda, cockpit
  <2>12. CASE SellsDone
    BY <2>12 DEF Backs, SellsDone, agenda, cockpit
  <2>13. ASSUME NEW l \in Lots, NEW q \in 1 .. EntryQty[l], Sell(l, q)
        PROVE  Backs'
    BY <2>13 DEF Backs, Sell, Take, agenda, cockpit
  <2> QED BY <1>5, <2>1, <2>2, <2>3, <2>4, <2>5, <2>6, <2>7, <2>8, <2>9, <2>10, <2>11, <2>12,
             <2>13 DEF Selling
<1>6. CASE Delegating
  <2>1. CASE TpCancel
    BY <2>1 DEF Backs, TpCancel, Return, agenda, cockpit
  <2>2. CASE TpCancelLost
    BY <2>2 DEF Backs, TpCancelLost, Return, agenda, cockpit
  <2>3. CASE TpAccepted
    BY <2>3 DEF Backs, TpAccepted, agenda, cockpit
  <2>4. CASE TpRefused
    BY <2>4 DEF Backs, TpRefused, Return, agenda, cockpit
  <2>5. CASE TpMaybe
    BY <2>5 DEF Backs, TpMaybe, Return, agenda, cockpit
  <2>6. CASE TpSave
    BY <2>6 DEF Backs, TpSave, Return, agenda, cockpit
  <2>7. CASE TickDone
    BY <2>7 DEF Backs, TickDone, agenda, cockpit
  <2>8. ASSUME NEW l \in Lots, PlanTp(l)
        PROVE  Backs'
    BY <2>8 DEF Backs, PlanTp, Take, agenda, cockpit
  <2>9. ASSUME NEW l \in Lots, ArmStop(l) \/ SetTimeExit(l)
        PROVE  Backs'
    BY <2>9, <1>a DEF ArmStop, SetTimeExit, agenda
  <2> QED BY <1>6, <2>1, <2>2, <2>3, <2>4, <2>5, <2>6, <2>7, <2>8, <2>9 DEF Delegating
<1>7. CASE World
  <2>1. ASSUME NEW n \in Made, FillOrder(n)
        PROVE  Backs'
    BY <2>1, <1>a DEF FillOrder, agenda, cockpit
  <2>2. ASSUME NEW n \in Made, KillOrder(n)
        PROVE  Backs'
    BY <2>2, <1>a DEF KillOrder, agenda, cockpit
  <2>3. CASE SellByHand
    BY <2>3, <1>a DEF SellByHand, agenda, cockpit
  <2>4. CASE CloseSession
    BY <2>4, <1>a DEF CloseSession, agenda, cockpit
  <2>5. CASE NewDay
    BY <2>5, <1>a DEF NewDay, agenda, cockpit
  <2>6. ASSUME NEW l \in Lots, RestOver(l)
        PROVE  Backs'
    BY <2>6, <1>a DEF RestOver, agenda, cockpit
  <2> QED BY <1>7, <2>1, <2>2, <2>3, <2>4, <2>5, <2>6 DEF World
<1>8. CASE Crash
  BY <1>8 DEF Backs, Crash
<1>9. CASE UNCHANGED vars
  BY <1>9, <1>a DEF vars, agenda
<1> QED
  BY <1>1, <1>2, <1>3, <1>4, <1>5, <1>6, <1>7, <1>8, <1>9 DEF Next
\* The lots that vanished.
LEMMA VisitedNext ==
  ASSUME TypeOK, Referred, Handy, Backs, Visited, BookStep, Held' <= Held, Held' \in Nat, [Next]_vars
  PROVE  Visited'
<1> USE DEF PollPCs, FinPCs, TpPCs, DayPCs, ShrPCs, ManPCs, SellPCs, TpsPCs
<1>a. /\ \A l : work' \subseteq work /\ Working(l)' => Working(l)
      /\ \A l : work' = work => Working(l)' = Working(l)
  BY WorkingStays
<1>b. Held = 0 => Held' = 0
  BY Amounts
<1> DEFINE Idle == \A l \in lots : row[l] = "open" /\ ~Working(l)
<1>c. ASSUME back' = "vanish" => back = "vanish" /\ Idle', pc' \in ManPCs => back = "vanish" \/ Held = 0
      PROVE  Visited'
  BY <1>b, <1>c DEF Visited
<1>d. ASSUME work' \subseteq work, lots' \subseteq lots, \A l \in lots' : row'[l] = row[l] PROVE back = "vanish" => Idle'
  BY <1>a, <1>d DEF Visited
<1>e. ASSUME UNCHANGED row, work' \subseteq work, lots' \subseteq lots, back' = "vanish" => back = "vanish",
             pc' \in ManPCs => pc' = pc \/ back = "vanish" \/ Held = 0
      PROVE  Visited'
  BY <1>c, <1>d, <1>e DEF Visited
<1>f. ASSUME back' # "vanish", pc' \notin ManPCs PROVE Visited'
  BY <1>c, <1>f
<1> HIDE DEF Idle

<1>1. CASE Following
  <2>1. CASE Begin
    BY <2>1, <1>f DEF Begin, Phase
  <2>2. CASE Load
    <3>1. back' # "vanish" /\ pc' \notin ManPCs
      BY <2>2 DEF Load, Backs, Return, Phase, agenda
    <3> QED BY <1>f, <3>1
  <2>3. CASE LoadFails
    <3>1. back' # "vanish" /\ pc' \notin ManPCs
      BY <2>3 DEF LoadFails, Backs, Return, Phase, agenda
    <3> QED BY <1>f, <3>1
  <2>4. CASE Loaded
    <3>1. back' # "vanish" /\ pc' \notin ManPCs
      BY <2>4 DEF Loaded, Backs, Return, Phase, agenda
    <3> QED BY <1>f, <3>1
  <2>5. ASSUME NEW n \in Orders, Resolve(n)
        PROVE  Visited'
    <3>1. back' # "vanish" /\ pc' \notin ManPCs
      BY <2>5 DEF Resolve, Backs, Return, Phase, agenda
    <3> QED BY <1>f, <3>1
  <2> QED BY <1>1, <2>1, <2>2, <2>3, <2>4, <2>5 DEF Following
<1>2. CASE Polling
  <2>1. ASSUME NEW n \in Orders, PollWaits(n)
        PROVE  Visited'
    BY <2>1, <1>e DEF PollWaits, rows, ledger, engine, memory, hand, agenda, tick, history, cockpit
  <2>2. ASSUME NEW n \in Orders, PollEnds(n)
        PROVE  Visited'
    BY <2>2, <1>e DEF PollEnds, Take, rows, ledger, engine, memory, hand, agenda, tick, history,
             cockpit
  <2>3. ASSUME NEW n \in Orders, PollCloses(n)
        PROVE  Visited'
    BY <2>3, <1>e DEF PollCloses, Take, rows, ledger, engine, memory, hand, agenda, tick, history,
             cockpit
  <2>4. CASE Cancel
    BY <2>4, <1>e DEF Cancel, rows, ledger, engine, memory, hand, agenda, tick, history, cockpit
  <2>5. CASE CancelFails
    BY <2>5, <1>e DEF CancelFails, Return, rows, ledger, engine, memory, hand, agenda, tick, history,
             cockpit
  <2>6. CASE PollsDone
    <3>1. back' # "vanish" /\ pc' \notin ManPCs
      BY <2>6 DEF PollsDone, Backs, Return, Phase, agenda
    <3> QED BY <1>f, <3>1
  <2>7. CASE FinNothing
    BY <2>7, <1>e DEF FinNothing, rows, ledger, engine, memory, hand, agenda, tick, history, cockpit
  <2>8. CASE FinRecord
    BY <2>8, <1>e DEF FinRecord, rows, ledger, engine, memory, hand, agenda, tick, history, cockpit
  <2>9. CASE FinReduce
    BY <2>9, <1>e DEF FinReduce, rows, ledger, engine, memory, hand, agenda, tick, history, cockpit
  <2>10. CASE FinClose
    <3>1. back' # "vanish" /\ pc' \notin ManPCs
      BY <2>10 DEF FinClose, Backs, Return, Phase, agenda
    <3> QED BY <1>f, <3>1
  <2>11. CASE FinDone
    <3>1. back' # "vanish" /\ pc' \notin ManPCs
      BY <2>11 DEF FinDone, Backs, Return, Phase, agenda
    <3> QED BY <1>f, <3>1
  <2> QED BY <1>2, <2>1, <2>2, <2>3, <2>4, <2>5, <2>6, <2>7, <2>8, <2>9, <2>10, <2>11 DEF Polling
<1>3. CASE Profits
  <2>1. CASE TpRecord
    BY <2>1, <1>e DEF TpRecord, rows, ledger, engine, memory, hand, agenda, tick, history, cockpit
  <2>2. CASE TpClose
    <3>1. /\ pc' \notin ManPCs /\ lots' = lots /\ back' = back /\ work' = work
          /\ (UNCHANGED row \/ row' = [row EXCEPT ![lot] = "closed"])
      BY <2>2 DEF TpClose, Return, Backs, CloseLot, agenda, memory
    <3>2. back = "vanish" => lot \notin lots
      BY <2>2 DEF TpClose, Handy, HandTp, HandMan
    <3>3. back = "vanish" => \A l \in lots' : row'[l] = row[l]
      BY <3>1, <3>2 DEF TypeOK
    <3> QED BY <1>c, <1>d, <3>1, <3>3
  <2>3. CASE TpChecked
    BY <2>3, <1>f DEF TpChecked, Phase
  <2>4. CASE DayRecord
    BY <2>4, <1>e DEF DayRecord, rows, ledger, engine, memory, hand, agenda, tick, history, cockpit
  <2>5. CASE DayReduce
    BY <2>5, <1>e DEF DayReduce, Return, rows, ledger, engine, memory, hand, agenda, tick, history,
             cockpit
  <2>6. CASE DayClear
    BY <2>6, <1>e DEF DayClear, Return, rows, ledger, engine, memory, hand, agenda, tick, history,
             cockpit
  <2>7. CASE Expired
    BY <2>7, <1>e DEF Expired, rows, ledger, engine, memory, hand, agenda, tick, history, cockpit
  <2>8. ASSUME NEW l \in Lots, TpCheck(l)
        PROVE  Visited'
    BY <2>8, <1>e DEF TpCheck, Take, rows, ledger, engine, memory, hand, agenda, tick, history,
             cockpit
  <2>9. ASSUME NEW l \in Lots, Expire(l)
        PROVE  Visited'
    BY <2>9, <1>e DEF Expire, Take, rows, ledger, engine, memory, hand, agenda, tick, history, cockpit
  <2> QED BY <1>3, <2>1, <2>2, <2>3, <2>4, <2>5, <2>6, <2>7, <2>8, <2>9 DEF Profits
<1>4. CASE Syncing
  <2>1. CASE SyncFails
    BY <2>1, <1>e DEF SyncFails, rows, ledger, engine, memory, hand, agenda, tick, history, cockpit
  <2>2. CASE SyncVanished
    <3>1. /\ pc' = "vanish" /\ Held = 0 /\ lots' = {l \in OpenLots : ~Working(l)} /\ UNCHANGED <<row, work>>
      BY <2>2 DEF SyncVanished, Phase, rows, memory
    <3>2. \A l \in lots' : row'[l] = "open" /\ ~Working(l)'
      BY <1>a, <3>1 DEF OpenLots
    <3> QED BY <1>b, <3>1, <3>2 DEF Visited
  <2>3. CASE SyncLots
    BY <2>3, <1>e DEF SyncLots, rows, ledger, engine, memory, hand, agenda, tick, history, cockpit
  <2>4. CASE Vanished
    BY <2>4, <1>e DEF Vanished, rows, ledger, engine, memory, hand, agenda, tick, history, cockpit
  <2>5. CASE ShrRecord
    BY <2>5, <1>e DEF ShrRecord, rows, ledger, engine, memory, hand, agenda, tick, history, cockpit
  <2>6. CASE ShrReduce
    BY <2>6, <1>e DEF ShrReduce, Return, rows, ledger, engine, memory, hand, agenda, tick, history,
             cockpit
  <2>7. CASE ManRecord
    BY <2>7, <1>e DEF ManRecord, Backs, Visited, rows, ledger, engine, memory, hand, agenda, tick,
             history, cockpit
  <2>8. CASE ManClose
    <3>1. /\ pc' \notin ManPCs /\ lots' = lots /\ back' = back /\ work' = work
          /\ (UNCHANGED row \/ row' = [row EXCEPT ![lot] = "closed"])
      BY <2>8 DEF ManClose, Return, Backs, CloseLot, agenda, memory
    <3>2. back = "vanish" => lot \notin lots
      BY <2>8 DEF ManClose, Handy, HandTp, HandMan
    <3>3. back = "vanish" => \A l \in lots' : row'[l] = row[l]
      BY <3>1, <3>2 DEF TypeOK
    <3> QED BY <1>c, <1>d, <3>1, <3>3
  <2>9. ASSUME NEW l \in Lots, SyncShrinks(l)
        PROVE  Visited'
    BY <2>9, <1>e DEF SyncShrinks, Take, rows, ledger, engine, memory, hand, agenda, tick, history,
             cockpit
  <2>10. ASSUME NEW l \in Lots, VanishTp(l)
        PROVE  Visited'
    BY <2>10, <1>e DEF VanishTp, Take, rows, ledger, engine, memory, hand, agenda, tick, history,
             cockpit
  <2>11. ASSUME NEW l \in Lots, VanishManual(l)
        PROVE  Visited'
    BY <2>11, <1>e DEF VanishManual, Take, Backs, Visited, rows, ledger, engine, memory, hand, agenda,
             tick, history, cockpit
  <2> QED BY <1>4, <2>1, <2>2, <2>3, <2>4, <2>5, <2>6, <2>7, <2>8, <2>9, <2>10, <2>11 DEF Syncing
<1>5. CASE Selling
  <2>1. CASE MakePlan
    BY <2>1, <1>f DEF MakePlan, Phase
  <2>2. CASE SellCancel
    BY <2>2, <1>e DEF SellCancel, Return, rows, ledger, engine, memory, hand, agenda, tick, history,
             cockpit
  <2>3. CASE SellCancelLost
    BY <2>3, <1>e DEF SellCancelLost, Return, rows, ledger, engine, memory, hand, agenda, tick,
             history, cockpit
  <2>4. CASE ClearTp
    BY <2>4, <1>e DEF ClearTp, rows, ledger, engine, memory, hand, agenda, tick, history, cockpit
  <2>5. CASE Journal
    BY <2>5, <1>e DEF Journal, rows, ledger, engine, memory, hand, agenda, tick, history, cockpit
  <2>6. CASE SubmitAccepted
    BY <2>6, <1>e DEF SubmitAccepted, rows, ledger, engine, memory, hand, agenda, tick, history,
             cockpit
  <2>7. CASE SubmitRefused
    BY <2>7, <1>e DEF SubmitRefused, rows, ledger, engine, memory, hand, agenda, tick, history,
             cockpit
  <2>8. CASE SubmitMaybe
    BY <2>8, <1>e DEF SubmitMaybe, rows, ledger, engine, memory, hand, agenda, tick, history, cockpit
  <2>9. CASE Track
    <3>1. back' # "vanish" /\ pc' \notin ManPCs
      BY <2>9 DEF Track, Backs, Return, Phase, agenda
    <3> QED BY <1>f, <3>1
  <2>10. CASE Unjournal
    BY <2>10, <1>e DEF Unjournal, Return, rows, ledger, engine, memory, hand, agenda, tick, history,
             cockpit
  <2>11. CASE SellFailed
    BY <2>11, <1>e DEF SellFailed, Return, Backs, Visited, rows, ledger, engine, memory, hand, agenda,
             tick, history, cockpit
  <2>12. CASE SellsDone
    BY <2>12, <1>f DEF SellsDone, Phase
  <2>13. ASSUME NEW l \in Lots, NEW q \in 1 .. EntryQty[l], Sell(l, q)
        PROVE  Visited'
    BY <2>13, <1>e DEF Sell, Take, rows, ledger, engine, memory, hand, agenda, tick, history, cockpit
  <2> QED BY <1>5, <2>1, <2>2, <2>3, <2>4, <2>5, <2>6, <2>7, <2>8, <2>9, <2>10, <2>11, <2>12,
             <2>13 DEF Selling
<1>6. CASE Delegating
  <2>1. CASE TpCancel
    BY <2>1, <1>e DEF TpCancel, Return, rows, ledger, engine, memory, hand, agenda, tick, history,
             cockpit
  <2>2. CASE TpCancelLost
    BY <2>2, <1>e DEF TpCancelLost, Return, rows, ledger, engine, memory, hand, agenda, tick, history,
             cockpit
  <2>3. CASE TpAccepted
    BY <2>3, <1>e DEF TpAccepted, rows, ledger, engine, memory, hand, agenda, tick, history, cockpit
  <2>4. CASE TpRefused
    BY <2>4, <1>e DEF TpRefused, Return, rows, ledger, engine, memory, hand, agenda, tick, history,
             cockpit
  <2>5. CASE TpMaybe
    BY <2>5, <1>e DEF TpMaybe, Return, rows, ledger, engine, memory, hand, agenda, tick, history,
             cockpit
  <2>6. CASE TpSave
    BY <2>6, <1>e DEF TpSave, Return, rows, ledger, engine, memory, hand, agenda, tick, history,
             cockpit
  <2>7. CASE TickDone
    BY <2>7, <1>f DEF TickDone, Phase
  <2>8. ASSUME NEW l \in Lots, PlanTp(l)
        PROVE  Visited'
    BY <2>8, <1>e DEF PlanTp, Take, rows, ledger, engine, memory, hand, agenda, tick, history, cockpit
  <2>9. ASSUME NEW l \in Lots, ArmStop(l) \/ SetTimeExit(l)
        PROVE  Visited'
    BY <2>9, <1>e DEF ArmStop, SetTimeExit, rows, memory, agenda
  <2> QED BY <1>6, <2>1, <2>2, <2>3, <2>4, <2>5, <2>6, <2>7, <2>8, <2>9 DEF Delegating
<1>7. CASE World
  <2>1. ASSUME NEW n \in Made, FillOrder(n)
        PROVE  Visited'
    BY <2>1, <1>e DEF FillOrder, rows, ledger, engine, memory, hand, agenda, tick, history, cockpit
  <2>2. ASSUME NEW n \in Made, KillOrder(n)
        PROVE  Visited'
    BY <2>2, <1>e DEF KillOrder, rows, ledger, engine, memory, hand, agenda, tick, history, cockpit
  <2>3. CASE SellByHand
    BY <2>3, <1>e DEF SellByHand, rows, ledger, engine, memory, hand, agenda, tick, history, cockpit
  <2>4. CASE CloseSession
    BY <2>4, <1>e DEF CloseSession, rows, ledger, engine, memory, hand, agenda, tick, history, cockpit
  <2>5. CASE NewDay
    BY <2>5, <1>e DEF NewDay, rows, ledger, engine, memory, hand, agenda, tick, history, cockpit
  <2>6. ASSUME NEW l \in Lots, RestOver(l)
        PROVE  Visited'
    BY <2>6, <1>e DEF RestOver, rows, ledger, engine, memory, hand, agenda, tick, history, cockpit
  <2> QED BY <1>7, <2>1, <2>2, <2>3, <2>4, <2>5, <2>6 DEF World
<1>8. CASE Crash
  BY <1>8, <1>f DEF Crash, Phase
<1>9. CASE UNCHANGED vars
  BY <1>9, <1>e DEF vars, rows, memory, agenda
<1> QED
  BY <1>1, <1>2, <1>3, <1>4, <1>5, <1>6, <1>7, <1>8, <1>9 DEF Next

\* The plan's snapshot is what the engine says of the lots that were not sold since.
LEMMA SnapshotNext ==
  ASSUME TypeOK, Referred, Handy, Backs, Snapshot, BookStep, [Next]_vars
  PROVE  Snapshot'
<1> USE DEF PollPCs, FinPCs, TpPCs, DayPCs, ShrPCs, ManPCs, SellPCs, TpsPCs
<1>a. /\ placed \subseteq Made /\ todo \subseteq Made /\ spent \subseteq Lots /\ lots \subseteq Lots
      /\ \A n \in Made : book'[n].lot = book[n].lot
  BY Stay DEF Referred, TypeOK
<1>b. pos \in [Lots -> Nat] /\ ptp \in [Lots -> 0 .. MaxOrders]
  BY DEF TypeOK
<1> DEFINE Polls == pc \in PollPCs /\ back = "tps"
           Tps == pc \in {"tps"} \cup TpsPCs
           S1 == ~InSell => placed = {}
           S2 == InSell => \A n \in placed : book[n].lot \in spent
           S3 == Polls => \A n \in todo : book[n].lot \in spent
           S4 == Polls /\ pc # "poll" => lot \in spent
           S5 == InSell \/ Polls => \A l \in Lots \ spent : SameAsPlan(l)
           S6 == Tps => \A l \in lots \ spent : SameAsPlan(l)
<1>c. S1 /\ S2 /\ S3 /\ S4 /\ S5 /\ S6
  BY DEF Snapshot
<1>d. SUFFICES S1' /\ S2' /\ S3' /\ S4' /\ S5' /\ S6'
  BY DEF Snapshot
<1>e. InSell <=> pc \in {"sell"} \cup SellPCs \/ (pc \in ManPCs /\ back = "sell")
  BY DEF InSell
<1>e1. InSell' <=> pc' \in {"sell"} \cup SellPCs \/ (pc' \in ManPCs /\ back' = "sell")
  BY DEF InSell
<1> DEFINE Keep == UNCHANGED <<pos, ptp, plan, spent>>
<1>f. ASSUME Keep PROVE \A l : SameAsPlan(l)' <=> SameAsPlan(l)
  BY <1>f DEF SameAsPlan
\* nothing of it in sight
<1>g. ASSUME ~InSell, ~InSell', ~Polls', ~Tps', placed' = placed \/ placed' = {}
      PROVE  S1' /\ S2' /\ S3' /\ S4' /\ S5' /\ S6'
  BY <1>c, <1>g
\* within a phase
<1>h. ASSUME Keep, placed' = placed, todo' \subseteq todo, lots' \subseteq lots, (InSell' <=> InSell), (Polls' <=> Polls), (Tps' <=> Tps),
             Polls /\ pc' # "poll" => (lot' = lot /\ pc # "poll") \/ lot' \in spent
      PROVE  S1' /\ S2' /\ S3' /\ S4' /\ S5' /\ S6'
  <2>1. S1' /\ S2' /\ S3'
    BY <1>a, <1>c, <1>h
  <2>2. S4'
    BY <1>c, <1>h
  <2>3. S5' /\ S6'
    BY <1>c, <1>f, <1>h
  <2> QED BY <2>1, <2>2, <2>3
\* the lot in hand changes
<1>i. ASSUME UNCHANGED <<plan, spent>>, placed' = placed, todo' \subseteq todo, lots' \subseteq lots, (InSell' <=> InSell),
             (Polls' <=> Polls), (Tps' <=> Tps), Polls => (lot' = lot /\ pc # "poll") \/ pc' = "poll",
             \A l \in Lots \ {lot} : pos'[l] = pos[l] /\ ptp'[l] = ptp[l],
             lot \in spent \/ (Tps /\ lot \notin lots /\ ~InSell /\ ~Polls)
      PROVE  S1' /\ S2' /\ S3' /\ S4' /\ S5' /\ S6'
  <2>1. S1' /\ S2' /\ S3'
    BY <1>a, <1>c, <1>i
  <2>2. S4'
    BY <1>c, <1>i
  <2>3. \A l \in Lots \ {lot} : SameAsPlan(l)' <=> SameAsPlan(l)
    BY <1>i DEF SameAsPlan
  <2>4. S5'
    BY <1>c, <1>i, <2>3
  <2>5. S6'
    BY <1>a, <1>c, <1>i, <2>3
  <2> QED BY <2>1, <2>2, <2>4, <2>5
<1>j. /\ Polls <=> pc \in PollPCs /\ back = "tps"
      /\ Polls' <=> pc' \in PollPCs /\ back' = "tps"
      /\ Tps <=> pc \in {"tps"} \cup TpsPCs
      /\ Tps' <=> pc' \in {"tps"} \cup TpsPCs
  OBVIOUS
<1> HIDE DEF S1, S2, S3, S4, S5, S6, Polls, Tps, Keep

<1>1. CASE Following
  <2>1. CASE Begin
    <3>1. ~InSell /\ ~InSell' /\ ~Polls' /\ ~Tps' /\ (placed' = placed \/ placed' = {})
      BY <2>1, <1>e, <1>e1, <1>j DEF
             Begin, Backs, agenda, tick, cockpit
    <3> QED BY <1>g, <3>1
  <2>2. CASE Load
    <3>1. ~InSell /\ ~InSell' /\ ~Polls' /\ ~Tps' /\ (placed' = placed \/ placed' = {})
      BY <2>2, <1>e, <1>e1, <1>j DEF
             Load, Backs, agenda, tick, cockpit
    <3> QED BY <1>g, <3>1
  <2>3. CASE LoadFails
    <3>1. ~InSell /\ ~InSell' /\ ~Polls' /\ ~Tps' /\ (placed' = placed \/ placed' = {})
      BY <2>3, <1>e, <1>e1, <1>j DEF
             LoadFails, Backs, agenda, tick, cockpit
    <3> QED BY <1>g, <3>1
  <2>4. CASE Loaded
    <3>1. ~InSell /\ ~InSell' /\ ~Polls' /\ ~Tps' /\ (placed' = placed \/ placed' = {})
      BY <2>4, <1>e, <1>e1, <1>j DEF
             Loaded, Backs, agenda, tick, cockpit
    <3> QED BY <1>g, <3>1
  <2>5. ASSUME NEW n \in Orders, Resolve(n)
        PROVE  S1' /\ S2' /\ S3' /\ S4' /\ S5' /\ S6'
    <3>1. ~InSell /\ ~InSell' /\ ~Polls' /\ ~Tps' /\ (placed' = placed \/ placed' = {})
      BY <2>5, <1>e, <1>e1, <1>j DEF
             Resolve, Backs, agenda, tick, cockpit
    <3> QED BY <1>g, <3>1
  <2> QED BY <1>1, <2>1, <2>2, <2>3, <2>4, <2>5 DEF Following
<1>2. CASE Polling
  <2>1. ASSUME NEW n \in Orders, PollWaits(n)
        PROVE  S1' /\ S2' /\ S3' /\ S4' /\ S5' /\ S6'
    <3>1. /\ Keep /\ placed' = placed /\ todo' \subseteq todo /\ lots' \subseteq lots
          /\ (InSell' <=> InSell) /\ (Polls' <=> Polls) /\ (Tps' <=> Tps)
      BY <2>1, <1>e, <1>e1, <1>j DEF Keep,
             PollWaits, Backs, engine, hand, agenda, tick, cockpit, memory
    <3>2. Polls /\ pc' # "poll" => lot' = lot /\ pc # "poll"
      BY <2>1, <1>j DEF PollWaits, hand,
             cockpit
    <3> QED BY <1>h, <3>1, <3>2
  <2>2. ASSUME NEW n \in Orders, PollEnds(n)
        PROVE  S1' /\ S2' /\ S3' /\ S4' /\ S5' /\ S6'
    <3>1. /\ Keep /\ placed' = placed /\ todo' \subseteq todo /\ lots' \subseteq lots
          /\ (InSell' <=> InSell) /\ (Polls' <=> Polls) /\ (Tps' <=> Tps)
          /\ lot' = book[n].lot /\ n \in todo
      BY <2>2, <1>e, <1>e1, <1>j DEF Keep, PollEnds, Take, Backs, engine, agenda, tick, memory
    <3>2. Polls => lot' \in spent
      BY <1>c, <3>1 DEF S3
    <3> QED BY <1>h, <3>1, <3>2
  <2>3. ASSUME NEW n \in Orders, PollCloses(n)
        PROVE  S1' /\ S2' /\ S3' /\ S4' /\ S5' /\ S6'
    <3>1. /\ Keep /\ placed' = placed /\ todo' \subseteq todo /\ lots' \subseteq lots
          /\ (InSell' <=> InSell) /\ (Polls' <=> Polls) /\ (Tps' <=> Tps)
          /\ lot' = book[n].lot /\ n \in todo
      BY <2>3, <1>e, <1>e1, <1>j DEF Keep, PollCloses, Take, Backs, engine, agenda, tick, memory
    <3>2. Polls => lot' \in spent
      BY <1>c, <3>1 DEF S3
    <3> QED BY <1>h, <3>1, <3>2
  <2>4. CASE Cancel
    <3>1. /\ Keep /\ placed' = placed /\ todo' \subseteq todo /\ lots' \subseteq lots
          /\ (InSell' <=> InSell) /\ (Polls' <=> Polls) /\ (Tps' <=> Tps)
      BY <2>4, <1>e, <1>e1, <1>j DEF Keep,
             Cancel, Backs, engine, hand, agenda, tick, cockpit, memory
    <3>2. Polls /\ pc' # "poll" => lot' = lot /\ pc # "poll"
      BY <2>4, <1>j DEF Cancel, hand, cockpit
    <3> QED BY <1>h, <3>1, <3>2
  <2>5. CASE CancelFails
    <3>1. /\ Keep /\ placed' = placed /\ todo' \subseteq todo /\ lots' \subseteq lots
          /\ (InSell' <=> InSell) /\ (Polls' <=> Polls) /\ (Tps' <=> Tps)
      BY <2>5, <1>e, <1>e1, <1>j DEF Keep,
             CancelFails, Return, Backs, engine, hand, agenda, tick, cockpit, memory
    <3>2. Polls /\ pc' # "poll" => lot' = lot /\ pc # "poll"
      BY <2>5, <1>j DEF CancelFails, Return,
             hand, cockpit
    <3> QED BY <1>h, <3>1, <3>2
  <2>6. CASE PollsDone
    <3>1. pc' = back /\ back' = back /\ UNCHANGED <<plan, spent, pos, ptp>> /\ placed' = placed
          /\ ~InSell /\ ~InSell' /\ ~Polls' /\ back \in {"idle", "tpcheck", "tps"} /\ pc \in PollPCs
      BY <2>6, <1>e, <1>e1, <1>j DEF PollsDone, Phase, Backs, tick, engine
    <3>2. CASE back = "tps"
      <4>1. \A l \in Lots \ spent : SameAsPlan(l)'
        BY <1>c, <1>f, <1>j, <3>1, <3>2 DEF S5, Keep
      <4>2. lots' \subseteq Lots
        BY <2>6, <3>2 DEF PollsDone, Phase
      <4>3. S1' /\ S2' /\ S3' /\ S4' /\ S5'
        BY <1>c, <1>e1, <3>1 DEF S1, S2, S3, S4, S5
      <4> QED BY <3>1, <4>1, <4>2, <4>3 DEF S6
    <3>3. CASE back # "tps"
      <4>1. ~Tps'
        BY <1>j, <3>1, <3>3
      <4> QED BY <1>g, <3>1, <4>1
    <3> QED BY <3>2, <3>3
  <2>7. CASE FinNothing
    <3>1. /\ Keep /\ placed' = placed /\ todo' \subseteq todo /\ lots' \subseteq lots
          /\ (InSell' <=> InSell) /\ (Polls' <=> Polls) /\ (Tps' <=> Tps)
      BY <2>7, <1>e, <1>e1, <1>j DEF Keep,
             FinNothing, Backs, engine, hand, agenda, tick, cockpit, memory
    <3>2. Polls /\ pc' # "poll" => lot' = lot /\ pc # "poll"
      BY <2>7, <1>j DEF FinNothing, hand,
             cockpit
    <3> QED BY <1>h, <3>1, <3>2
  <2>8. CASE FinRecord
    <3>1. /\ Keep /\ placed' = placed /\ todo' \subseteq todo /\ lots' \subseteq lots
          /\ (InSell' <=> InSell) /\ (Polls' <=> Polls) /\ (Tps' <=> Tps)
      BY <2>8, <1>e, <1>e1, <1>j DEF Keep,
             FinRecord, Backs, engine, hand, agenda, tick, cockpit, memory
    <3>2. Polls /\ pc' # "poll" => lot' = lot /\ pc # "poll"
      BY <2>8, <1>j DEF FinRecord, hand,
             cockpit
    <3> QED BY <1>h, <3>1, <3>2
  <2>9. CASE FinReduce
    <3>1. /\ UNCHANGED <<plan, spent>> /\ placed' = placed /\ todo' = todo /\ lots' = lots
          /\ (InSell' <=> InSell) /\ (Polls' <=> Polls) /\ (Tps' <=> Tps) /\ (Polls => (lot' = lot /\ pc # "poll") \/ pc' = "poll")
      BY <2>9, <1>e, <1>e1, <1>j DEF FinReduce, Return, Backs, hand, agenda, tick, memory
    <3>2. \A l \in Lots \ {lot} : pos'[l] = pos[l] /\ ptp'[l] = ptp[l]
      BY <2>9, <1>b DEF FinReduce, CloseLot, engine
    <3>3. CASE Polls
      <4>1. lot \in spent
        BY <2>9, <1>c, <3>3 DEF S4, FinReduce
      <4> QED BY <1>i, <3>1, <3>2, <4>1
    <3>4. CASE ~Polls
      <4>1. ~InSell /\ ~InSell' /\ ~Polls' /\ ~Tps'
        BY <2>9, <1>e, <1>e1, <1>j, <3>1, <3>4 DEF FinReduce, Backs
      <4> QED BY <1>g, <3>1, <4>1
    <3> QED BY <3>3, <3>4
  <2>10. CASE FinClose
    <3>1. /\ UNCHANGED <<plan, spent>> /\ placed' = placed /\ todo' = todo /\ lots' = lots
          /\ (InSell' <=> InSell) /\ (Polls' <=> Polls) /\ (Tps' <=> Tps) /\ (Polls => (lot' = lot /\ pc # "poll") \/ pc' = "poll")
      BY <2>10, <1>e, <1>e1, <1>j DEF FinClose, Return, Backs, hand, agenda, tick, memory
    <3>2. \A l \in Lots \ {lot} : pos'[l] = pos[l] /\ ptp'[l] = ptp[l]
      BY <2>10, <1>b DEF FinClose, CloseLot, engine
    <3>3. CASE Polls
      <4>1. lot \in spent
        BY <2>10, <1>c, <3>3 DEF S4, FinClose
      <4> QED BY <1>i, <3>1, <3>2, <4>1
    <3>4. CASE ~Polls
      <4>1. ~InSell /\ ~InSell' /\ ~Polls' /\ ~Tps'
        BY <2>10, <1>e, <1>e1, <1>j, <3>1, <3>4 DEF FinClose, Backs
      <4> QED BY <1>g, <3>1, <4>1
    <3> QED BY <3>3, <3>4
  <2>11. CASE FinDone
    <3>1. /\ Keep /\ placed' = placed /\ todo' \subseteq todo /\ lots' \subseteq lots
          /\ (InSell' <=> InSell) /\ (Polls' <=> Polls) /\ (Tps' <=> Tps)
      BY <2>11, <1>e, <1>e1, <1>j DEF Keep,
             FinDone, Return, Backs, engine, hand, agenda, tick, cockpit, memory
    <3>2. Polls /\ pc' # "poll" => lot' = lot /\ pc # "poll"
      BY <2>11, <1>j DEF FinDone, Return,
             hand, cockpit
    <3> QED BY <1>h, <3>1, <3>2
  <2> QED BY <1>2, <2>1, <2>2, <2>3, <2>4, <2>5, <2>6, <2>7, <2>8, <2>9, <2>10, <2>11 DEF Polling
<1>3. CASE Profits
  <2>1. CASE TpRecord
    <3>1. ~InSell /\ ~InSell' /\ ~Polls' /\ ~Tps' /\ (placed' = placed \/ placed' = {})
      BY <2>1, <1>e, <1>e1, <1>j DEF
             TpRecord, Backs, agenda, tick, cockpit
    <3> QED BY <1>g, <3>1
  <2>2. CASE TpClose
    <3>1. ~InSell /\ ~InSell' /\ ~Polls' /\ ~Tps' /\ (placed' = placed \/ placed' = {})
      BY <2>2, <1>e, <1>e1, <1>j DEF
             TpClose, Return, Backs, agenda, tick, cockpit
    <3> QED BY <1>g, <3>1
  <2>3. CASE TpChecked
    <3>1. ~InSell /\ ~InSell' /\ ~Polls' /\ ~Tps' /\ (placed' = placed \/ placed' = {})
      BY <2>3, <1>e, <1>e1, <1>j DEF
             TpChecked, Phase, Backs, agenda, tick, cockpit
    <3> QED BY <1>g, <3>1
  <2>4. CASE DayRecord
    <3>1. ~InSell /\ ~InSell' /\ ~Polls' /\ ~Tps' /\ (placed' = placed \/ placed' = {})
      BY <2>4, <1>e, <1>e1, <1>j DEF
             DayRecord, Backs, agenda, tick, cockpit
    <3> QED BY <1>g, <3>1
  <2>5. CASE DayReduce
    <3>1. ~InSell /\ ~InSell' /\ ~Polls' /\ ~Tps' /\ (placed' = placed \/ placed' = {})
      BY <2>5, <1>e, <1>e1, <1>j DEF
             DayReduce, Return, Backs, agenda, tick, cockpit
    <3> QED BY <1>g, <3>1
  <2>6. CASE DayClear
    <3>1. ~InSell /\ ~InSell' /\ ~Polls' /\ ~Tps' /\ (placed' = placed \/ placed' = {})
      BY <2>6, <1>e, <1>e1, <1>j DEF
             DayClear, Return, Backs, agenda, tick, cockpit
    <3> QED BY <1>g, <3>1
  <2>7. CASE Expired
    <3>1. ~InSell /\ ~InSell' /\ ~Polls' /\ ~Tps' /\ (placed' = placed \/ placed' = {})
      BY <2>7, <1>e, <1>e1, <1>j DEF
             Expired, Backs, agenda, tick, cockpit
    <3> QED BY <1>g, <3>1
  <2>8. ASSUME NEW l \in Lots, TpCheck(l)
        PROVE  S1' /\ S2' /\ S3' /\ S4' /\ S5' /\ S6'
    <3>1. ~InSell /\ ~InSell' /\ ~Polls' /\ ~Tps' /\ (placed' = placed \/ placed' = {})
      BY <2>8, <1>e, <1>e1, <1>j DEF
             TpCheck, Take, Backs, agenda, tick, cockpit
    <3> QED BY <1>g, <3>1
  <2>9. ASSUME NEW l \in Lots, Expire(l)
        PROVE  S1' /\ S2' /\ S3' /\ S4' /\ S5' /\ S6'
    <3>1. ~InSell /\ ~InSell' /\ ~Polls' /\ ~Tps' /\ (placed' = placed \/ placed' = {})
      BY <2>9, <1>e, <1>e1, <1>j DEF
             Expire, Take, Backs, agenda, tick, cockpit
    <3> QED BY <1>g, <3>1
  <2> QED BY <1>3, <2>1, <2>2, <2>3, <2>4, <2>5, <2>6, <2>7, <2>8, <2>9 DEF Profits
<1>4. CASE Syncing
  <2>1. CASE SyncFails
    <3>1. ~InSell /\ ~InSell' /\ ~Polls' /\ ~Tps' /\ (placed' = placed \/ placed' = {})
      BY <2>1, <1>e, <1>e1, <1>j DEF
             SyncFails, Backs, agenda, tick, cockpit
    <3> QED BY <1>g, <3>1
  <2>2. CASE SyncVanished
    <3>1. ~InSell /\ ~InSell' /\ ~Polls' /\ ~Tps' /\ (placed' = placed \/ placed' = {})
      BY <2>2, <1>e, <1>e1, <1>j DEF
             SyncVanished, Phase, Backs, agenda, tick, cockpit
    <3> QED BY <1>g, <3>1
  <2>3. CASE SyncLots
    <3>1. ~InSell /\ ~InSell' /\ ~Polls' /\ ~Tps' /\ (placed' = placed \/ placed' = {})
      BY <2>3, <1>e, <1>e1, <1>j DEF
             SyncLots, Backs, agenda, tick, cockpit
    <3> QED BY <1>g, <3>1
  <2>4. CASE Vanished
    <3>1. ~InSell /\ ~InSell' /\ ~Polls' /\ ~Tps' /\ (placed' = placed \/ placed' = {})
      BY <2>4, <1>e, <1>e1, <1>j DEF
             Vanished, Backs, agenda, tick, cockpit
    <3> QED BY <1>g, <3>1
  <2>5. CASE ShrRecord
    <3>1. ~InSell /\ ~InSell' /\ ~Polls' /\ ~Tps' /\ (placed' = placed \/ placed' = {})
      BY <2>5, <1>e, <1>e1, <1>j DEF
             ShrRecord, Backs, agenda, tick, cockpit
    <3> QED BY <1>g, <3>1
  <2>6. CASE ShrReduce
    <3>1. ~InSell /\ ~InSell' /\ ~Polls' /\ ~Tps' /\ (placed' = placed \/ placed' = {})
      BY <2>6, <1>e, <1>e1, <1>j DEF
             ShrReduce, Return, Backs, agenda, tick, cockpit
    <3> QED BY <1>g, <3>1
  <2>7. CASE ManRecord
    <3>1. /\ Keep /\ placed' = placed /\ todo' = todo /\ lots' = lots
          /\ (InSell' <=> InSell) /\ (Polls' <=> Polls) /\ (Tps' <=> Tps) /\ ~Polls
      BY <2>7, <1>e, <1>e1, <1>j DEF Keep, ManRecord, engine, agenda, tick, memory
    <3> QED BY <1>h, <3>1
  <2>8. CASE ManClose
    <3>1. UNCHANGED <<plan, spent>> /\ placed' = placed /\ todo' = todo /\ lots' = lots /\ back' = back /\ pc' = back
      BY <2>8 DEF ManClose, Return, agenda, tick, memory
    <3>2. \A l \in Lots \ {lot} : pos'[l] = pos[l] /\ ptp'[l] = ptp[l]
      BY <2>8, <1>b DEF ManClose, CloseLot, engine
    <3>3. CASE back = "sell"
      <4>1. lot \in spent
        BY <2>8, <3>3 DEF ManClose, Handy, HandMan
      <4>2. InSell /\ InSell' /\ ~Polls /\ ~Polls' /\ ~Tps /\ ~Tps'
        BY <2>8, <1>e, <1>e1, <1>j, <3>1, <3>3 DEF ManClose
      <4> QED BY <1>i, <3>1, <3>2, <4>1, <4>2
    <3>4. CASE back # "sell"
      <4>1. ~InSell /\ ~InSell' /\ ~Polls' /\ ~Tps'
        BY <2>8, <1>e, <1>e1, <1>j, <3>1, <3>4 DEF ManClose, Backs
      <4> QED BY <1>g, <3>1, <4>1
    <3> QED BY <3>3, <3>4
  <2>9. ASSUME NEW l \in Lots, SyncShrinks(l)
        PROVE  S1' /\ S2' /\ S3' /\ S4' /\ S5' /\ S6'
    <3>1. ~InSell /\ ~InSell' /\ ~Polls' /\ ~Tps' /\ (placed' = placed \/ placed' = {})
      BY <2>9, <1>e, <1>e1, <1>j DEF
             SyncShrinks, Take, Backs, agenda, tick, cockpit
    <3> QED BY <1>g, <3>1
  <2>10. ASSUME NEW l \in Lots, VanishTp(l)
        PROVE  S1' /\ S2' /\ S3' /\ S4' /\ S5' /\ S6'
    <3>1. ~InSell /\ ~InSell' /\ ~Polls' /\ ~Tps' /\ (placed' = placed \/ placed' = {})
      BY <2>10, <1>e, <1>e1, <1>j DEF
             VanishTp, Take, Backs, agenda, tick, cockpit
    <3> QED BY <1>g, <3>1
  <2>11. ASSUME NEW l \in Lots, VanishManual(l)
        PROVE  S1' /\ S2' /\ S3' /\ S4' /\ S5' /\ S6'
    <3>1. ~InSell /\ ~InSell' /\ ~Polls' /\ ~Tps' /\ (placed' = placed \/ placed' = {})
      BY <2>11, <1>e, <1>e1, <1>j DEF
             VanishManual, Take, Backs, agenda, tick, cockpit
    <3> QED BY <1>g, <3>1
  <2> QED BY <1>4, <2>1, <2>2, <2>3, <2>4, <2>5, <2>6, <2>7, <2>8, <2>9, <2>10, <2>11 DEF Syncing
<1>5. CASE Selling
  <2>1. CASE MakePlan
    <3>1. /\ plan' = [qty |-> pos, tp |-> ptp] /\ UNCHANGED <<pos, ptp>> /\ placed' = placed
          /\ ~InSell /\ ~Polls' /\ ~Tps'
      BY <2>1, <1>e, <1>j DEF MakePlan, engine
    <3>2. \A l \in Lots : SameAsPlan(l)'
      BY <3>1 DEF SameAsPlan
    <3>3. placed' = {}
      BY <1>c, <3>1 DEF S1
    <3> QED BY <3>1, <3>2, <3>3 DEF S1, S2, S3, S4, S5, S6
  <2>2. CASE SellCancel
    <3>1. /\ Keep /\ placed' = placed /\ todo' \subseteq todo /\ lots' \subseteq lots
          /\ (InSell' <=> InSell) /\ (Polls' <=> Polls) /\ (Tps' <=> Tps)
      BY <2>2, <1>e, <1>e1, <1>j DEF Keep,
             SellCancel, Return, Backs, engine, hand, agenda, tick, cockpit, memory
    <3>2. Polls /\ pc' # "poll" => lot' = lot /\ pc # "poll"
      BY <2>2, <1>j DEF SellCancel, Return,
             hand, cockpit
    <3> QED BY <1>h, <3>1, <3>2
  <2>3. CASE SellCancelLost
    <3>1. /\ Keep /\ placed' = placed /\ todo' \subseteq todo /\ lots' \subseteq lots
          /\ (InSell' <=> InSell) /\ (Polls' <=> Polls) /\ (Tps' <=> Tps)
      BY <2>3, <1>e, <1>e1, <1>j DEF Keep,
             SellCancelLost, Return, Backs, engine, hand, agenda, tick, cockpit, memory
    <3>2. Polls /\ pc' # "poll" => lot' = lot /\ pc # "poll"
      BY <2>3, <1>j DEF SellCancelLost,
             Return, hand, cockpit
    <3> QED BY <1>h, <3>1, <3>2
  <2>4. CASE ClearTp
    <3>1. /\ UNCHANGED <<plan, spent>> /\ placed' = placed /\ todo' = todo /\ lots' = lots
          /\ InSell /\ InSell' /\ ~Polls /\ ~Polls' /\ ~Tps /\ ~Tps' /\ lot \in spent
      BY <2>4, <1>e, <1>e1, <1>j DEF ClearTp, Handy, HandSell, agenda, tick
    <3>2. \A l \in Lots \ {lot} : pos'[l] = pos[l] /\ ptp'[l] = ptp[l]
      BY <2>4, <1>b DEF ClearTp
    <3> QED BY <1>i, <3>1, <3>2
  <2>5. CASE Journal
    <3>1. /\ Keep /\ placed' = placed /\ todo' \subseteq todo /\ lots' \subseteq lots
          /\ (InSell' <=> InSell) /\ (Polls' <=> Polls) /\ (Tps' <=> Tps)
      BY <2>5, <1>e, <1>e1, <1>j DEF Keep,
             Journal, Backs, engine, hand, agenda, tick, cockpit, memory
    <3>2. Polls /\ pc' # "poll" => lot' = lot /\ pc # "poll"
      BY <2>5, <1>j DEF Journal, hand,
             cockpit
    <3> QED BY <1>h, <3>1, <3>2
  <2>6. CASE SubmitAccepted
    <3>1. /\ Keep /\ placed' = placed /\ todo' \subseteq todo /\ lots' \subseteq lots
          /\ (InSell' <=> InSell) /\ (Polls' <=> Polls) /\ (Tps' <=> Tps)
      BY <2>6, <1>e, <1>e1, <1>j DEF Keep,
             SubmitAccepted, Backs, engine, hand, agenda, tick, cockpit, memory
    <3>2. Polls /\ pc' # "poll" => lot' = lot /\ pc # "poll"
      BY <2>6, <1>j DEF SubmitAccepted, hand,
             cockpit
    <3> QED BY <1>h, <3>1, <3>2
  <2>7. CASE SubmitRefused
    <3>1. /\ Keep /\ placed' = placed /\ todo' \subseteq todo /\ lots' \subseteq lots
          /\ (InSell' <=> InSell) /\ (Polls' <=> Polls) /\ (Tps' <=> Tps)
      BY <2>7, <1>e, <1>e1, <1>j DEF Keep,
             SubmitRefused, Backs, engine, hand, agenda, tick, cockpit, memory
    <3>2. Polls /\ pc' # "poll" => lot' = lot /\ pc # "poll"
      BY <2>7, <1>j DEF SubmitRefused, hand,
             cockpit
    <3> QED BY <1>h, <3>1, <3>2
  <2>8. CASE SubmitMaybe
    <3>1. /\ Keep /\ placed' = placed /\ todo' \subseteq todo /\ lots' \subseteq lots
          /\ (InSell' <=> InSell) /\ (Polls' <=> Polls) /\ (Tps' <=> Tps)
      BY <2>8, <1>e, <1>e1, <1>j DEF Keep,
             SubmitMaybe, Backs, engine, hand, agenda, tick, cockpit, memory
    <3>2. Polls /\ pc' # "poll" => lot' = lot /\ pc # "poll"
      BY <2>8, <1>j DEF SubmitMaybe, hand,
             cockpit
    <3> QED BY <1>h, <3>1, <3>2
  <2>9. CASE Track
    <3>0. /\ Keep /\ placed' = placed \cup {cur} /\ book' = book /\ UNCHANGED spent /\ pc = "track" /\ pc' = "sell"
      BY <2>9 DEF Track, Return, Keep, engine
    <3>4. lot \in spent /\ cur \in Of(lot)
      BY <3>0 DEF Handy, HandSell, HandNew, NewPCs
    <3>1. /\ Keep /\ placed' = placed \cup {cur} /\ InSell /\ InSell' /\ ~Polls' /\ ~Tps' /\ book' = book
          /\ lot \in spent /\ cur \in Of(lot) /\ UNCHANGED spent
      BY <1>e, <1>e1, <1>j, <3>0, <3>4
    <3>2. book[cur].lot \in spent
      BY <3>1 DEF Of
    <3>3. S2' /\ S5'
      BY <1>c, <1>f, <3>1, <3>2 DEF S2, S5, Keep
    <3> QED BY <3>1, <3>3 DEF S1, S3, S4, S6
  <2>10. CASE Unjournal
    <3>1. /\ Keep /\ placed' = placed /\ todo' \subseteq todo /\ lots' \subseteq lots
          /\ (InSell' <=> InSell) /\ (Polls' <=> Polls) /\ (Tps' <=> Tps)
      BY <2>10, <1>e, <1>e1, <1>j DEF Keep,
             Unjournal, Return, Backs, engine, hand, agenda, tick, cockpit, memory
    <3>2. Polls /\ pc' # "poll" => lot' = lot /\ pc # "poll"
      BY <2>10, <1>j DEF Unjournal, Return,
             hand, cockpit
    <3> QED BY <1>h, <3>1, <3>2
  <2>11. CASE SellFailed
    <3>1. /\ Keep /\ placed' = placed /\ todo' \subseteq todo /\ lots' \subseteq lots
          /\ (InSell' <=> InSell) /\ (Polls' <=> Polls) /\ (Tps' <=> Tps)
      BY <2>11, <1>e, <1>e1, <1>j DEF Keep,
             SellFailed, Return, Backs, engine, hand, agenda, tick, cockpit, memory
    <3>2. Polls /\ pc' # "poll" => lot' = lot /\ pc # "poll"
      BY <2>11, <1>j DEF SellFailed, Return,
             hand, cockpit
    <3> QED BY <1>h, <3>1, <3>2
  <2>12. CASE SellsDone
    <3>1. /\ Keep /\ todo' = placed /\ placed' = {} /\ InSell /\ ~InSell' /\ ~Tps' /\ pc' = "poll" /\ UNCHANGED <<book, spent>>
      BY <2>12, <1>e, <1>e1, <1>j DEF SellsDone, Keep, engine
    <3>2. S3' /\ S5'
      BY <1>c, <1>f, <3>1 DEF S2, S3, S5, Keep
    <3> QED BY <3>1, <3>2 DEF S1, S2, S4, S6
  <2>13. ASSUME NEW l \in Lots, NEW q \in 1 .. EntryQty[l], Sell(l, q)
        PROVE  S1' /\ S2' /\ S3' /\ S4' /\ S5' /\ S6'
    <3>1. /\ UNCHANGED <<plan, pos, ptp, placed, book>> /\ spent' = spent \cup {l} /\ InSell /\ InSell' /\ ~Polls' /\ ~Tps'
      BY <2>13, <1>e, <1>e1, <1>j DEF Sell, Take, Backs, engine
    <3>2. \A k : SameAsPlan(k)' <=> SameAsPlan(k)
      BY <3>1 DEF SameAsPlan
    <3>3. S2' /\ S5'
      BY <1>c, <3>1, <3>2 DEF S2, S5
    <3> QED BY <3>1, <3>3 DEF S1, S3, S4, S6
  <2> QED BY <1>5, <2>1, <2>2, <2>3, <2>4, <2>5, <2>6, <2>7, <2>8, <2>9, <2>10, <2>11, <2>12,
             <2>13 DEF Selling
<1>6. CASE Delegating
  <2>1. CASE TpCancel
    <3>1. /\ Keep /\ placed' = placed /\ todo' \subseteq todo /\ lots' \subseteq lots
          /\ (InSell' <=> InSell) /\ (Polls' <=> Polls) /\ (Tps' <=> Tps)
      BY <2>1, <1>e, <1>e1, <1>j DEF Keep,
             TpCancel, Return, Backs, engine, hand, agenda, tick, cockpit, memory
    <3>2. Polls /\ pc' # "poll" => lot' = lot /\ pc # "poll"
      BY <2>1, <1>j DEF TpCancel, Return,
             hand, cockpit
    <3> QED BY <1>h, <3>1, <3>2
  <2>2. CASE TpCancelLost
    <3>1. /\ Keep /\ placed' = placed /\ todo' \subseteq todo /\ lots' \subseteq lots
          /\ (InSell' <=> InSell) /\ (Polls' <=> Polls) /\ (Tps' <=> Tps)
      BY <2>2, <1>e, <1>e1, <1>j DEF Keep,
             TpCancelLost, Return, Backs, engine, hand, agenda, tick, cockpit, memory
    <3>2. Polls /\ pc' # "poll" => lot' = lot /\ pc # "poll"
      BY <2>2, <1>j DEF TpCancelLost, Return,
             hand, cockpit
    <3> QED BY <1>h, <3>1, <3>2
  <2>3. CASE TpAccepted
    <3>1. /\ Keep /\ placed' = placed /\ todo' \subseteq todo /\ lots' \subseteq lots
          /\ (InSell' <=> InSell) /\ (Polls' <=> Polls) /\ (Tps' <=> Tps)
      BY <2>3, <1>e, <1>e1, <1>j DEF Keep,
             TpAccepted, Backs, engine, hand, agenda, tick, cockpit, memory
    <3>2. Polls /\ pc' # "poll" => lot' = lot /\ pc # "poll"
      BY <2>3, <1>j DEF TpAccepted, hand,
             cockpit
    <3> QED BY <1>h, <3>1, <3>2
  <2>4. CASE TpRefused
    <3>1. /\ Keep /\ placed' = placed /\ todo' \subseteq todo /\ lots' \subseteq lots
          /\ (InSell' <=> InSell) /\ (Polls' <=> Polls) /\ (Tps' <=> Tps)
      BY <2>4, <1>e, <1>e1, <1>j DEF Keep,
             TpRefused, Return, Backs, engine, hand, agenda, tick, cockpit, memory
    <3>2. Polls /\ pc' # "poll" => lot' = lot /\ pc # "poll"
      BY <2>4, <1>j DEF TpRefused, Return,
             hand, cockpit
    <3> QED BY <1>h, <3>1, <3>2
  <2>5. CASE TpMaybe
    <3>1. /\ Keep /\ placed' = placed /\ todo' \subseteq todo /\ lots' \subseteq lots
          /\ (InSell' <=> InSell) /\ (Polls' <=> Polls) /\ (Tps' <=> Tps)
      BY <2>5, <1>e, <1>e1, <1>j DEF Keep,
             TpMaybe, Return, Backs, engine, hand, agenda, tick, cockpit, memory
    <3>2. Polls /\ pc' # "poll" => lot' = lot /\ pc # "poll"
      BY <2>5, <1>j DEF TpMaybe, Return,
             hand, cockpit
    <3> QED BY <1>h, <3>1, <3>2
  <2>6. CASE TpSave
    <3>1. /\ UNCHANGED <<plan, spent>> /\ placed' = placed /\ todo' = todo /\ lots' = lots
          /\ ~InSell /\ ~InSell' /\ ~Polls /\ ~Polls' /\ Tps /\ Tps' /\ lot \notin lots
      BY <2>6, <1>e, <1>e1, <1>j DEF TpSave, Return, Handy, HandTps, agenda, tick
    <3>2. \A l \in Lots \ {lot} : pos'[l] = pos[l] /\ ptp'[l] = ptp[l]
      BY <2>6, <1>b DEF TpSave, engine
    <3> QED BY <1>i, <3>1, <3>2
  <2>7. CASE TickDone
    <3>1. ~InSell /\ ~InSell' /\ ~Polls' /\ ~Tps' /\ (placed' = placed \/ placed' = {})
      BY <2>7, <1>e, <1>e1, <1>j DEF
             TickDone, Backs, agenda, tick, cockpit
    <3> QED BY <1>g, <3>1
  <2>8. ASSUME NEW l \in Lots, PlanTp(l)
        PROVE  S1' /\ S2' /\ S3' /\ S4' /\ S5' /\ S6'
    <3>1. /\ Keep /\ placed' = placed /\ todo' \subseteq todo /\ lots' \subseteq lots
          /\ (InSell' <=> InSell) /\ (Polls' <=> Polls) /\ (Tps' <=> Tps)
      BY <2>8, <1>e, <1>e1, <1>j DEF Keep,
             PlanTp, Take, Backs, engine, hand, agenda, tick, cockpit, memory
    <3>2. Polls /\ pc' # "poll" => lot' = lot /\ pc # "poll"
      BY <2>8, <1>j DEF PlanTp, Take, hand,
             cockpit
    <3> QED BY <1>h, <3>1, <3>2
  <2>9. ASSUME NEW l \in Lots, ArmStop(l) \/ SetTimeExit(l)
        PROVE  S1' /\ S2' /\ S3' /\ S4' /\ S5' /\ S6'
    <3>0. Rewrites(l)
      BY <2>9, UpdateIs
    <3>1. /\ Keep /\ placed' = placed /\ todo' \subseteq todo /\ lots' \subseteq lots
          /\ (InSell' <=> InSell) /\ (Polls' <=> Polls) /\ (Tps' <=> Tps)
      BY <3>0, <1>e, <1>e1, <1>j DEF Keep, Rewrites, engine, agenda, tick
    <3>2. pc' = pc /\ lot' = lot
      BY <3>0 DEF Rewrites, hand
    <3> QED BY <1>h, <1>j, <3>1, <3>2
  <2> QED BY <1>6, <2>1, <2>2, <2>3, <2>4, <2>5, <2>6, <2>7, <2>8, <2>9 DEF Delegating
<1>7. CASE World
  <2>1. ASSUME NEW n \in Made, FillOrder(n)
        PROVE  S1' /\ S2' /\ S3' /\ S4' /\ S5' /\ S6'
    <3>1. /\ Keep /\ placed' = placed /\ todo' \subseteq todo /\ lots' \subseteq lots
          /\ (InSell' <=> InSell) /\ (Polls' <=> Polls) /\ (Tps' <=> Tps)
      BY <2>1, <1>e, <1>e1, <1>j DEF Keep,
             FillOrder, Backs, engine, hand, agenda, tick, cockpit, memory
    <3>2. pc' = pc /\ lot' = lot
      BY <2>1, <1>j DEF FillOrder, hand,
             cockpit
    <3> QED BY <1>h, <3>1, <3>2
  <2>2. ASSUME NEW n \in Made, KillOrder(n)
        PROVE  S1' /\ S2' /\ S3' /\ S4' /\ S5' /\ S6'
    <3>1. /\ Keep /\ placed' = placed /\ todo' \subseteq todo /\ lots' \subseteq lots
          /\ (InSell' <=> InSell) /\ (Polls' <=> Polls) /\ (Tps' <=> Tps)
      BY <2>2, <1>e, <1>e1, <1>j DEF Keep,
             KillOrder, Backs, engine, hand, agenda, tick, cockpit, memory
    <3>2. pc' = pc /\ lot' = lot
      BY <2>2, <1>j DEF KillOrder, hand,
             cockpit
    <3> QED BY <1>h, <3>1, <3>2
  <2>3. CASE SellByHand
    <3>1. /\ Keep /\ placed' = placed /\ todo' \subseteq todo /\ lots' \subseteq lots
          /\ (InSell' <=> InSell) /\ (Polls' <=> Polls) /\ (Tps' <=> Tps)
      BY <2>3, <1>e, <1>e1, <1>j DEF Keep,
             SellByHand, Backs, engine, hand, agenda, tick, cockpit, memory
    <3>2. pc' = pc /\ lot' = lot
      BY <2>3, <1>j DEF SellByHand, hand,
             cockpit
    <3> QED BY <1>h, <3>1, <3>2
  <2>4. CASE CloseSession
    <3>1. /\ Keep /\ placed' = placed /\ todo' \subseteq todo /\ lots' \subseteq lots
          /\ (InSell' <=> InSell) /\ (Polls' <=> Polls) /\ (Tps' <=> Tps)
      BY <2>4, <1>e, <1>e1, <1>j DEF Keep,
             CloseSession, Backs, engine, hand, agenda, tick, cockpit, memory
    <3>2. pc' = pc /\ lot' = lot
      BY <2>4, <1>j DEF CloseSession, hand,
             cockpit
    <3> QED BY <1>h, <3>1, <3>2
  <2>5. CASE NewDay
    <3>1. /\ Keep /\ placed' = placed /\ todo' \subseteq todo /\ lots' \subseteq lots
          /\ (InSell' <=> InSell) /\ (Polls' <=> Polls) /\ (Tps' <=> Tps)
      BY <2>5, <1>e, <1>e1, <1>j DEF Keep,
             NewDay, Backs, engine, hand, agenda, tick, cockpit, memory
    <3>2. pc' = pc /\ lot' = lot
      BY <2>5, <1>j DEF NewDay, hand, cockpit
    <3> QED BY <1>h, <3>1, <3>2
  <2>6. ASSUME NEW l \in Lots, RestOver(l)
        PROVE  S1' /\ S2' /\ S3' /\ S4' /\ S5' /\ S6'
    <3>1. /\ Keep /\ placed' = placed /\ todo' \subseteq todo /\ lots' \subseteq lots
          /\ (InSell' <=> InSell) /\ (Polls' <=> Polls) /\ (Tps' <=> Tps)
      BY <2>6, <1>e, <1>e1, <1>j DEF Keep,
             RestOver, Backs, engine, hand, agenda, tick, cockpit, memory
    <3>2. pc' = pc /\ lot' = lot
      BY <2>6, <1>j DEF RestOver, hand,
             cockpit
    <3> QED BY <1>h, <3>1, <3>2
  <2> QED BY <1>7, <2>1, <2>2, <2>3, <2>4, <2>5, <2>6 DEF World
<1>8. CASE Crash
  <2>1. ~InSell' /\ ~Polls' /\ ~Tps' /\ placed' = {}
    BY <1>8, <1>e1, <1>j DEF Crash
  <2> QED BY <1>e1, <1>j, <2>1 DEF S1, S2, S3, S4, S5, S6
<1>9. CASE UNCHANGED vars
  <2>1. /\ Keep /\ UNCHANGED <<placed, todo, lots, pc, back, lot>>
    BY <1>9 DEF vars, Keep, engine, hand, agenda, tick
  <2>2. (InSell' <=> InSell) /\ (Polls' <=> Polls) /\ (Tps' <=> Tps)
    BY <1>e, <1>e1, <1>j, <2>1
  <2>3. Polls /\ pc' # "poll" => lot' = lot /\ pc # "poll"
    BY <2>1
  <2> QED BY <1>h, <2>1, <2>2, <2>3
<1> QED
  BY <1>1, <1>2, <1>3, <1>4, <1>5, <1>6, <1>7, <1>8, <1>9 DEF Next

-----------------------------------------------------------------------------
(* What is true whatever was lost.                                         *)

Basic == TypeOK /\ Backs /\ Referred /\ Ordered /\ Engine /\ Handy /\ Visited /\ Snapshot

\* It holds at the start.
LEMMA BasicInit ==
  ASSUME Init
  PROVE  Basic
<1>1. Made = {} /\ book \in Seq(Order) /\ Len(book) = 0
  BY DEF Init, Made
<1>2. TypeLots /\ TypePlan /\ TypeLedger /\ TypeWorld
  BY ExitAssumption DEF Init, TypeLots, TypePlan, TypeLedger, TypeWorld, NoPlan, Upto
<1>3. TypeSets /\ TypeHand
  <2>1. TypeSets
    BY DEF Init, TypeSets
  <2>2. TypeHand
    BY ExitAssumption DEF Init, TypeHand
  <2> QED BY <2>1, <2>2
<1>4. TypeBook
  BY <1>1, ExitAssumption DEF TypeBook
<1>5. TypeShares
  <2>1. SumFunctionOnSet(EntryQty, Lots) \in Nat
    <3>1. IsFiniteSet(Lots) /\ \A l \in Lots : EntryQty[l] \in Nat
      BY ExitAssumption
    <3> QED BY <3>1, SumPart
  <2>2. Held = SumFunctionOnSet(EntryQty, Lots) + Outside - byHand.all - SumFunctionOnSet(Filled, Made)
        /\ Locked = SumFunctionOnSet(Locks, Made)
    BY SumsAre
  <2>3. SumFunctionOnSet(Filled, Made) = 0 /\ SumFunctionOnSet(Locks, Made) = 0
    BY <1>1, SumEmpty
  <2>4. byHand.all = 0
    BY DEF Init
  <2> QED BY <2>1, <2>2, <2>3, <2>4, ExitAssumption DEF TypeShares, Free
<1>6. Backs /\ Referred /\ Ordered /\ Visited /\ Snapshot /\ Handy
  BY <1>1 DEF Init, Backs, PCs, PollPCs, FinPCs, TpPCs, DayPCs, ShrPCs, ManPCs, SellPCs, TpsPCs, NewPCs, Referred, NoneOr,
              Ordered, Visited, Snapshot, InSell, Handy, NoPlan
<1>7. Engine
  BY ExitAssumption DEF Init, Engine
<1> QED BY <1>2, <1>3, <1>4, <1>5, <1>6, <1>7, TypeParts DEF Basic

\* Every step keeps it, and no lot grows.
LEMMA BasicNext ==
  ASSUME Basic, [Next]_vars
  PROVE  Basic' /\ Shrinks /\ BookStep /\ IsBook' /\ Held' \in Nat /\ Held' <= Held
<1> USE DEF Basic
<1>1. BookStep /\ IsBook'
  BY BookSteps
<1>2. Held' \in Nat /\ Free' >= 0 /\ Held' <= Held
  BY <1>1, SharesNext
<1>3. TypeBook' /\ TypeWorld' /\ Ordered'
  BY <1>1, BookNext
<1>4. TypeLots' /\ Engine' /\ Shrinks
  BY LotsNext
<1>5. TypePlan' /\ TypeLedger'
  BY PlanLedgerNext
<1>6. TypeSets' /\ TypeHand'
  BY SetsNext
<1>7. Referred'
  BY <1>1, ReferredNext
<1>8. Handy'
  BY <1>1, HandyNext
<1>9. Backs'
  BY BacksNext
<1>10. Visited'
  BY <1>1, <1>2, VisitedNext
<1>11. Snapshot'
  BY <1>1, SnapshotNext
<1>12. TypeShares'
  BY <1>2 DEF TypeShares
<1>13. TypeOK'
  BY <1>3, <1>4, <1>5, <1>6, <1>12, TypeParts
<1> QED BY <1>1, <1>2, <1>3, <1>4, <1>7, <1>8, <1>9, <1>10, <1>11, <1>13

\* What is true whatever was lost is true in every reachable state.
LEMMA BasicCorrect == Spec => []Basic
<1>1. Basic /\ [Next]_vars => Basic'
  BY BasicNext
<1> QED BY BasicInit, <1>1, PTL DEF Spec

\* Types, and that there are always as many shares as are offered: Exit.TypeOK.
THEOREM TypeCorrect == Spec => []TypeOK
<1>1. Basic => TypeOK
  BY DEF Basic
<1> QED BY BasicCorrect, <1>1, PTL

\* What was sold is not written back by an older snapshot (ReduceIntent, placeTP,
\* SyncPositions, Restore): Exit.NeverGrows.
THEOREM GrowsNever == Spec => NeverGrows
<1>1. Basic /\ [Next]_vars => [\A l \in Lots : qty'[l] <= qty[l] /\ (row[l] = "closed" => row'[l] = "closed")]_vars
  BY BasicNext DEF Shrinks
<1> QED BY BasicCorrect, <1>1, PTL DEF Spec, NeverGrows

-----------------------------------------------------------------------------
(* A lot of which nothing got lost.                                        *)

\* What is lost stays lost.
LEMMA AstrayGrows ==
  ASSUME [Next]_vars
  PROVE  astray \subseteq astray' /\ twice \subseteq twice'
<1>1. CASE Following
  BY <1>1
     DEF Following, Begin, Load, LoadFails, Loaded, Resolve, history, cockpit
<1>2. CASE Polling
  <2>1. CASE FinRecord
    BY <2>1 DEF FinRecord, Record, history, cockpit
  <2>2. CASE (\E n \in Orders : PollWaits(n)) \/ (\E n \in Orders : PollEnds(n)) \/
             (\E n \in Orders : PollCloses(n)) \/ Cancel \/ CancelFails \/ PollsDone \/
             FinNothing \/ FinReduce \/ FinClose \/ FinDone
    BY <2>2
       DEF PollWaits, PollEnds, PollCloses, Cancel, CancelFails, PollsDone, FinNothing,
           FinReduce, FinClose, FinDone, history, cockpit
  <2> QED BY <1>2, <2>1, <2>2 DEF Polling
<1>3. CASE Profits
  <2>1. CASE TpRecord
    BY <2>1 DEF TpRecord, Record, history, cockpit
  <2>2. CASE DayRecord
    BY <2>2 DEF DayRecord, Record, history, cockpit
  <2>3. CASE TpClose \/ TpChecked \/ DayReduce \/ DayClear \/ Expired \/
             (\E l \in Lots : TpCheck(l)) \/ (\E l \in Lots : Expire(l))
    BY <2>3
       DEF TpClose, TpChecked, DayReduce, DayClear, Expired, TpCheck, Expire, history, cockpit
  <2> QED BY <1>3, <2>1, <2>2, <2>3 DEF Profits
<1>4. CASE Syncing
  <2>1. CASE ShrRecord
    BY <2>1 DEF ShrRecord, RecordManual, history, cockpit
  <2>2. CASE ManRecord
    BY <2>2 DEF ManRecord, RecordManual, history, cockpit
  <2>3. CASE SyncFails \/ SyncVanished \/ SyncLots \/ Vanished \/ ShrReduce \/ ManClose \/
             (\E l \in Lots : SyncShrinks(l)) \/ (\E l \in Lots : VanishTp(l)) \/
             (\E l \in Lots : VanishManual(l))
    BY <2>3
       DEF SyncFails, SyncVanished, SyncLots, Vanished, ShrReduce, ManClose, SyncShrinks,
           VanishTp, VanishManual, history, cockpit
  <2> QED BY <1>4, <2>1, <2>2, <2>3 DEF Syncing
<1>5. CASE Selling
  BY <1>5
     DEF Selling, MakePlan, SellCancel, SellCancelLost, ClearTp, Journal, SubmitAccepted,
         SubmitRefused, SubmitMaybe, Track, Unjournal, SellFailed, SellsDone, Sell, history,
         cockpit
<1>6. CASE Delegating
  BY <1>6
     DEF Delegating, TpCancel, TpCancelLost, TpAccepted, TpRefused, TpMaybe, TpSave, TickDone,
         ArmStop, SetTimeExit, PlanTp, history, cockpit
<1>7. CASE World
  BY <1>7
     DEF World, FillOrder, KillOrder, SellByHand, CloseSession, NewDay, RestOver, history,
         cockpit
<1>8. CASE Crash
  BY <1>8
     DEF Crash, history, cockpit
<1>9. CASE UNCHANGED vars
  BY <1>9
     DEF vars, history, cockpit
<1> QED
  BY <1>1, <1>2, <1>3, <1>4, <1>5, <1>6, <1>7, <1>8, <1>9 DEF Next

\* The orders of a lot, and the shares they sold.
LEMMA OrdersOf ==
  ASSUME TypeOK, NEW l
  PROVE  /\ Of(l) \subseteq Made /\ IsFiniteSet(Of(l)) /\ 0 \notin Of(l) /\ Of(l) \subseteq Orders
         /\ \A n \in Of(l) : /\ book[n].lot = l /\ book[n].size \in Nat /\ book[n].filled \in Nat
                             /\ book[n].filled <= book[n].size /\ Filled[n] = book[n].filled
         /\ FilledOf(l) \in Nat
<1>1. /\ Made \subseteq Orders /\ IsFiniteSet(Made) /\ 0 \notin Made /\ \A n \in Made : book[n] \in Order
      /\ \A n \in Made : Filled[n] = book[n].filled /\ Filled[n] \in Nat
  BY Numbers, Amounts DEF TypeOK
<1>2. Of(l) \subseteq Made /\ IsFiniteSet(Of(l))
  BY <1>1, FS_Subset DEF Of
<1>3. \A n \in Of(l) : /\ book[n].lot = l /\ book[n].size \in Nat /\ book[n].filled \in Nat
                       /\ book[n].filled <= book[n].size /\ Filled[n] = book[n].filled
  BY <1>1 DEF Of, Order, TypeOK
<1>4. FilledOf(l) \in Nat
  BY <1>1, <1>2, SumPart DEF FilledOf
<1> QED BY <1>1, <1>2, <1>3, <1>4

\* None of them changes.
SameOrders(l) == Of(l)' = Of(l) /\ \A n \in Of(l) : book'[n] = book[n]

\* The orders sold what they had sold.
LEMMA FilledSame ==
  ASSUME TypeOK, NEW l, Of(l)' = Of(l), \A n \in Of(l) : book'[n].filled = book[n].filled
  PROVE  FilledOf(l)' = FilledOf(l)
<1>1. IsFiniteSet(Of(l)) /\ \A n \in Of(l) : Filled[n] = book[n].filled
  BY OrdersOf
<1>2. \A n \in Of(l) : Filled'[n] = book'[n].filled
  BY DEF Filled, Of
<1>3. SumFunctionOnSet(Filled', Of(l)) = SumFunctionOnSet(Filled, Of(l))
  BY <1>1, <1>2, SumSame
<1> QED BY <1>3 DEF FilledOf

\* One of them fills.
LEMMA FilledOne ==
  ASSUME TypeOK, NEW l, NEW n \in Of(l), OneChanges(n), book'[n].filled = book[n].filled + 1
  PROVE  Of(l)' = Of(l) /\ FilledOf(l)' = FilledOf(l) + 1
<1>1. /\ IsFiniteSet(Of(l)) /\ \A m \in Of(l) : Filled[m] = book[m].filled /\ book[m].filled \in Nat
      /\ Of(l) \subseteq Made
  BY OrdersOf
<1>2. Of(l)' = Of(l)
  BY DEF Of, OneChanges
<1>3. \A m \in Of(l) : Filled'[m] = book'[m].filled
  BY <1>2 DEF Filled, Of
<1>4. \A m \in Of(l) \ {n} : Filled'[m] = Filled[m]
  BY <1>1, <1>3 DEF OneChanges
<1>5. \A m \in Of(l) : Filled[m] \in Int /\ Filled'[m] \in Int
  BY <1>1, <1>3, <1>4
<1>6. /\ SumFunctionOnSet(Filled, Of(l)) \in Int
      /\ SumFunctionOnSet(Filled', Of(l)) = SumFunctionOnSet(Filled, Of(l)) - Filled[n] + Filled'[n]
  BY <1>1, <1>4, <1>5, SumChange
<1>7. Filled[n] \in Nat /\ Filled'[n] = Filled[n] + 1
  BY <1>1, <1>3
<1> QED BY <1>2, <1>6, <1>7 DEF FilledOf

\* One more, of this lot or of another.
LEMMA FilledMore ==
  ASSUME TypeOK, NEW st, Appends(st), IsBook', NEW l
  PROVE  /\ Of(l)' = IF l = lot THEN Of(l) \cup {Len(book) + 1} ELSE Of(l)
         /\ FilledOf(l)' = FilledOf(l)
         /\ \A m \in Of(l) : book'[m] = book[m]
<1>0. PICK n : n = Len(book) + 1
  OBVIOUS
<1>1. n \notin Made /\ Made' = Made \cup {n} /\ (\A m \in Made : book'[m] = book[m]) /\ book'[n].lot = lot
      /\ book'[n].filled = 0
  BY <1>0 DEF Appends
<1>2. Of(l)' = {m \in Made \cup {n} : book'[m].lot = l}
  BY <1>1 DEF Of
<1>3. /\ IsFiniteSet(Of(l)) /\ \A m \in Of(l) : Filled[m] = book[m].filled /\ book[m].filled \in Nat
      /\ Of(l) \subseteq Made /\ n \notin Of(l)
  BY <1>1, OrdersOf
<1>4. FilledOf(l) = SumFunctionOnSet(Filled, Of(l)) /\ FilledOf(l)' = SumFunctionOnSet(Filled', Of(l)')
      /\ FilledOf(l) \in Nat
  BY OrdersOf DEF FilledOf
<1>5. \A m \in Made \cup {n} : Filled'[m] = book'[m].filled
  BY <1>1 DEF Filled
<1>6. \A m \in Of(l) : Filled'[m] = Filled[m] /\ Filled[m] \in Int
  BY <1>1, <1>3, <1>5
<1>7. SumFunctionOnSet(Filled', Of(l)) = SumFunctionOnSet(Filled, Of(l))
  BY <1>3, <1>6, SumSame
<1>8. CASE l = lot
  <2>1. {m \in Made \cup {n} : book'[m].lot = l} = Of(l) \cup {n}
    BY <1>1, <1>8 DEF Of
  <2>2. \A m \in Of(l) \cup {n} : Filled'[m] \in Int
    BY <1>1, <1>5, <1>6
  <2>3. SumFunctionOnSet(Filled', Of(l) \cup {n}) = Filled'[n] + SumFunctionOnSet(Filled', Of(l))
    BY <1>3, <2>2, SumAdd
  <2>4. Filled'[n] = 0
    BY <1>1, <1>5
  <2>5. Of(l)' = Of(l) \cup {n}
    BY <1>2, <2>1
  <2>6. FilledOf(l)' = FilledOf(l)
    BY <1>4, <1>7, <2>3, <2>4, <2>5
  <2> QED BY <1>0, <1>1, <1>3, <1>8, <2>5, <2>6
<1>9. CASE l # lot
  <2>1. {m \in Made \cup {n} : book'[m].lot = l} = Of(l)
    BY <1>1, <1>9 DEF Of
  <2> QED BY <1>1, <1>2, <1>3, <1>4, <1>7, <1>9, <2>1
<1> QED BY <1>8, <1>9

\* What was pending may be pending no more, and the lot has less.
LEMMA BalanceDown ==
  ASSUME TypeOK, NEW l \in Lots, OnePending(l), Balanced(l), FilledOf(l)' = FilledOf(l),
         qty'[l] \in Nat, qty'[l] <= qty[l], row'[l] = "open" => row[l] = "open",
         Pending(l)' \subseteq Pending(l), \A n \in Pending(l) : book'[n].filled = book[n].filled,
         row'[l] = "open" /\ Pending(l)' = {} => FilledOf(l) + qty'[l] <= EntryQty[l]
  PROVE  OnePending(l)' /\ Balanced(l)'
<1>1. FilledOf(l) \in Nat /\ qty[l] \in Nat /\ EntryQty[l] \in Nat
  BY OrdersOf, ExitAssumption DEF TypeOK
<1>2. OnePending(l)'
  BY DEF OnePending
<1>3. \A n \in Pending(l) : book[n].filled \in Nat
  BY OrdersOf DEF Pending, Tracked
<1>4. row'[l] = "open" => \A n \in Pending(l)' : FilledOf(l)' - book'[n].filled + qty'[l] <= EntryQty[l]
  BY <1>1, <1>3 DEF Balanced
<1> QED BY <1>1, <1>2, <1>4 DEF Balanced

\* Nothing of the lot changes in the store and the engine; its orders are tracked as
\* before; and they are the same orders
SameLot(l) == /\ row'[l] = row[l] /\ qty'[l] = qty[l] /\ tp'[l] = tp[l]
              /\ pos'[l] = pos[l] /\ ptp'[l] = ptp[l]
SameTrack(l) == \A n \in Of(l) : /\ (jour'[n] = "open") <=> (jour[n] = "open")
                                 /\ (n \in work') <=> (n \in work)
                                 /\ (n = InHand') <=> (n = InHand)
SameTime == day' = day /\ (session' = "open" => session = "open") /\ (Early => Early')
Frame(l) == SameLot(l) /\ SameOrders(l) /\ SameTrack(l) /\ SameTime

\* Orders of the lot may end without a fill, and be followed no more: what is known
\* of the lot is less, and stays true.
LEMMA Eases ==
  ASSUME TypeOK, NEW l \in Lots, LotOK(l), Of(l)' = Of(l), row'[l] = row[l], qty'[l] = qty[l],
         \A n \in Of(l) : /\ book'[n].filled = book[n].filled /\ book'[n].size = book[n].size
                          /\ Live(n)' => Live(n)
                          /\ session' = "open" /\ Live(n)' => session = "open",
         Mirrored(l)', TpKnown(l)', Worked(l)', Tracked(l)' \subseteq Tracked(l),
         \A n \in Tracked(l) \ Tracked(l)' :
            /\ session' = "open" => ~Live(n)'
            /\ row[l] = "open" /\ n \in Pending(l) => FilledOf(l) + qty[l] <= EntryQty[l]
  PROVE  LotOK(l)'
<1>1. FilledOf(l)' = FilledOf(l) /\ FilledOf(l) \in Nat
  BY FilledSame, OrdersOf
<1>2. \A n \in Of(l) : /\ book[n].filled \in Nat /\ (Active(n)' => Active(n))
                       /\ Active(n) /\ ~Active(n)' => book[n].filled = 0
  <2>1. \A n \in Of(l) : book[n].filled \in Nat
    BY OrdersOf
  <2>2. \A n \in Of(l) : book'[n].filled = book[n].filled /\ (Live(n)' => Live(n))
    OBVIOUS
  <2> QED BY <2>1, <2>2 DEF Active
<1>3. /\ Pending(l) \subseteq Of(l) /\ Pending(l)' \subseteq Pending(l)
      /\ \A n \in Pending(l) : n \notin Pending(l)' => book[n].filled = 0 \/ n \in Tracked(l) \ Tracked(l)'
  BY <1>2 DEF Pending, Tracked
<1>4. qty[l] \in Nat /\ EntryQty[l] \in Nat
  BY ExitAssumption DEF TypeOK
<1>5. row[l] = "open" /\ Pending(l)' = {} => FilledOf(l) + qty[l] <= EntryQty[l]
  <2>1. row[l] = "open" => /\ Pending(l) = {} => FilledOf(l) + qty[l] <= EntryQty[l]
                           /\ \A n \in Pending(l) : FilledOf(l) - book[n].filled + qty[l] <= EntryQty[l]
    BY DEF LotOK, Balanced
  <2> QED BY <1>1, <1>3, <1>4, <2>1
<1>6. OnePending(l)' /\ Balanced(l)'
  <2>1. OnePending(l) /\ Balanced(l) /\ \A n \in Pending(l) : book'[n].filled = book[n].filled
    BY <1>3 DEF LotOK
  <2> QED BY <1>1, <1>3, <1>4, <1>5, <2>1, BalanceDown
<1>7. Offered(l)'
  <2>1. /\ \A m, n \in Of(l) : Live(m) /\ Live(n) => m = n
        /\ session = "open" => \A n \in Of(l) :
                   Live(n) => n \in Tracked(l) /\ row[l] = "open" /\ book[n].size <= qty[l]
    BY DEF LotOK, Offered
  <2> QED BY <2>1 DEF Offered
<1> QED BY <1>6, <1>7 DEF LotOK

\* The TP of a lot that the store and the engine keep.
LEMMA TpStays ==
  ASSUME TypeOK, NEW l \in Lots, LotOK(l), Of(l)' = Of(l), row'[l] = row[l], qty'[l] = qty[l], tp'[l] = tp[l],
         row[l] = "open" => ptp'[l] \in {tp[l], ptp[l]},
         \A n \in Of(l) : /\ book'[n].filled = book[n].filled /\ book'[n].size = book[n].size
                          /\ Live(n)' => Live(n),
         \A n \in Of(l) : row[l] = "open" /\ n = tp[l] /\ book[n].filled > 0 /\ book[n].day = day
                             => book'[n].day = day'
  PROVE  TpKnown(l)'
<1>1. ASSUME NEW n \in Of(l), row[l] = "open", n \in {tp[l], ptp[l]}, Active(n)
      PROVE  /\ tp[l] = n /\ ptp[l] = n /\ book[n].size = qty[l]
             /\ (book[n].filled > 0 => book[n].day = day)
  BY <1>1 DEF LotOK, TpKnown
<1>2. ASSUME NEW n \in Of(l), row[l] = "open", n \in {tp[l], ptp'[l]}, Active(n)'
      PROVE  /\ tp[l] = n /\ ptp'[l] = n /\ book'[n].size = qty[l]
             /\ (book'[n].filled > 0 => book'[n].day = day')
  <2>1. n \in {tp[l], ptp[l]}
    BY <1>2
  <2>2. Active(n)
    BY <1>2 DEF Active
  <2> QED BY <1>1, <1>2, <2>1, <2>2
<1> QED BY <1>2 DEF TpKnown

\* Orders of the lot may end, without a fill.
LEMMA EndKeeps ==
  ASSUME TypeOK, NEW l \in Lots, LotOK(l), SameLot(l), SameTrack(l), Of(l)' = Of(l), Early => Early',
         \A n \in Of(l) : /\ book'[n].filled = book[n].filled /\ book'[n].size = book[n].size
                          /\ Live(n)' => Live(n)
                          /\ session' = "open" /\ Live(n)' => session = "open",
         \A n \in Of(l) : row[l] = "open" /\ n = tp[l] /\ book[n].filled > 0 /\ book[n].day = day
                             => book'[n].day = day'
  PROVE  LotOK(l)'
<1>1. Tracked(l)' = Tracked(l)
  BY DEF SameTrack, SameLot, Tracked
<1>2. /\ row'[l] = row[l] /\ qty'[l] = qty[l] /\ tp'[l] = tp[l] /\ pos'[l] = pos[l] /\ ptp'[l] = ptp[l]
  BY DEF SameLot
<1>3. Mirrored(l)'
  BY <1>2 DEF LotOK, Mirrored
<1>4. TpKnown(l)'
  BY <1>2, TpStays
<1>5. Worked(l)'
  <2>1. \A n \in Of(l) : /\ n \in work => jour[n] = "open"
                         /\ jour[n] = "open" /\ n \notin work /\ Active(n) => Early
    BY DEF LotOK, Worked
  <2>2. \A n \in Of(l) : Active(n)' => Active(n)
    BY DEF Active
  <2> QED BY <2>1, <2>2 DEF Worked, SameTrack
<1> QED BY <1>1, <1>2, <1>3, <1>4, <1>5, Eases

\* A lot that a step does not touch, nor its orders, stays as it was.
LEMMA FrameKeeps ==
  ASSUME TypeOK, NEW l \in Lots, LotOK(l), Frame(l)
  PROVE  LotOK(l)'
<1>1. Of(l)' = Of(l) /\ \A n \in Of(l) : book'[n] = book[n]
  BY DEF Frame, SameOrders
<1>2. \A n \in Of(l) : Live(n)' <=> Live(n)
  BY <1>1 DEF Live
<1>3. SameLot(l) /\ SameTrack(l) /\ day' = day /\ (session' = "open" => session = "open") /\ (Early => Early')
  BY DEF Frame, SameTime
<1> QED BY <1>1, <1>2, <1>3, EndKeeps

\* A lot that is not worked on and has no TP: nothing is pending, and while the
\* session lasts no order of it is live.
LEMMA NonePending ==
  ASSUME TypeOK, NEW l \in Lots, LotOK(l), ~Working(l), ~Early, InHand = 0,
         tp[l] # 0 => ~Active(tp[l])
  PROVE  Pending(l) = {} /\ (session = "open" => \A n \in Of(l) : ~Live(n))
<1>1. \A n \in Of(l) : n \notin work /\ n # 0
  BY OrdersOf DEF Working
<1>2. \A n \in Of(l) : jour[n] = "open" => ~Active(n)
  BY <1>1 DEF LotOK, Worked
<1>3. Pending(l) = {}
  BY <1>1, <1>2 DEF Pending, Tracked
<1>4. session = "open" => \A n \in Of(l) : ~Live(n)
  BY <1>3 DEF LotOK, Offered, Pending, Active
<1> QED BY <1>3, <1>4

\* A lot being sold by an order that is dead: nothing else is pending, and while
\* the session lasts no order of it is live.
LEMMA OnlyPending ==
  ASSUME TypeOK, NEW l \in Lots, LotOK(l), NEW n \in Pending(l), session = "closed" \/ ~Live(n)
  PROVE  Pending(l) = {n} /\ (session = "open" => \A m \in Of(l) : ~Live(m))
<1>1. Pending(l) = {n}
  BY DEF LotOK, OnePending
<1>2. session = "open" => \A m \in Of(l) : ~Live(m)
  BY <1>1 DEF LotOK, Offered, Pending, Active, TypeOK
<1> QED BY <1>1, <1>2

\* The lot ends, or goes on with what its orders left, and counts on none of them.
LEMMA SettleKeeps ==
  ASSUME TypeOK, NEW l \in Lots, LotOK(l), SameOrders(l), SameTrack(l), SameTime,
         Mirrored(l)', qty'[l] \in Nat, qty'[l] <= qty[l], row'[l] = "open" => row[l] = "open",
         tp'[l] \in {0, tp[l]},
         row'[l] = "open" => /\ \A n \in Of(l) : n \in {tp'[l], ptp'[l]} => ~Active(n)
                             /\ FilledOf(l) + qty'[l] <= EntryQty[l],
         session = "open" => \A n \in Of(l) : ~Live(n)
  PROVE  LotOK(l)'
<1>1. /\ Of(l)' = Of(l) /\ \A n \in Of(l) : book'[n] = book[n] /\ (Live(n)' <=> Live(n)) /\ (Active(n)' <=> Active(n))
      /\ \A n \in Of(l) : n # 0
  BY OrdersOf DEF SameOrders, Live, Active
<1>2. FilledOf(l)' = FilledOf(l)
  BY <1>1, FilledSame
<1>3. Tracked(l)' \subseteq Tracked(l)
  BY <1>1 DEF Tracked, SameTrack
<1>4. Pending(l)' \subseteq Pending(l) /\ Pending(l) \subseteq Of(l)
  BY <1>1, <1>3 DEF Pending, Tracked
<1>5. TpKnown(l)'
  BY <1>1 DEF TpKnown
<1>6. Worked(l)'
  BY <1>1 DEF LotOK, Worked, SameTrack, SameTime
<1>7. OnePending(l)' /\ Balanced(l)'
  <2>1. OnePending(l) /\ Balanced(l) /\ \A n \in Pending(l) : book'[n].filled = book[n].filled
    BY <1>1, <1>4 DEF LotOK
  <2> QED BY <1>2, <1>4, <2>1, BalanceDown
<1>8. Offered(l)'
  BY <1>1 DEF LotOK, Offered, SameTime
<1> QED BY <1>5, <1>6, <1>7, <1>8 DEF LotOK

\* An exit that is over and filled: it is all that is pending of its lot.
LEMMA FinKnown ==
  ASSUME TypeOK, Referred, Handy, pc \in FinPCs, seen > 0, NEW l \in Lots, l = lot, LotOK(l), HandSure
  PROVE  /\ cur \in Pending(l) /\ book[cur].filled = seen /\ Pending(l) = {cur}
         /\ session = "open" => \A m \in Of(l) : ~Live(m)
         /\ row[l] = "open" => FilledOf(l) - seen + qty[l] <= EntryQty[l]
<1>1. cur \in work /\ lot = book[cur].lot /\ ~Live(cur) /\ seen = book[cur].filled /\ cur \in Made
  BY DEF Referred, Handy, HandFin, HandSure, FinPCs
<1>2. cur \in Of(l) /\ Active(cur)
  BY <1>1 DEF Of, Active
<1>3. cur \in Pending(l)
  BY <1>1, <1>2 DEF LotOK, Worked, Tracked, Pending
<1>4. Pending(l) = {cur} /\ (session = "open" => \A m \in Of(l) : ~Live(m))
  BY <1>1, <1>3, OnlyPending
<1> QED BY <1>1, <1>3, <1>4 DEF LotOK, Balanced

\* A TP in hand at night is over, or its session is.
LEMMA AgendaNext ==
  ASSUME Basic, Expiring, Resolving, BookStep, [Next]_vars
  PROVE  Expiring' /\ Resolving'
<1> USE DEF Basic, PollPCs, FinPCs, TpPCs, DayPCs, ShrPCs, ManPCs, SellPCs, TpsPCs
<1> DEFINE AtNight == back = "expire" /\ pc \in {"expire"} \cup TpPCs \cup DayPCs
           Goal == Expiring' /\ Resolving'
<1>a. /\ lots \subseteq Lots /\ ptp \in [Lots -> 0 .. MaxOrders] /\ session \in {"open", "closed"}
      /\ \A l \in Lots : ptp[l] # 0 => ptp[l] \in Made
  BY DEF TypeOK, Referred, NoneOr, Of
<1>b. \A n \in Made : pc # "submit" \/ n # cur => (Live(n)' => Live(n))
  BY Calm
<1>c. ASSUME AtNight' => AtNight /\ lots' \subseteq lots /\ \A l \in Lots : ptp'[l] \in {0, ptp[l]},
             session = "closed" => session' = "closed" \/ \A n \in Made : ~Live(n)'
      PROVE  Expiring'
  <2>1. ASSUME AtNight', NEW l \in lots', NEW n, ptp'[l] = n, n # 0
        PROVE  session' = "closed" \/ ~Live(n)'
    <3>1. AtNight /\ l \in lots /\ l \in Lots /\ ptp[l] = n
      BY <1>a, <1>c, <2>1
    <3>2. session = "closed" \/ ~Live(ptp[l])
      BY <2>1, <3>1 DEF Expiring
    <3>3. n \in Made /\ (Live(n)' => Live(n))
      BY <1>a, <1>b, <2>1, <3>1
    <3> QED BY <1>c, <3>1, <3>2, <3>3
  <2>2. ASSUME AtNight', NEW l \in lots', ptp'[l] # 0
        PROVE  session' = "closed" \/ ~(book'[ptp'[l]].state = "live")
    BY <2>1, <2>2 DEF Live
  <2> QED BY <2>2 DEF Expiring, Live
<1>d. ASSUME pc' = "resolve" => pc = "resolve" /\ UNCHANGED <<todo, jour>> PROVE Resolving'
  BY <1>d DEF Resolving
<1>e. ASSUME AtNight' => AtNight /\ UNCHANGED <<lots, ptp>>,
             UNCHANGED session,
             pc' = "resolve" => pc = "resolve" /\ UNCHANGED <<todo, jour>>
      PROVE  Goal
  BY <1>a, <1>c, <1>d, <1>e

<1>1. CASE Following
  <2>1. CASE Begin
    BY <2>1, <1>e DEF Begin, rows, engine, account, agenda, tick, history, cockpit
  <2>2. CASE Load
    <3>1. pc' = "resolve" /\ todo' = {n \in Orders : jour[n] = "pre"} /\ jour' = jour /\ session' = session
      BY <2>2 DEF Load, account
    <3> QED BY <1>c, <3>1 DEF Resolving
  <2>3. CASE LoadFails
    BY <2>3, <1>e DEF LoadFails, rows, engine, account, agenda, tick, history, cockpit
  <2>4. CASE Loaded
    BY <2>4, <1>e DEF Loaded, rows, engine, account, agenda, tick, history, cockpit
  <2>5. ASSUME NEW n \in Orders, Resolve(n)
        PROVE  Goal
    <3>1. /\ pc' = pc /\ pc = "resolve" /\ todo' = todo \ {n} /\ session' = session
          /\ (jour' = jour \/ jour' = [jour EXCEPT ![n] = "void"])
      BY <2>5 DEF Resolve, account
    <3>2. todo \subseteq Orders
      BY DEF TypeOK
    <3>3. \A m \in todo' : jour'[m] = jour[m]
      BY <3>1, <3>2 DEF TypeOK
    <3> QED BY <1>c, <3>1, <3>3 DEF Resolving
  <2> QED BY <1>1, <2>1, <2>2, <2>3, <2>4, <2>5 DEF Following
<1>2. CASE Polling
  <2>1. ASSUME NEW n \in Orders, PollWaits(n)
        PROVE  Goal
    BY <2>1, <1>e DEF PollWaits, rows, engine, account, agenda, tick, history, cockpit
  <2>2. ASSUME NEW n \in Orders, PollEnds(n)
        PROVE  Goal
    BY <2>2, <1>e DEF PollEnds, Take, rows, engine, account, agenda, tick, history, cockpit
  <2>3. ASSUME NEW n \in Orders, PollCloses(n)
        PROVE  Goal
    BY <2>3, <1>e DEF PollCloses, Take, rows, engine, account, agenda, tick, history, cockpit
  <2>4. CASE Cancel
    BY <2>4, <1>e DEF Cancel, rows, engine, account, agenda, tick, history, cockpit
  <2>5. CASE CancelFails
    BY <2>5, <1>e DEF CancelFails, Return, rows, engine, account, agenda, tick, history, cockpit
  <2>6. CASE PollsDone
    <3>1. pc' \notin {"resolve", "expire"} \cup TpPCs \cup DayPCs /\ session' = session
      BY <2>6 DEF PollsDone, Return, Phase, account, Backs
    <3> QED BY <1>e, <3>1
  <2>7. CASE FinNothing
    BY <2>7, <1>e DEF FinNothing, rows, engine, account, agenda, tick, history, cockpit
  <2>8. CASE FinRecord
    BY <2>8, <1>e DEF FinRecord, rows, engine, account, agenda, tick, history, cockpit
  <2>9. CASE FinReduce
    BY <2>9, <1>e DEF FinReduce, rows, engine, account, agenda, tick, history, cockpit
  <2>10. CASE FinClose
    BY <2>10, <1>e DEF FinClose, rows, engine, account, agenda, tick, history, cockpit
  <2>11. CASE FinDone
    BY <2>11, <1>e DEF FinDone, Return, rows, engine, account, agenda, tick, history, cockpit
  <2> QED BY <1>2, <2>1, <2>2, <2>3, <2>4, <2>5, <2>6, <2>7, <2>8, <2>9, <2>10, <2>11 DEF Polling
<1>3. CASE Profits
  <2>1. CASE TpRecord
    BY <2>1, <1>e DEF TpRecord, rows, engine, account, agenda, tick, history, cockpit
  <2>2. CASE TpClose
    <3>1. pc' = back /\ back' = back /\ lots' = lots /\ session' = session /\ pc' # "resolve"
      BY <2>2 DEF TpClose, Return, agenda, account, Backs
    <3>2. \A l \in Lots : ptp'[l] \in {0, ptp[l]}
      BY <2>2, <1>a DEF TpClose, CloseLot, engine
    <3>3. back = "expire" => AtNight
      BY <2>2 DEF TpClose
    <3> QED BY <1>c, <1>d, <3>1, <3>2, <3>3
  <2>3. CASE TpChecked
    <3>1. pc' = "expire" /\ lots' = (IF session = "closed" THEN Has ELSE {}) /\ session' = session
      BY <2>3 DEF TpChecked, Phase, account
    <3> QED BY <1>d, <3>1 DEF Expiring
  <2>4. CASE DayRecord
    BY <2>4, <1>e DEF DayRecord, rows, engine, account, agenda, tick, history, cockpit
  <2>5. CASE DayReduce
    <3>1. pc' = "expire" /\ back' = back /\ lots' = lots /\ session' = session /\ pc' # "resolve"
      BY <2>5 DEF DayReduce, Return, agenda, account, Backs
    <3>2. \A l \in Lots : ptp'[l] \in {0, ptp[l]}
      BY <2>5, <1>a DEF DayReduce, CloseLot, engine
    <3>3. back = "expire" => AtNight
      BY <2>5 DEF DayReduce
    <3> QED BY <1>c, <1>d, <3>1, <3>2, <3>3
  <2>6. CASE DayClear
    <3>1. pc' = "expire" /\ back' = back /\ lots' = lots /\ session' = session /\ pc' # "resolve"
      BY <2>6 DEF DayClear, Return, agenda, account, Backs
    <3>2. \A l \in Lots : ptp'[l] \in {0, ptp[l]}
      BY <2>6, <1>a DEF DayClear, CloseLot, engine
    <3>3. back = "expire" => AtNight
      BY <2>6 DEF DayClear
    <3> QED BY <1>c, <1>d, <3>1, <3>2, <3>3
  <2>7. CASE Expired
    BY <2>7, <1>e DEF Expired, rows, engine, account, agenda, tick, history, cockpit
  <2>8. ASSUME NEW l \in Lots, TpCheck(l)
        PROVE  Goal
    <3>1. pc = "tpcheck" /\ back' = back /\ session' = session /\ (pc' = pc \/ pc' = "tpRecord")
      BY <2>8 DEF TpCheck, Take, agenda, account
    <3>2. back = "tpcheck"
      BY <3>1 DEF Backs
    <3> QED BY <1>e, <3>1, <3>2
  <2>9. ASSUME NEW l \in Lots, Expire(l)
        PROVE  Goal
    <3>1. pc = "expire" /\ lots' = lots \ {l} /\ UNCHANGED <<back, ptp, session>> /\ pc' # "resolve"
      BY <2>9 DEF Expire, Take, engine, account
    <3> QED BY <1>a, <1>c, <1>d, <3>1
  <2> QED BY <1>3, <2>1, <2>2, <2>3, <2>4, <2>5, <2>6, <2>7, <2>8, <2>9 DEF Profits
<1>4. CASE Syncing
  <2>1. CASE SyncFails
    BY <2>1, <1>e DEF SyncFails, rows, engine, account, agenda, tick, history, cockpit
  <2>2. CASE SyncVanished
    BY <2>2, <1>e DEF SyncVanished, Phase, rows, engine, account, agenda, tick, history, cockpit
  <2>3. CASE SyncLots
    BY <2>3, <1>e DEF SyncLots, rows, engine, account, agenda, tick, history, cockpit
  <2>4. CASE Vanished
    BY <2>4, <1>e DEF Vanished, rows, engine, account, agenda, tick, history, cockpit
  <2>5. CASE ShrRecord
    BY <2>5, <1>e DEF ShrRecord, rows, engine, account, agenda, tick, history, cockpit
  <2>6. CASE ShrReduce
    BY <2>6, <1>e DEF ShrReduce, Return, rows, engine, account, agenda, tick, history, cockpit
  <2>7. CASE ManRecord
    BY <2>7, <1>e DEF ManRecord, rows, engine, account, agenda, tick, history, cockpit
  <2>8. CASE ManClose
    <3>1. pc' \notin {"resolve", "expire"} \cup TpPCs \cup DayPCs /\ session' = session
      BY <2>8 DEF ManClose, Return, Phase, account, Backs
    <3> QED BY <1>e, <3>1
  <2>9. ASSUME NEW l \in Lots, SyncShrinks(l)
        PROVE  Goal
    BY <2>9, <1>e DEF SyncShrinks, Take, rows, engine, account, agenda, tick, history, cockpit
  <2>10. ASSUME NEW l \in Lots, VanishTp(l)
        PROVE  Goal
    <3>1. pc = "vanish" /\ back' = back /\ session' = session /\ pc' = "tpRecord"
      BY <2>10 DEF VanishTp, Take, agenda, account
    <3>2. back = "vanish"
      BY <3>1 DEF Backs
    <3> QED BY <1>e, <3>1, <3>2
  <2>11. ASSUME NEW l \in Lots, VanishManual(l)
        PROVE  Goal
    BY <2>11, <1>e DEF VanishManual, Take, rows, engine, account, agenda, tick, history, cockpit
  <2> QED BY <1>4, <2>1, <2>2, <2>3, <2>4, <2>5, <2>6, <2>7, <2>8, <2>9, <2>10, <2>11 DEF Syncing
<1>5. CASE Selling
  <2>1. CASE MakePlan
    BY <2>1, <1>e DEF MakePlan, rows, engine, account, agenda, tick, history, cockpit
  <2>2. CASE SellCancel
    BY <2>2, <1>e DEF SellCancel, Return, rows, engine, account, agenda, tick, history, cockpit
  <2>3. CASE SellCancelLost
    BY <2>3, <1>e DEF SellCancelLost, Return, rows, engine, account, agenda, tick, history, cockpit
  <2>4. CASE ClearTp
    BY <2>4, <1>e DEF ClearTp, rows, engine, account, agenda, tick, history, cockpit
  <2>5. CASE Journal
    BY <2>5, <1>e DEF Journal, rows, engine, account, agenda, tick, history, cockpit
  <2>6. CASE SubmitAccepted
    BY <2>6, <1>e DEF SubmitAccepted, rows, engine, account, agenda, tick, history, cockpit
  <2>7. CASE SubmitRefused
    BY <2>7, <1>e DEF SubmitRefused, rows, engine, account, agenda, tick, history, cockpit
  <2>8. CASE SubmitMaybe
    BY <2>8, <1>e DEF SubmitMaybe, rows, engine, account, agenda, tick, history, cockpit
  <2>9. CASE Track
    BY <2>9, <1>e DEF Track, Return, rows, engine, account, agenda, tick, history, cockpit
  <2>10. CASE Unjournal
    BY <2>10, <1>e DEF Unjournal, Return, rows, engine, account, agenda, tick, history, cockpit
  <2>11. CASE SellFailed
    BY <2>11, <1>e DEF SellFailed, Return, rows, engine, account, agenda, tick, history, cockpit
  <2>12. CASE SellsDone
    BY <2>12, <1>e DEF SellsDone, rows, engine, account, agenda, tick, history, cockpit
  <2>13. ASSUME NEW l \in Lots, NEW q \in 1 .. EntryQty[l], Sell(l, q)
        PROVE  Goal
    BY <2>13, <1>e DEF Sell, Take, rows, engine, account, agenda, tick, history, cockpit
  <2> QED BY <1>5, <2>1, <2>2, <2>3, <2>4, <2>5, <2>6, <2>7, <2>8, <2>9, <2>10, <2>11, <2>12,
             <2>13 DEF Selling
<1>6. CASE Delegating
  <2>1. CASE TpCancel
    BY <2>1, <1>e DEF TpCancel, Return, rows, engine, account, agenda, tick, history, cockpit
  <2>2. CASE TpCancelLost
    BY <2>2, <1>e DEF TpCancelLost, Return, rows, engine, account, agenda, tick, history, cockpit
  <2>3. CASE TpAccepted
    BY <2>3, <1>e DEF TpAccepted, rows, engine, account, agenda, tick, history, cockpit
  <2>4. CASE TpRefused
    BY <2>4, <1>e DEF TpRefused, Return, rows, engine, account, agenda, tick, history, cockpit
  <2>5. CASE TpMaybe
    BY <2>5, <1>e DEF TpMaybe, Return, rows, engine, account, agenda, tick, history, cockpit
  <2>6. CASE TpSave
    BY <2>6, <1>e DEF TpSave, Return, rows, engine, account, agenda, tick, history, cockpit
  <2>7. CASE TickDone
    BY <2>7, <1>e DEF TickDone, rows, engine, account, agenda, tick, history, cockpit
  <2>8. ASSUME NEW l \in Lots, PlanTp(l)
        PROVE  Goal
    BY <2>8, <1>e DEF PlanTp, Take, rows, engine, account, agenda, tick, history, cockpit
  <2>9. ASSUME NEW l \in Lots, ArmStop(l) \/ SetTimeExit(l)
        PROVE  Goal
    <3>1. UNCHANGED <<lots, back, ptp, pc, todo, jour, session>>
      BY <2>9, UpdateIs DEF Rewrites, engine, account, agenda
    <3> QED BY <1>e, <3>1
  <2> QED BY <1>6, <2>1, <2>2, <2>3, <2>4, <2>5, <2>6, <2>7, <2>8, <2>9 DEF Delegating
<1>7. CASE World
  <2>1. ASSUME NEW n \in Made, FillOrder(n)
        PROVE  Goal
    BY <2>1, <1>e DEF FillOrder, rows, engine, account, agenda, tick, history, cockpit
  <2>2. ASSUME NEW n \in Made, KillOrder(n)
        PROVE  Goal
    BY <2>2, <1>e DEF KillOrder, rows, engine, account, agenda, tick, history, cockpit
  <2>3. CASE SellByHand
    BY <2>3, <1>e DEF SellByHand, rows, engine, account, agenda, tick, history, cockpit
  <2>4. CASE CloseSession
    <3>1. UNCHANGED <<pc, back, lots, ptp, todo, jour>> /\ session' = "closed"
      BY <2>4 DEF CloseSession, cockpit, agenda, engine
    <3> QED BY <1>a, <1>c, <1>d, <3>1
  <2>5. CASE NewDay
    <3>1. UNCHANGED <<pc, back, lots, ptp, todo, jour>>
      BY <2>5 DEF NewDay, cockpit, agenda, engine
    <3>2. Night
      BY <2>5, NightIs
    <3>3. \A n \in Made : ~Live(n)'
      BY <3>2 DEF Night, Live
    <3> QED BY <1>a, <1>c, <1>d, <3>1, <3>3
  <2>6. ASSUME NEW l \in Lots, RestOver(l)
        PROVE  Goal
    BY <2>6, <1>e DEF RestOver, rows, engine, account, agenda, tick, history, cockpit
  <2> QED BY <1>7, <2>1, <2>2, <2>3, <2>4, <2>5, <2>6 DEF World
<1>8. CASE Crash
  BY <1>8, <1>e DEF Crash, account
<1>9. CASE UNCHANGED vars
  BY <1>9, <1>e DEF vars, account, agenda, engine
<1> QED
  BY <1>1, <1>2, <1>3, <1>4, <1>5, <1>6, <1>7, <1>8, <1>9 DEF Next

\* A lot written as the engine has it keeps its orders: where the store counts on
\* another TP than the engine, neither holds or sold a share.
LEMMA RewriteKeeps ==
  ASSUME Basic, NEW l \in Lots, LotOK(l), Rewrites(l)
  PROVE  LotOK(l)' /\ Pending(l)' = Pending(l) /\ qty'[l] = qty[l]
<1> USE DEF Basic
<1>1. /\ qty \in [Lots -> Nat] /\ tp \in [Lots -> 0 .. MaxOrders] /\ pos[l] > 0
      /\ UNCHANGED <<row, jour, book, pos, ptp, work, loaded, pc, cur, session, day>>
      /\ \/ UNCHANGED <<qty, tp>>
         \/ qty' = [qty EXCEPT ![l] = pos[l]] /\ tp' = [tp EXCEPT ![l] = ptp[l]]
  BY DEF TypeOK, Rewrites, account, engine, memory, hand, Has
<1>2. row[l] = "open" /\ pos[l] = qty[l]
  BY <1>1 DEF LotOK, Mirrored
<1>3. qty'[l] = qty[l] /\ tp'[l] \in {tp[l], ptp[l]}
  BY <1>1, <1>2
<1>4. \A n \in Of(l) : n \in {tp[l], ptp[l]} /\ Active(n) =>
         tp[l] = n /\ ptp[l] = n /\ book[n].size = qty[l] /\ (book[n].filled > 0 => book[n].day = day)
  BY <1>2 DEF LotOK, TpKnown
<1>5. Of(l)' = Of(l) /\ InHand' = InHand /\ \A n \in Of(l) : (Live(n)' <=> Live(n)) /\ (Active(n)' <=> Active(n))
  BY <1>1 DEF Of, Made, InHand, Live, Active
<1>6. \A n \in Of(l) : Active(n) => ((n = tp'[l]) <=> (n = tp[l]))
  BY <1>3, <1>4
<1>7. Pending(l)' = Pending(l)
  BY <1>1, <1>5, <1>6 DEF Pending, Tracked
<1>8. FilledOf(l)' = FilledOf(l)
  BY <1>1 DEF FilledOf, Filled, Of, Made
<1>9. Mirrored(l)'
  BY <1>1, <1>2, <1>3 DEF Mirrored
<1>10. TpKnown(l)'
  <2>1. \A n \in Of(l) : n \in {tp'[l], ptp[l]} /\ Active(n) =>
           tp'[l] = n /\ ptp[l] = n /\ book[n].size = qty'[l] /\ (book[n].filled > 0 => book[n].day = day)
    BY <1>3, <1>4
  <2> QED BY <1>1, <1>5, <2>1 DEF TpKnown
<1>11. Worked(l)'
  BY <1>1, <1>5 DEF LotOK, Worked, Early
<1>12. OnePending(l)'
  BY <1>7 DEF LotOK, OnePending
<1>13. Offered(l)'
  <2>1. \A n \in Of(l) : Live(n) => Active(n)
    BY DEF Active
  <2>2. session = "open" => \A n \in Of(l) : Live(n) => n \in Tracked(l) /\ book[n].size <= qty[l]
    BY DEF LotOK, Offered
  <2>3. \A m, n \in Of(l) : Live(m) /\ Live(n) => m = n
    BY DEF LotOK, Offered
  <2>4. session = "open" => \A n \in Of(l) : Live(n) => n \in Tracked(l)'
    BY <1>7, <2>1, <2>2 DEF Pending
  <2> QED BY <1>1, <1>2, <1>3, <1>5, <2>2, <2>3, <2>4 DEF Offered
<1>14. Balanced(l)'
  BY <1>1, <1>3, <1>7, <1>8 DEF LotOK, Balanced
<1> QED BY <1>3, <1>7, <1>9, <1>10, <1>11, <1>12, <1>13, <1>14 DEF LotOK

\* Nothing happens that concerns a lot's orders
Quiet ==
  /\ UNCHANGED <<rows, engine, book, work, day>>
  /\ session' = "open" => session = "open"
  /\ (Early => Early') /\ InHand' = InHand
  /\ \A n \in Orders : (jour'[n] = "open") <=> (jour[n] = "open")

\* What is known of a lot stays known.
LEMMA LotNext ==
  ASSUME Basic, Resolving, LotsOK, HandOK, BookStep, IsBook', [Next]_vars, NEW k \in Lots, k \notin astray'
  PROVE  LotOK(k)'
<1> USE DEF Basic
<1>a. k \notin astray /\ LotOK(k)
  BY AstrayGrows DEF LotsOK
<1>b. k = lot => HandSure
  BY <1>a DEF HandOK
<1>c. /\ row \in [Lots -> {"open", "closed"}] /\ qty \in [Lots -> Nat] /\ pos \in [Lots -> Nat]
      /\ tp \in [Lots -> 0 .. MaxOrders] /\ ptp \in [Lots -> 0 .. MaxOrders]
      /\ jour \in [Orders -> {"none", "pre", "void", "open", "done"}] /\ qty[k] \in 1 .. EntryQty[k]
      /\ seen \in Nat
  BY DEF TypeOK
<1>d. \A n \in Of(k) : n \in Made /\ n \in Orders /\ n # 0 /\ book[n].lot = k /\ book[n].filled \in Nat
  BY OrdersOf
<1>e. pos[k] = IF row[k] = "open" THEN qty[k] ELSE 0
  BY <1>a DEF LotOK, Mirrored
<1>f. ASSUME Frame(k) PROVE LotOK(k)'
  BY <1>a, <1>f, FrameKeeps
<1>g. ASSUME Quiet PROVE LotOK(k)'
  <2>1. SameLot(k) /\ SameTrack(k) /\ SameTime /\ SameOrders(k)
    BY <1>d, <1>g DEF Quiet, rows, engine, SameLot, SameTrack, SameTime, SameOrders, Of, Made
  <2> QED BY <1>f, <2>1 DEF Frame
<1>h. ASSUME NEW n, Dies(n), SameLot(k), SameTrack(k), Early => Early', UNCHANGED <<day, session>> PROVE LotOK(k)'
  <2>1. Of(k)' = Of(k)
    BY <1>h DEF Dies, OneChanges, Of
  <2>2. \A m \in Of(k) : /\ book'[m].filled = book[m].filled /\ book'[m].size = book[m].size
                         /\ book'[m].day = book[m].day /\ (Live(m)' => Live(m))
    BY <1>d, <1>h DEF Dies, OneChanges, Live
  <2> QED BY <1>a, <1>h, <2>1, <2>2, EndKeeps
<1>i. pc \in FinPCs => cur \in Of(lot)
  BY DEF FinPCs, Handy, HandFin, Referred, Of
<1>j. pc \in NewPCs \cup {"tpSave"} => cur \in Of(lot)
  BY DEF NewPCs, Handy, HandNew, HandSave
<1>k. pc \in SellPCs \cup TpsPCs \cup ManPCs \cup ShrPCs \cup DayPCs \cup TpPCs => ~Working(lot)
  BY DEF Handy, HandSell, HandTps, HandMan, HandShr, HandDay, HandTp
<1>l. ASSUME SameLot(k), UNCHANGED <<book, jour, work, day, session, loaded>>, InHand' = InHand, Early => Early'
      PROVE  LotOK(k)'
  BY <1>f, <1>l DEF Frame, SameTrack, SameTime, SameOrders, Of, Made

<1>n. ASSUME UNCHANGED book
      PROVE  /\ Of(k)' = Of(k)
             /\ \A m \in Of(k) : /\ book'[m] = book[m] /\ (Live(m)' <=> Live(m)) /\ (Active(m)' <=> Active(m))
                                 /\ book'[m].filled = book[m].filled /\ book'[m].size = book[m].size
                                 /\ book'[m].day = book[m].day
  BY <1>n DEF Of, Made, Live, Active

<1>1. CASE Following
  <2>1. CASE Begin
    BY <2>1, <1>g DEF Quiet, Begin, rows, ledger, engine, memory, account, hand, cockpit, Early,
             InHand
  <2>2. CASE Load
    <3>1. /\ UNCHANGED <<rows, engine, book, jour, day, session>> /\ InHand' = 0 /\ InHand = 0
          /\ work' = {n \in Orders : jour[n] = "open"}
      BY <2>2 DEF Load, account, InHand
    <3>2. SameLot(k) /\ Tracked(k)' = Tracked(k)
      BY <1>n, <3>1 DEF SameLot, Tracked, rows, engine
    <3>3. Worked(k)'
      BY <1>d, <1>n, <3>1 DEF Worked
    <3>4. /\ row'[k] = row[k] /\ qty'[k] = qty[k] /\ tp'[k] = tp[k] /\ pos'[k] = pos[k] /\ ptp'[k] = ptp[k]
      BY <3>2 DEF SameLot
    <3>5. Mirrored(k)'
      BY <1>a, <3>4 DEF LotOK, Mirrored
    <3>6. TpKnown(k)'
      BY <1>a, <1>n, <3>1, <3>4, TpStays
    <3> QED BY <1>a, <1>n, <3>1, <3>2, <3>3, <3>4, <3>5, <3>6, Eases
  <2>3. CASE LoadFails
    <3>1. /\ UNCHANGED <<rows, engine, book, jour, work, day, session>> /\ InHand' = 0 /\ InHand = 0
          /\ {book[n].lot : n \in {m \in Made : jour[m] \in {"pre", "open"}}} \subseteq astray'
      BY <2>3 DEF LoadFails, account, memory, InHand
    <3>2. SameLot(k) /\ Tracked(k)' = Tracked(k)
      BY <1>n, <3>1 DEF SameLot, Tracked, rows, engine
    <3>3. Worked(k)'
      <4>1. \A n \in Of(k) : jour[n] # "open"
        BY <1>d, <3>1
      <4> QED BY <1>a, <1>n, <3>1, <4>1 DEF LotOK, Worked
    <3>4. /\ row'[k] = row[k] /\ qty'[k] = qty[k] /\ tp'[k] = tp[k] /\ pos'[k] = pos[k] /\ ptp'[k] = ptp[k]
      BY <3>2 DEF SameLot
    <3>5. Mirrored(k)'
      BY <1>a, <3>4 DEF LotOK, Mirrored
    <3>6. TpKnown(k)'
      BY <1>a, <1>n, <3>1, <3>4, TpStays
    <3> QED BY <1>a, <1>n, <3>1, <3>2, <3>3, <3>4, <3>5, <3>6, Eases
  <2>4. CASE Loaded
    BY <2>4, <1>g DEF Quiet, Loaded, rows, ledger, engine, memory, account, hand, cockpit, Early,
             InHand
  <2>5. ASSUME NEW n \in Orders, Resolve(n)
        PROVE  LotOK(k)'
    <3>1. /\ UNCHANGED <<rows, engine, book, work, day, session, loaded, pc, cur>> /\ pc = "resolve" /\ n \in todo
          /\ (jour' = jour \/ jour' = [jour EXCEPT ![n] = "void"])
      BY <2>5 DEF Resolve, account, hand, memory
    <3>2. jour[n] = "pre"
      BY <3>1 DEF Resolving
    <3> QED BY <1>c, <1>g, <3>1, <3>2 DEF Quiet, InHand, Early
  <2> QED BY <1>1, <2>1, <2>2, <2>3, <2>4, <2>5 DEF Following
<1>2. CASE Polling
  <2>1. ASSUME NEW n \in Orders, PollWaits(n)
        PROVE  LotOK(k)'
    BY <2>1, <1>g DEF Quiet, PollWaits, rows, ledger, engine, memory, account, hand, cockpit, Early,
             InHand
  <2>2. ASSUME NEW n \in Orders, PollEnds(n)
        PROVE  LotOK(k)'
    BY <2>2, <1>g DEF Quiet, PollEnds, Take, rows, ledger, engine, memory, account, hand, cockpit,
             Early, InHand
  <2>3. ASSUME NEW n \in Orders, PollCloses(n)
        PROVE  LotOK(k)'
    BY <2>3, <1>g DEF Quiet, PollCloses, Take, rows, ledger, engine, memory, account, hand, cockpit,
             Early, InHand
  <2>4. CASE Cancel
    <3>1. /\ pc = "cancel" /\ UNCHANGED <<rows, engine, jour, work, day, session, loaded>>
          /\ InHand' = InHand /\ ~Early
          /\ (UNCHANGED book \/ (Live(cur) /\ book' = [book EXCEPT ![cur].state = "dead"]))
      BY <2>4 DEF Cancel, account, memory, InHand, Early
    <3>2. SameLot(k) /\ SameTrack(k)
      BY <3>1 DEF SameLot, SameTrack, rows, engine
    <3>3. CASE UNCHANGED book
      BY <1>l, <3>1, <3>2, <3>3
    <3>4. CASE Live(cur) /\ book' = [book EXCEPT ![cur].state = "dead"]
      <4>1. cur \in Made
        BY <3>1, CurMade
      <4>2. Dies(cur)
        BY <3>4, <4>1, DieIs
      <4> QED BY <1>h, <3>1, <3>2, <4>2
    <3> QED BY <3>1, <3>3, <3>4
  <2>5. CASE CancelFails
    BY <2>5, <1>g DEF Quiet, CancelFails, Return, rows, ledger, engine, memory, account, hand,
             cockpit, Early, InHand
  <2>6. CASE PollsDone
    BY <2>6, <1>g DEF Quiet, PollsDone, Phase, Backs, rows, ledger, engine, memory, account, hand,
             cockpit, Early, InHand
  <2>7. CASE FinNothing
    BY <2>7, <1>g DEF Quiet, FinNothing, rows, ledger, engine, memory, account, hand, cockpit, Early,
             InHand
  <2>8. CASE FinRecord
    BY <2>8, <1>g DEF Quiet, FinRecord, rows, ledger, engine, memory, account, hand, cockpit, Early,
             InHand
  <2>9. CASE FinReduce
    <3>1. /\ pc = "finReduce" /\ pc' = "finDone" /\ UNCHANGED <<row, jour, book, work, day, session, loaded>>
          /\ pos' = [pos EXCEPT ![lot] = pos[lot] - seen] /\ ptp' = [ptp EXCEPT ![lot] = 0]
          /\ \/ qty' = [qty EXCEPT ![lot] = pos[lot] - seen] /\ tp' = [tp EXCEPT ![lot] = 0]
             \/ UNCHANGED <<qty, tp>> /\ lot \in astray'
      BY <2>9 DEF FinReduce, Remainder, account, memory
    <3>2. SameOrders(k) /\ SameTrack(k) /\ SameTime
      BY <3>1 DEF SameOrders, SameTrack, SameTime, InHand, Early, Of, Made
    <3>3. CASE k # lot
      BY <1>c, <1>f, <3>1, <3>2, <3>3 DEF Frame, SameLot
    <3>4. CASE k = lot
      <4>1. HandSure /\ pos[k] > 0 /\ seen > 0 /\ pos[k] - seen > 0
        BY <1>b, <3>1, <3>4 DEF Handy, Has, Remainder
      <4>2. row[k] = "open" /\ pos[k] = qty[k]
        BY <1>c, <1>e, <4>1
      <4>3. (session = "open" => \A m \in Of(k) : ~Live(m)) /\ FilledOf(k) - seen + qty[k] <= EntryQty[k]
        BY <1>a, <3>1, <3>4, <4>1, <4>2, FinKnown DEF FinPCs
      <4>4. /\ qty'[k] = qty[k] - seen /\ pos'[k] = qty'[k] /\ tp'[k] = 0 /\ ptp'[k] = 0 /\ row'[k] = row[k]
        BY <1>c, <3>1, <3>4, <4>2
      <4>5. Mirrored(k)'
        BY <4>2, <4>4 DEF Mirrored
      <4>6. qty'[k] \in Nat /\ qty'[k] <= qty[k] /\ FilledOf(k) + qty'[k] <= EntryQty[k]
        <5>1. FilledOf(k) \in Nat /\ EntryQty[k] \in Nat /\ qty[k] \in Nat
          BY <1>c, OrdersOf, ExitAssumption
        <5> QED BY <1>c, <4>1, <4>2, <4>3, <4>4, <5>1
      <4> QED BY <1>a, <1>d, <3>2, <4>2, <4>3, <4>4, <4>5, <4>6, SettleKeeps
    <3> QED BY <3>3, <3>4
  <2>10. CASE FinClose
    <3>1. /\ pc = "finClose" /\ UNCHANGED <<qty, tp, jour, book, work, day, session, loaded>>
          /\ InHand' = InHand /\ ~Early
          /\ \/ row' = [row EXCEPT ![lot] = "closed"] /\ pos' = [pos EXCEPT ![lot] = 0] /\ ptp' = [ptp EXCEPT ![lot] = 0]
             \/ UNCHANGED <<row, pos, ptp>>
      BY <2>10 DEF FinClose, CloseLot, engine, account, memory, InHand, Early
    <3>2. SameOrders(k) /\ SameTrack(k) /\ SameTime
      BY <3>1 DEF SameOrders, SameTrack, SameTime, Of, Made
    <3>3. CASE SameLot(k)
      BY <1>f, <3>2, <3>3 DEF Frame
    <3>4. CASE ~SameLot(k)
      <4>1. k = lot /\ row'[k] = "closed" /\ pos'[k] = 0 /\ ptp'[k] = 0 /\ tp'[k] = tp[k] /\ qty'[k] = qty[k]
        BY <1>c, <3>1, <3>4 DEF SameLot
      <4>4. session = "open" => \A m \in Of(k) : ~Live(m)
        BY <1>a, <1>b, <3>1, <4>1, FinKnown DEF FinPCs, Handy
      <4>5. Mirrored(k)'
        BY <4>1 DEF Mirrored
      <4> QED BY <1>a, <1>c, <3>2, <4>1, <4>4, <4>5, SettleKeeps
    <3> QED BY <3>3, <3>4
  <2>11. CASE FinDone
    <3>1. /\ pc = "finDone" /\ UNCHANGED <<rows, engine, book, day, session, loaded>> /\ InHand' = 0 /\ InHand = 0
          /\ ~Early /\ work' = work \ {cur}
          /\ \/ jour' = [jour EXCEPT ![cur] = IF @ = "open" THEN "done" ELSE @]
             \/ jour' = jour /\ (seen > 0 => lot \in astray')
      BY <2>11 DEF FinDone, Return, account, memory, InHand, Early
    <3>2. cur \in Of(lot) /\ cur \in Orders
      <4>1. cur \in Of(lot)
        BY <1>i, <3>1 DEF FinPCs
      <4> QED BY <4>1, OrdersOf
    <3>3. SameOrders(k) /\ SameLot(k) /\ SameTime
      BY <3>1 DEF SameOrders, SameLot, SameTime, rows, engine, Of, Made
    <3>4. CASE k # lot
      <4>1. cur \notin Of(k)
        BY <3>2, <3>4 DEF Of
      <4>2. SameTrack(k)
        BY <1>c, <1>d, <3>1, <3>2, <4>1 DEF SameTrack
      <4> QED BY <1>f, <3>3, <4>2 DEF Frame
    <3>5. CASE k = lot
      <4>1. /\ cur \in Of(k) /\ ~Live(cur) /\ seen = book[cur].filled
            /\ seen > 0 /\ row[k] = "open" => FilledOf(k) + qty[k] <= EntryQty[k]
        BY <1>b, <3>1, <3>2, <3>5 DEF HandSure, FinPCs
      <4>2. seen > 0 => jour' = [jour EXCEPT ![cur] = IF @ = "open" THEN "done" ELSE @]
        BY <3>1, <3>5
      <4>3. /\ \A m \in Of(k) \ {cur} : jour'[m] = jour[m] /\ (m \in work' <=> m \in work)
            /\ cur \notin work' /\ (seen > 0 => jour'[cur] # "open") /\ (jour'[cur] = "open" => jour[cur] = "open")
        BY <1>c, <1>d, <3>1, <3>2, <4>2
      <4>4. Active(cur) => seen > 0
        BY <1>d, <4>1 DEF Active
      <4>5. /\ row'[k] = row[k] /\ qty'[k] = qty[k] /\ tp'[k] = tp[k] /\ pos'[k] = pos[k] /\ ptp'[k] = ptp[k]
        BY <3>3 DEF SameLot
      <4>6. Tracked(k)' \subseteq Tracked(k) /\ \A m \in Tracked(k) \ Tracked(k)' : m = cur
        BY <1>n, <3>1, <4>1, <4>3, <4>5 DEF Tracked
      <4>7. Worked(k)'
        <5>1. \A m \in Of(k) \ {cur} : /\ m \in work => jour[m] = "open"
                                       /\ jour[m] = "open" /\ m \notin work => ~Active(m)
          BY <1>a, <3>1 DEF LotOK, Worked
        <5>2. \A m \in Of(k) \ {cur} : /\ m \in work' => jour'[m] = "open"
                                       /\ jour'[m] = "open" /\ m \notin work' => ~Active(m)'
          BY <1>n, <3>1, <4>3, <5>1
        <5>3. cur \notin work' /\ (jour'[cur] = "open" => ~Active(cur))
          BY <4>3, <4>4
        <5>4. PICK c \in Of(k) : c = cur
          BY <4>1
        <5>5. c \notin work' /\ (jour'[c] = "open" => ~Active(c)')
          BY <1>n, <3>1, <5>3, <5>4
        <5> QED BY <1>n, <3>1, <5>2, <5>4, <5>5 DEF Worked
      <4>8. Mirrored(k)'
        BY <1>a, <4>5 DEF LotOK, Mirrored
      <4>9. TpKnown(k)'
        BY <1>a, <1>n, <3>1, <4>5, TpStays
      <4>10. \A m \in Tracked(k) \ Tracked(k)' :
                /\ ~Live(m)'
                /\ row[k] = "open" /\ m \in Pending(k) => FilledOf(k) + qty[k] <= EntryQty[k]
        <5>1. ~Live(cur) /\ (row[k] = "open" /\ cur \in Pending(k) => FilledOf(k) + qty[k] <= EntryQty[k])
          BY <4>1, <4>4 DEF Pending
        <5> QED BY <1>n, <3>1, <4>1, <4>6, <5>1
      <4> QED BY <1>a, <1>n, <3>1, <4>5, <4>6, <4>7, <4>8, <4>9, <4>10, Eases
    <3> QED BY <3>4, <3>5
  <2> QED BY <1>2, <2>1, <2>2, <2>3, <2>4, <2>5, <2>6, <2>7, <2>8, <2>9, <2>10, <2>11 DEF Polling
<1>3. CASE Profits
  <2>1. CASE TpRecord
    BY <2>1, <1>g DEF Quiet, TpRecord, rows, ledger, engine, memory, account, hand, cockpit, Early,
             InHand
  <2>2. CASE TpClose
    <3>1. /\ pc = "tpClose" /\ UNCHANGED <<qty, tp, jour, book, work, day, session, loaded>>
          /\ InHand' = InHand /\ ~Early
          /\ \/ row' = [row EXCEPT ![lot] = "closed"] /\ pos' = [pos EXCEPT ![lot] = 0] /\ ptp' = [ptp EXCEPT ![lot] = 0]
             \/ UNCHANGED <<row, pos, ptp>>
      BY <2>2 DEF TpClose, CloseLot, engine, account, memory, InHand, Early, Return, Backs, TpPCs
    <3>2. SameOrders(k) /\ SameTrack(k) /\ SameTime
      BY <3>1 DEF SameOrders, SameTrack, SameTime, Of, Made
    <3>3. CASE SameLot(k)
      BY <1>f, <3>2, <3>3 DEF Frame
    <3>4. CASE ~SameLot(k)
      <4>1. k = lot /\ row'[k] = "closed" /\ pos'[k] = 0 /\ ptp'[k] = 0 /\ tp'[k] = tp[k] /\ qty'[k] = qty[k]
        BY <1>c, <3>1, <3>4 DEF SameLot
      <4>2. /\ HandSure /\ cur \in Of(k) /\ seen > 0
            /\ ~Live(cur) /\ cur = tp[k] /\ seen = book[cur].filled
        BY <1>b, <3>1, <4>1 DEF Handy, HandTp, HandSure, TpPCs
      <4>3. cur \in Pending(k)
        BY <4>2 DEF Pending, Tracked, Active
      <4>4. session = "open" => \A m \in Of(k) : ~Live(m)
        BY <1>a, <4>2, <4>3, OnlyPending
      <4>5. Mirrored(k)'
        BY <4>1 DEF Mirrored
      <4> QED BY <1>a, <1>c, <3>2, <4>1, <4>4, <4>5, SettleKeeps
    <3> QED BY <3>3, <3>4
  <2>3. CASE TpChecked
    BY <2>3, <1>g DEF Quiet, TpChecked, Phase, rows, ledger, engine, memory, account, hand, cockpit,
             Early, InHand
  <2>4. CASE DayRecord
    BY <2>4, <1>g DEF Quiet, DayRecord, rows, ledger, engine, memory, account, hand, cockpit, Early,
             InHand
  <2>5. CASE DayReduce
    <3>1. /\ pc = "dayReduce" /\ pc' = "expire" /\ UNCHANGED <<row, jour, book, work, day, session, loaded>>
          /\ \/ /\ pos' = [pos EXCEPT ![lot] = pos[lot] - seen] /\ ptp' = [ptp EXCEPT ![lot] = 0]
                /\ qty' = [qty EXCEPT ![lot] = pos[lot] - seen] /\ tp' = [tp EXCEPT ![lot] = 0]
             \/ UNCHANGED <<qty, tp, pos, ptp>>
      BY <2>5 DEF DayReduce, Return, Remainder, account, memory, engine
    <3>2. SameOrders(k) /\ SameTrack(k) /\ SameTime
      BY <3>1 DEF SameOrders, SameTrack, SameTime, InHand, Early, Of, Made
    <3>3. CASE SameLot(k)
      BY <1>f, <3>2, <3>3 DEF Frame
    <3>4. CASE ~SameLot(k)
      <4>0. /\ k = lot /\ qty'[k] = pos[k] - seen /\ pos'[k] = pos[k] - seen /\ tp'[k] = 0 /\ ptp'[k] = 0
            /\ row'[k] = row[k]
        BY <1>c, <3>1, <3>4 DEF SameLot
      <4>1. /\ HandSure /\ pos[k] > 0 /\ 0 < seen /\ seen < pos[k] /\ cur = ptp[k] /\ cur # 0
            /\ seen = book[cur].filled /\ (session = "closed" \/ ~Live(cur))
        BY <1>b, <3>1, <4>0 DEF Handy, HandDay, HandSure, DayPCs, Has
      <4>2. row[k] = "open" /\ pos[k] = qty[k]
        BY <1>c, <1>e, <4>1
      <4>3. cur \in Of(k) /\ Active(cur)
        BY <4>1 DEF Referred, NoneOr, Active
      <4>4. cur \in Pending(k)
        BY <1>a, <4>1, <4>2, <4>3 DEF LotOK, TpKnown, Pending, Tracked
      <4>5. /\ session = "open" => \A m \in Of(k) : ~Live(m)
            /\ FilledOf(k) - seen + qty[k] <= EntryQty[k]
        <5>1. session = "open" => \A m \in Of(k) : ~Live(m)
          BY <1>a, <4>1, <4>4, OnlyPending
        <5>2. FilledOf(k) - seen + qty[k] <= EntryQty[k]
          BY <1>a, <4>1, <4>2, <4>4 DEF LotOK, Balanced
        <5> QED BY <5>1, <5>2
      <4>6. Mirrored(k)'
        BY <4>0, <4>2 DEF Mirrored
      <4>7. qty'[k] \in Nat /\ qty'[k] <= qty[k] /\ FilledOf(k) + qty'[k] <= EntryQty[k]
        <5>1. FilledOf(k) \in Nat /\ EntryQty[k] \in Nat /\ qty[k] \in Nat
          BY <1>c, OrdersOf, ExitAssumption
        <5> QED BY <1>c, <4>0, <4>1, <4>2, <4>5, <5>1
      <4> QED BY <1>a, <1>d, <3>2, <4>0, <4>2, <4>5, <4>6, <4>7, SettleKeeps
    <3> QED BY <3>3, <3>4
  <2>6. CASE DayClear
    <3>1. /\ pc = "dayClear" /\ pc' = "expire" /\ UNCHANGED <<row, qty, pos, jour, book, work, day, session, loaded>>
          /\ (tp' = tp \/ tp' = [tp EXCEPT ![lot] = 0]) /\ (ptp' = ptp \/ ptp' = [ptp EXCEPT ![lot] = 0])
          /\ \/ ptp' = ptp /\ tp' = tp
             \/ ptp' = [ptp EXCEPT ![lot] = 0] /\ tp' = [tp EXCEPT ![lot] = 0]
      BY <2>6 DEF DayClear, Return, account, memory
    <3>2. SameOrders(k) /\ SameTrack(k) /\ SameTime /\ ~Early
      BY <3>1 DEF SameOrders, SameTrack, SameTime, InHand, Early, Of, Made
    <3>3. CASE SameLot(k)
      BY <1>f, <3>2, <3>3 DEF Frame
    <3>4. CASE ~SameLot(k)
      <4>0. /\ k = lot /\ qty'[k] = qty[k] /\ pos'[k] = pos[k] /\ tp'[k] \in {0, tp[k]} /\ ptp'[k] = 0
            /\ row'[k] = row[k] /\ tp'[k] = 0
        BY <1>c, <3>1, <3>4 DEF SameLot
      <4>1. /\ HandSure /\ pos[k] > 0 /\ cur = ptp[k] /\ book[cur].filled = 0 /\ (session = "closed" \/ ~Live(cur))
        BY <1>b, <3>1, <4>0 DEF Handy, HandDay, HandSure, DayPCs, Has
      <4>2. row[k] = "open"
        BY <1>c, <1>e, <4>1
      <4>3. ASSUME NEW m \in Of(k), m = tp[k], Active(m) PROVE m = cur
        BY <1>a, <4>1, <4>2, <4>3 DEF LotOK, TpKnown
      <4>4. ASSUME NEW m \in Pending(k), m = cur PROVE FilledOf(k) + qty[k] <= EntryQty[k]
        <5>1. FilledOf(k) - book[m].filled + qty[k] <= EntryQty[k]
          BY <1>a, <4>2 DEF LotOK, Balanced
        <5>2. FilledOf(k) \in Nat /\ book[m].filled = 0
          BY <4>1, <4>4, OrdersOf
        <5> QED BY <5>1, <5>2
      <4>5. \A m \in Of(k) : m = tp[k] => /\ session = "open" => ~Live(m)
                                          /\ m \in Pending(k) => FilledOf(k) + qty[k] <= EntryQty[k]
        <5>1. ASSUME NEW m \in Of(k), m = tp[k], session = "open", Live(m) PROVE FALSE
          BY <4>1, <4>3, <5>1 DEF Active
        <5>2. ASSUME NEW m \in Of(k), m = tp[k], m \in Pending(k) PROVE FilledOf(k) + qty[k] <= EntryQty[k]
          BY <4>3, <4>4, <5>2 DEF Pending
        <5> QED BY <5>1, <5>2
      <4>6. /\ Of(k)' = Of(k)
            /\ \A m \in Of(k) : book'[m].filled = book[m].filled /\ book'[m].size = book[m].size /\ (Live(m)' <=> Live(m))
                                /\ (Active(m)' <=> Active(m))
        BY <3>2 DEF SameOrders, Live, Active
      <4>7. Mirrored(k)' /\ Worked(k)'
        BY <1>a, <3>2, <4>0, <4>6 DEF LotOK, Mirrored, Worked, SameTrack
      <4>8. TpKnown(k)'
        BY <1>d, <4>0, <4>5, <4>6 DEF TpKnown
      <4>9. Tracked(k)' \subseteq Tracked(k) /\ \A m \in Tracked(k) \ Tracked(k)' : m = tp[k] /\ m \in Of(k)
        BY <1>d, <3>2, <4>0, <4>6 DEF Tracked, SameTrack
      <4> QED BY <1>a, <3>1, <4>0, <4>5, <4>6, <4>7, <4>8, <4>9, Eases
    <3> QED BY <3>3, <3>4
  <2>7. CASE Expired
    BY <2>7, <1>g DEF Quiet, Expired, rows, ledger, engine, memory, account, hand, cockpit, Early,
             InHand
  <2>8. ASSUME NEW l \in Lots, TpCheck(l)
        PROVE  LotOK(k)'
    BY <2>8, <1>g DEF Quiet, TpCheck, Take, rows, ledger, engine, memory, account, hand, cockpit,
             Early, InHand
  <2>9. ASSUME NEW l \in Lots, Expire(l)
        PROVE  LotOK(k)'
    BY <2>9, <1>g DEF Quiet, Expire, Take, rows, ledger, engine, memory, account, hand, cockpit,
             Early, InHand
  <2> QED BY <1>3, <2>1, <2>2, <2>3, <2>4, <2>5, <2>6, <2>7, <2>8, <2>9 DEF Profits
<1>4. CASE Syncing
  <2>1. CASE SyncFails
    BY <2>1, <1>g DEF Quiet, SyncFails, rows, ledger, engine, memory, account, hand, cockpit, Early,
             InHand
  <2>2. CASE SyncVanished
    BY <2>2, <1>g DEF Quiet, SyncVanished, Phase, rows, ledger, engine, memory, account, hand,
             cockpit, Early, InHand
  <2>3. CASE SyncLots
    <3>1. /\ pc = "sync" /\ pc' = "plan" /\ UNCHANGED <<row, qty, tp, jour, book, work, day, session, loaded>>
          /\ (pos'[k] = pos[k] /\ ptp'[k] = ptp[k]) \/ (row[k] = "open" /\ pos'[k] = qty[k] /\ ptp'[k] = tp[k])
      BY <2>3 DEF SyncLots, rows, account, memory, OpenLots
    <3>2. SameOrders(k) /\ SameTrack(k) /\ SameTime /\ ~Early
      BY <3>1 DEF SameOrders, SameTrack, SameTime, InHand, Early, Of, Made
    <3>3. /\ Of(k)' = Of(k)
          /\ \A m \in Of(k) : book'[m] = book[m] /\ (Live(m)' <=> Live(m)) /\ (Active(m)' <=> Active(m))
      BY <3>2 DEF SameOrders, Live, Active
    <3>4. Mirrored(k)' /\ Worked(k)'
      BY <1>a, <3>1, <3>2, <3>3 DEF LotOK, Mirrored, Worked, SameTrack
    <3>5. TpKnown(k)'
      BY <1>a, <3>1, <3>3, TpStays
    <3>6. Tracked(k)' = Tracked(k)
      BY <3>1, <3>2, <3>3 DEF Tracked, SameTrack
    <3> QED BY <1>a, <3>1, <3>3, <3>4, <3>5, <3>6, Eases
  <2>4. CASE Vanished
    BY <2>4, <1>g DEF Quiet, Vanished, rows, ledger, engine, memory, account, hand, cockpit, Early,
             InHand
  <2>5. CASE ShrRecord
    BY <2>5, <1>g DEF Quiet, ShrRecord, rows, ledger, engine, memory, account, hand, cockpit, Early,
             InHand
  <2>6. CASE ShrReduce
    <3>1. /\ pc = "shrReduce" /\ pc' = "plan" /\ UNCHANGED <<row, jour, book, work, day, session, loaded>>
          /\ \/ /\ qty' = [qty EXCEPT ![lot] = seen] /\ tp' = [tp EXCEPT ![lot] = 0]
                /\ pos' = [pos EXCEPT ![lot] = seen] /\ ptp' = [ptp EXCEPT ![lot] = tp[lot]]
             \/ UNCHANGED <<qty, tp, pos, ptp>>
          /\ Slips(lot, tp[lot]) \subseteq astray'
      BY <2>6 DEF ShrReduce, Return, account, memory, engine
    <3>2. SameOrders(k) /\ SameTrack(k) /\ SameTime /\ ~Early /\ InHand = 0
      BY <3>1 DEF SameOrders, SameTrack, SameTime, InHand, Early, Of, Made
    <3>3. CASE SameLot(k)
      BY <1>f, <3>2, <3>3 DEF Frame
    <3>4. CASE ~SameLot(k)
      <4>0. /\ k = lot /\ qty'[k] = seen /\ pos'[k] = seen /\ tp'[k] = 0 /\ ptp'[k] = tp[k] /\ row'[k] = row[k]
        BY <1>c, <3>1, <3>4 DEF SameLot
      <4>1. /\ HandSure /\ row[k] = "open" /\ ~Working(k) /\ seen < qty[k]
            /\ tp[k] = 0 \/ ~Live(tp[k]) \/ book[tp[k]].filled > 0
        BY <1>b, <3>1, <4>0 DEF Handy, HandShr, HandSure, ShrPCs, OpenLots
      <4>2. tp[k] # 0 => ~Active(tp[k])
        <5>1. tp[k] # 0 => ~(book[tp[k]].filled > 0)
          BY <3>1, <4>0 DEF Slips
        <5> QED BY <4>1, <5>1 DEF Active
      <4>3. Pending(k) = {} /\ (session = "open" => \A n \in Of(k) : ~Live(n))
        BY <1>a, <3>2, <4>1, <4>2, NonePending
      <4>4. FilledOf(k) + qty[k] <= EntryQty[k]
        BY <1>a, <4>1, <4>3 DEF LotOK, Balanced
      <4>5. Mirrored(k)'
        BY <4>0, <4>1 DEF Mirrored
      <4>6. qty'[k] \in Nat /\ qty'[k] <= qty[k] /\ FilledOf(k) + qty'[k] <= EntryQty[k]
        <5>1. FilledOf(k) \in Nat /\ EntryQty[k] \in Nat /\ qty[k] \in Nat
          BY <1>c, OrdersOf, ExitAssumption
        <5> QED BY <1>c, <4>0, <4>1, <4>4, <5>1
      <4>7. \A n \in Of(k) : n \in {tp'[k], ptp'[k]} => ~Active(n)
        BY <1>d, <4>0, <4>2
      <4> QED BY <1>a, <3>2, <4>0, <4>1, <4>3, <4>5, <4>6, <4>7, SettleKeeps
    <3> QED BY <3>3, <3>4
  <2>7. CASE ManRecord
    BY <2>7, <1>g DEF Quiet, ManRecord, rows, ledger, engine, memory, account, hand, cockpit, Early,
             InHand
  <2>8. CASE ManClose
    <3>1. /\ pc = "manClose" /\ UNCHANGED <<qty, tp, jour, book, work, day, session, loaded>>
          /\ InHand' = InHand /\ ~Early
          /\ \/ row' = [row EXCEPT ![lot] = "closed"] /\ pos' = [pos EXCEPT ![lot] = 0] /\ ptp' = [ptp EXCEPT ![lot] = 0]
             \/ UNCHANGED <<row, pos, ptp>>
      BY <2>8 DEF ManClose, CloseLot, engine, account, memory, InHand, Early, Return, Backs, ManPCs
    <3>2. SameOrders(k) /\ SameTrack(k) /\ SameTime
      BY <3>1 DEF SameOrders, SameTrack, SameTime, Of, Made
    <3>3. CASE SameLot(k)
      BY <1>f, <3>2, <3>3 DEF Frame
    <3>4. CASE ~SameLot(k)
      <4>1. k = lot /\ row'[k] = "closed" /\ pos'[k] = 0 /\ ptp'[k] = 0 /\ tp'[k] = tp[k] /\ qty'[k] = qty[k]
        BY <1>c, <3>1, <3>4 DEF SameLot
      <4>4. session = "open" => \A m \in Of(k) : ~Live(m)
        <5>1. Held = 0
          BY <3>1 DEF Visited, ManPCs
        <5>2. \A m \in Made : ~Live(m)
          <6> SUFFICES ASSUME NEW m \in Made, Live(m) PROVE FALSE
            OBVIOUS
          <6>1. book[m].size - book[m].filled > 0 /\ book[m].size - book[m].filled <= 0
            BY <5>1, LiveHolds
          <6>2. book[m].size \in Nat /\ book[m].filled \in Nat
            BY Numbers DEF TypeOK, Order
          <6> QED BY <6>1, <6>2
        <5> QED BY <1>d, <5>2
      <4>5. Mirrored(k)'
        BY <4>1 DEF Mirrored
      <4> QED BY <1>a, <1>c, <3>2, <4>1, <4>4, <4>5, SettleKeeps
    <3> QED BY <3>3, <3>4
  <2>9. ASSUME NEW l \in Lots, SyncShrinks(l)
        PROVE  LotOK(k)'
    BY <2>9, <1>g DEF Quiet, SyncShrinks, Take, rows, ledger, engine, memory, account, hand, cockpit,
             Early, InHand
  <2>10. ASSUME NEW l \in Lots, VanishTp(l)
        PROVE  LotOK(k)'
    BY <2>10, <1>g DEF Quiet, VanishTp, Take, rows, ledger, engine, memory, account, hand, cockpit,
             Early, InHand
  <2>11. ASSUME NEW l \in Lots, VanishManual(l)
        PROVE  LotOK(k)'
    BY <2>11, <1>g DEF Quiet, VanishManual, Take, rows, ledger, engine, memory, account, hand, cockpit,
             Early, InHand
  <2> QED BY <1>4, <2>1, <2>2, <2>3, <2>4, <2>5, <2>6, <2>7, <2>8, <2>9, <2>10, <2>11 DEF Syncing
<1>5. CASE Selling
  <2>1. CASE MakePlan
    BY <2>1, <1>g DEF Quiet, MakePlan, rows, ledger, engine, memory, account, hand, cockpit, Early,
             InHand
  <2>2. CASE SellCancel
    <3>1. /\ pc = "sellCancel" /\ UNCHANGED <<rows, engine, jour, work, day, session, loaded>>
          /\ InHand' = InHand /\ ~Early
          /\ (UNCHANGED book \/ (Live(cur) /\ book' = [book EXCEPT ![cur].state = "dead"]))
      BY <2>2 DEF SellCancel, account, memory, InHand, Early, Return
    <3>2. SameLot(k) /\ SameTrack(k)
      BY <3>1 DEF SameLot, SameTrack, rows, engine
    <3>3. CASE UNCHANGED book
      BY <1>l, <3>1, <3>2, <3>3
    <3>4. CASE Live(cur) /\ book' = [book EXCEPT ![cur].state = "dead"]
      <4>1. cur \in Made
        BY <3>1, CurMade
      <4>2. Dies(cur)
        BY <3>4, <4>1, DieIs
      <4> QED BY <1>h, <3>1, <3>2, <4>2
    <3> QED BY <3>1, <3>3, <3>4
  <2>3. CASE SellCancelLost
    BY <2>3, <1>g DEF Quiet, SellCancelLost, Return, rows, ledger, engine, memory, account, hand,
             cockpit, Early, InHand
  <2>4. CASE ClearTp
    <3>1. /\ pc = "clearTp" /\ pc' = "journal" /\ UNCHANGED <<row, qty, pos, jour, book, work, day, session, loaded>>
          /\ (tp' = tp \/ tp' = [tp EXCEPT ![lot] = 0]) /\ (ptp' = ptp \/ ptp' = [ptp EXCEPT ![lot] = 0])
          /\ ptp' = [ptp EXCEPT ![lot] = 0]
      BY <2>4 DEF ClearTp, Return, account, memory
    <3>2. SameOrders(k) /\ SameTrack(k) /\ SameTime /\ ~Early
      BY <3>1 DEF SameOrders, SameTrack, SameTime, InHand, Early, Of, Made
    <3>3. CASE SameLot(k)
      BY <1>f, <3>2, <3>3 DEF Frame
    <3>4. CASE ~SameLot(k)
      <4>0. /\ k = lot /\ qty'[k] = qty[k] /\ pos'[k] = pos[k] /\ tp'[k] \in {0, tp[k]} /\ ptp'[k] = 0
            /\ row'[k] = row[k] /\ TRUE
        BY <1>c, <3>1, <3>4 DEF SameLot
      <4>1. HandSure /\ pos[k] > 0 /\ cur = ptp[k] /\ ~Active(cur)
        <5>1. lot \in Has /\ cur = ptp[lot]
          BY <3>1 DEF Handy, HandSell, SellPCs
        <5>2. HandSure
          BY <1>b, <4>0
        <5> QED BY <3>1, <4>0, <5>1, <5>2 DEF HandSure, Has
      <4>2. row[k] = "open"
        BY <1>c, <1>e, <4>1
      <4>5. \A m \in Of(k) : m = tp[k] => ~Active(m) /\ ~Live(m) /\ m \notin Pending(k)
        <5>1. \A m \in Of(k) : m = tp[k] => ~Active(m)
          BY <1>a, <4>1, <4>2 DEF LotOK, TpKnown
        <5> QED BY <5>1 DEF Active, Pending
      <4>6. /\ Of(k)' = Of(k)
            /\ \A m \in Of(k) : book'[m].filled = book[m].filled /\ book'[m].size = book[m].size /\ (Live(m)' <=> Live(m))
                                /\ (Active(m)' <=> Active(m))
        BY <3>2 DEF SameOrders, Live, Active
      <4>7. Mirrored(k)' /\ Worked(k)'
        BY <1>a, <3>2, <4>0, <4>6 DEF LotOK, Mirrored, Worked, SameTrack
      <4>8. TpKnown(k)'
        BY <1>d, <4>0, <4>5, <4>6 DEF TpKnown
      <4>9. Tracked(k)' \subseteq Tracked(k) /\ \A m \in Tracked(k) \ Tracked(k)' : m = tp[k] /\ m \in Of(k)
        BY <1>d, <3>2, <4>0, <4>6 DEF Tracked, SameTrack
      <4> QED BY <1>a, <3>1, <4>0, <4>5, <4>6, <4>7, <4>8, <4>9, Eases
    <3> QED BY <3>3, <3>4
  <2>5. CASE Journal
    <3>0. Len(book) \in Nat /\ Made = 1 .. Len(book) /\ Len(book) + 1 \notin Made /\ \A m \in Made : m # Len(book) + 1
      <4>1. Len(book) \in Nat /\ Made = 1 .. Len(book)
        BY Numbers DEF TypeOK
      <4> QED BY <4>1
    <3>1. /\ pc = "journal" /\ UNCHANGED <<rows, engine, work, day, session, loaded>> /\ InHand' = 0 /\ InHand = 0
          /\ ~Early /\ lot \in Lots
          /\ (jour' = jour \/ jour' = [jour EXCEPT ![Len(book) + 1] = "pre"])
      BY <2>5, CurMade DEF Journal, account, memory, InHand, Early, SellPCs
    <3>2. Appends("unsent")
      BY <2>5, <3>1, AddIs DEF Journal
    <3>3. /\ Of(k)' = IF k = lot THEN Of(k) \cup {Len(book) + 1} ELSE Of(k)
          /\ FilledOf(k)' = FilledOf(k)
          /\ \A m \in Of(k) : book'[m] = book[m]
      BY <3>2, FilledMore
    <3>4. CASE k # lot
      <4>1. SameOrders(k)
        BY <3>3, <3>4 DEF SameOrders
      <4>2. SameLot(k)
        BY <3>1 DEF SameLot, rows, engine
      <4>3. SameTime
        BY <3>1 DEF SameTime
      <4>4. SameTrack(k)
        <5>1. \A m \in Of(k) : m # Len(book) + 1 /\ (m = InHand' <=> m = InHand)
          BY <1>d, <3>0, <3>1, <3>4
        <5> QED BY <1>c, <1>d, <3>1, <5>1 DEF SameTrack
      <4> QED BY <1>f, <4>1, <4>2, <4>3, <4>4 DEF Frame
    <3>5. CASE k = lot
      <4>0. PICK o : o = Len(book) + 1
        OBVIOUS
      <4>1. /\ ~Live(o)' /\ ~Active(o)' /\ o \in Made' /\ Of(k)' = Of(k) \cup {o}
        <5>1. book'[o].state = "unsent" /\ book'[o].filled = 0 /\ o \in Made'
          BY <3>2, <4>0 DEF Appends
        <5> QED BY <3>3, <3>5, <4>0, <5>1 DEF Live, Active
      <4>2. \A m \in Of(k) : /\ (Live(m)' <=> Live(m)) /\ (Active(m)' <=> Active(m)) /\ book'[m] = book[m] /\ m # o
                             /\ (jour'[m] = "open") <=> (jour[m] = "open")
        <5>1. \A m \in Of(k) : (Live(m)' <=> Live(m)) /\ (Active(m)' <=> Active(m))
          BY <3>3 DEF Live, Active
        <5> QED BY <1>c, <1>d, <3>0, <3>1, <3>3, <4>0, <5>1
      <4>3. SameLot(k)
        BY <3>1 DEF SameLot, rows, engine
      <4>4. \A m \in Of(k)' : /\ Live(m)' => m \in Of(k) /\ Live(m)
                              /\ Active(m)' => m \in Of(k) /\ Active(m)
        BY <4>1, <4>2
      <4>5. Pending(k)' = Pending(k) /\ \A m \in Of(k) : m \in Tracked(k) => m \in Tracked(k)'
        <5>1. \A m \in Of(k) : m \in Tracked(k)' <=> m \in Tracked(k)
          BY <1>d, <3>1, <4>1, <4>2, <4>3 DEF Tracked, SameLot
        <5>2. Pending(k) \subseteq Of(k) /\ Pending(k)' \subseteq Of(k)'
          BY DEF Pending, Tracked
        <5>3. Pending(k)' \subseteq Of(k)
          BY <4>4, <5>2 DEF Pending
        <5>4. \A m \in Of(k) : m \in Pending(k)' <=> m \in Pending(k)
          BY <4>2, <5>1 DEF Pending
        <5> QED BY <5>1, <5>2, <5>3, <5>4
      <4>6. Mirrored(k)' /\ OnePending(k)'
        BY <1>a, <4>3, <4>5 DEF LotOK, Mirrored, OnePending, SameLot
      <4>7. Balanced(k)'
        <5>1. \A m \in Pending(k) : book'[m] = book[m]
          BY <4>2 DEF Pending, Tracked
        <5> QED BY <1>a, <3>3, <4>3, <4>5, <5>1 DEF LotOK, Balanced, SameLot
      <4>8. TpKnown(k)'
        BY <1>a, <3>1, <4>2, <4>3, <4>4 DEF LotOK, TpKnown, SameLot
      <4>9. Worked(k)'
        <5>1. work \subseteq Made
          BY DEF Referred
        <5>2. \A m \in Of(k)' : m \in work => m \in Of(k)
          BY <3>0, <4>0, <4>1, <5>1
        <5> QED BY <1>a, <3>1, <4>2, <4>4, <5>2 DEF LotOK, Worked
      <4>10. Offered(k)'
        BY <1>a, <3>1, <4>2, <4>3, <4>4, <4>5 DEF LotOK, Offered, SameLot
      <4> QED BY <4>6, <4>7, <4>8, <4>9, <4>10 DEF LotOK
    <3> QED BY <3>4, <3>5
  <2>6. CASE SubmitAccepted
    <3>1. /\ pc = "submit" /\ UNCHANGED <<rows, engine, jour, work, day, session, loaded>> /\ InHand' = cur /\ InHand = 0
          /\ ~Early /\ lot \in Lots /\ session = "open" /\ Accept(cur) /\ cur \in Made /\ Free >= seen
      BY <2>6, CurMade DEF SubmitAccepted, hand, account, memory, InHand, Early, SellPCs, NewPCs
    <3>2. Accepted(cur)
      BY <3>1, AcceptIs
    <3>3. /\ cur \in Of(lot) /\ (jour[cur] \in {"none", "pre"}) /\ tp[lot] # cur /\ book[cur].size = seen
          /\ lot \in Has /\ ~Working(lot) /\ seen <= pos[lot] /\ ptp[lot] = 0 /\ book[cur].filled = 0
      BY <3>1 DEF Handy, HandNew, HandSell, NewPCs, SellPCs, Ordered
    <3>4. /\ Of(k)' = Of(k) /\ \A m \in Of(k) \ {cur} : book'[m] = book[m]
          /\ \A m \in Of(k) : book'[m].filled = book[m].filled /\ book'[m].size = book[m].size
      BY <1>d, <3>2 DEF Accepted, OneChanges, Of
    <3>5. SameLot(k)
      BY <3>1 DEF SameLot, rows, engine
    <3>6. CASE k # lot
      <4>1. cur \notin Of(k)
        BY <3>3, <3>6 DEF Of
      <4>2. SameOrders(k) /\ SameTrack(k) /\ SameTime
        BY <1>d, <3>1, <3>4, <4>1 DEF SameOrders, SameTrack, SameTime
      <4> QED BY <1>f, <3>5, <4>2 DEF Frame
    <3>7. CASE k = lot
      <4>1. row[k] = "open" /\ pos[k] = qty[k]
        BY <1>c, <1>e, <3>3, <3>7 DEF Has
      <4>2. ~Working(k) /\ ptp[k] = 0 /\ tp[k] # cur
        BY <3>3, <3>7
      <4>3. tp[k] # 0 => ~Active(tp[k])
        BY <1>a, <4>1, <4>2 DEF LotOK, TpKnown, Referred, NoneOr
      <4>4. Pending(k) = {} /\ \A m \in Of(k) : ~Live(m)
        BY <1>a, <3>1, <4>2, <4>3, NonePending
      <4>5. FilledOf(k)' = FilledOf(k)
        BY <3>4, FilledSame
      <4>6. /\ \A m \in Of(k) : m \in Tracked(k) => m # cur
            /\ \A m \in Of(k) : m \in Tracked(k)' <=> m = cur \/ m \in Tracked(k)
            /\ cur \in Of(k)
        BY <1>d, <3>1, <3>3, <3>4, <3>5, <3>7 DEF Tracked, SameLot
      <4>7. \A m \in Of(k) \ {cur} : (Live(m)' <=> Live(m)) /\ (Active(m)' <=> Active(m))
        BY <3>4 DEF Live, Active
      <4>8. \A m \in Of(k) : Live(m)' => m = cur
        BY <4>4, <4>7
      <4>9. Pending(k)' \subseteq {cur}
        <5>1. \A m \in Of(k) \ {cur} : m \in Tracked(k)' /\ Active(m)' => m \in Pending(k)
          BY <4>6, <4>7 DEF Pending, Tracked
        <5>2. Pending(k)' = {m \in Tracked(k)' : Active(m)'} /\ Tracked(k)' \subseteq Of(k)
          BY <3>4 DEF Pending, Tracked
        <5> QED BY <4>4, <5>1, <5>2
      <4>10. OnePending(k)' /\ Mirrored(k)'
        BY <1>a, <3>5, <4>9 DEF LotOK, OnePending, Mirrored, SameLot
      <4>11. Balanced(k)'
        <5>1. FilledOf(k) \in Nat /\ FilledOf(k) <= EntryQty[k] /\ FilledOf(k) + qty[k] <= EntryQty[k]
          BY <1>a, <4>1, <4>4, OrdersOf DEF LotOK, Balanced
        <5>2. \A m \in Pending(k)' : book'[m].filled = 0
          BY <3>3, <3>4, <4>6, <4>9
        <5>3. qty'[k] = qty[k] /\ qty[k] \in Nat /\ EntryQty[k] \in Nat
          BY <1>c, <3>5, ExitAssumption DEF SameLot
        <5>4. \A m \in Pending(k)' : FilledOf(k)' - book'[m].filled + qty'[k] <= EntryQty[k]
          BY <4>5, <5>1, <5>2, <5>3
        <5> QED BY <4>5, <5>1, <5>3, <5>4 DEF Balanced
      <4>12. TpKnown(k)'
        <5>1. tp'[k] = tp[k] /\ ptp'[k] = 0 /\ row'[k] = row[k]
          BY <3>5, <4>2 DEF SameLot
        <5>2. \A m \in Of(k) : m \in {tp[k], 0} => ~Active(m)'
          BY <1>d, <4>2, <4>3, <4>7
        <5> QED BY <3>4, <5>1, <5>2 DEF TpKnown
      <4>13. Worked(k)'
        <5>1. cur \notin work
          BY <3>3 DEF Working, Of
        <5>2. \A m \in Of(k) \ {cur} : /\ m \in work => jour[m] = "open"
                                       /\ jour[m] = "open" /\ m \notin work => ~Active(m)
          BY <1>a, <3>1 DEF LotOK, Worked
        <5> QED BY <3>1, <3>3, <3>4, <4>7, <5>1, <5>2 DEF Worked
      <4>14. Offered(k)'
        <5>1. row'[k] = "open" /\ qty'[k] = qty[k] /\ book'[cur].size <= qty[k]
          BY <3>3, <3>4, <3>5, <3>7, <4>1, <4>6 DEF SameLot
        <5> QED BY <3>4, <4>6, <4>8, <5>1 DEF Offered
      <4> QED BY <4>10, <4>11, <4>12, <4>13, <4>14 DEF LotOK
    <3> QED BY <3>6, <3>7
  <2>7. CASE SubmitRefused
    BY <2>7, <1>g DEF Quiet, SubmitRefused, rows, ledger, engine, memory, account, hand, cockpit,
             Early, InHand
  <2>8. CASE SubmitMaybe
    <3>1. /\ pc = "submit" /\ UNCHANGED <<rows, engine, jour, work, day, session, loaded>> /\ InHand' = 0 /\ InHand = 0
          /\ ~Early /\ cur \in Made
          /\ (UNCHANGED book \/ (session = "open" /\ Free >= seen /\ Accept(cur) /\ lot \in astray'))
      BY <2>8, CurMade DEF SubmitMaybe, account, memory, InHand, Early, SellPCs, NewPCs
    <3>2. SameLot(k)
      BY <3>1 DEF SameLot, rows, engine
    <3>3. CASE UNCHANGED book
      BY <1>l, <3>1, <3>2, <3>3
    <3>4. CASE ~UNCHANGED book
      <4>1. Accepted(cur) /\ k # lot
        BY <3>1, <3>4, AcceptIs
      <4>2. cur \notin Of(k)
        BY <1>j, <3>1, <4>1 DEF Of, NewPCs
      <4>3. SameOrders(k)
        BY <1>d, <4>1, <4>2 DEF Accepted, OneChanges, Of, SameOrders
      <4>4. SameTrack(k) /\ SameTime
        BY <3>1 DEF SameTrack, SameTime
      <4> QED BY <1>f, <3>2, <4>3, <4>4 DEF Frame
    <3> QED BY <3>3, <3>4
  <2>9. CASE Track
    <3>1. /\ pc = "track" /\ UNCHANGED <<rows, engine, book, day, session, loaded>> /\ InHand' = 0 /\ InHand = cur
          /\ ~Early /\ work' = work \cup {cur}
          /\ \/ jour' = [jour EXCEPT ![cur] = "open"]
             \/ jour' = jour /\ lot \in astray'
      BY <2>9 DEF Track, Return, account, memory, InHand, Early
    <3>2. cur \in Of(lot) /\ cur \in Orders
      <4>1. cur \in Of(lot)
        BY <1>j, <3>1 DEF NewPCs
      <4> QED BY <4>1, OrdersOf
    <3>3. SameOrders(k) /\ SameLot(k) /\ SameTime
      BY <3>1 DEF SameOrders, SameLot, SameTime, rows, engine, Of, Made
    <3>4. CASE k # lot
      <4>1. cur \notin Of(k)
        BY <3>2, <3>4 DEF Of
      <4>2. SameTrack(k)
        BY <1>c, <1>d, <3>1, <3>2, <4>1 DEF SameTrack
      <4> QED BY <1>f, <3>3, <4>2 DEF Frame
    <3>5. CASE k = lot
      <4>1. cur \in Of(k) /\ jour' = [jour EXCEPT ![cur] = "open"]
        BY <3>1, <3>2, <3>5
      <4>2. Tracked(k)' = Tracked(k)
        BY <1>c, <1>d, <1>n, <3>1, <3>2, <3>3, <4>1 DEF Tracked, SameLot
      <4>3. Worked(k)'
        BY <1>a, <1>c, <1>d, <1>n, <3>1, <3>2, <4>1 DEF LotOK, Worked
      <4>4. Mirrored(k)' /\ TpKnown(k)'
        <5>1. /\ row'[k] = row[k] /\ qty'[k] = qty[k] /\ tp'[k] = tp[k] /\ pos'[k] = pos[k] /\ ptp'[k] = ptp[k]
          BY <3>3 DEF SameLot
        <5>2. Mirrored(k)'
          BY <1>a, <5>1 DEF LotOK, Mirrored
        <5>3. TpKnown(k)'
          BY <1>a, <1>n, <3>1, <5>1, TpStays
        <5> QED BY <5>2, <5>3
      <4> QED BY <1>a, <1>n, <3>1, <3>3, <4>2, <4>3, <4>4, Eases DEF SameLot
    <3> QED BY <3>4, <3>5
  <2>10. CASE Unjournal
    <3>1. /\ UNCHANGED <<rows, engine, book, work, day, session, loaded>> /\ pc = "unjournal" /\ InHand' = 0
          /\ (jour' = jour \/ jour' = [jour EXCEPT ![cur] = IF @ = "pre" THEN "void" ELSE @])
      BY <2>10 DEF Unjournal, Return, account, hand, memory, InHand
    <3> QED BY <1>c, <1>g, <3>1 DEF Quiet, InHand, Early
  <2>11. CASE SellFailed
    BY <2>11, <1>g DEF Quiet, SellFailed, Return, rows, ledger, engine, memory, account, hand, cockpit,
             Early, InHand
  <2>12. CASE SellsDone
    BY <2>12, <1>g DEF Quiet, SellsDone, rows, ledger, engine, memory, account, hand, cockpit, Early,
             InHand
  <2>13. ASSUME NEW l \in Lots, NEW q \in 1 .. EntryQty[l], Sell(l, q)
        PROVE  LotOK(k)'
    BY <2>13, <1>g DEF Quiet, Sell, Take, rows, ledger, engine, memory, account, hand, cockpit, Early,
             InHand
  <2> QED BY <1>5, <2>1, <2>2, <2>3, <2>4, <2>5, <2>6, <2>7, <2>8, <2>9, <2>10, <2>11, <2>12,
             <2>13 DEF Selling
<1>6. CASE Delegating
  <2>1. CASE TpCancel
    <3>1. /\ pc = "tpCancel" /\ UNCHANGED <<rows, engine, jour, work, day, session, loaded>>
          /\ InHand' = InHand /\ ~Early
          /\ (UNCHANGED book \/ (Live(cur) /\ book' = [book EXCEPT ![cur].state = "dead"]))
      BY <2>1 DEF TpCancel, account, memory, InHand, Early, Return
    <3>2. SameLot(k) /\ SameTrack(k)
      BY <3>1 DEF SameLot, SameTrack, rows, engine
    <3>3. CASE UNCHANGED book
      BY <1>l, <3>1, <3>2, <3>3
    <3>4. CASE Live(cur) /\ book' = [book EXCEPT ![cur].state = "dead"]
      <4>1. cur \in Made
        BY <3>1, CurMade
      <4>2. Dies(cur)
        BY <3>4, <4>1, DieIs
      <4> QED BY <1>h, <3>1, <3>2, <4>2
    <3> QED BY <3>1, <3>3, <3>4
  <2>2. CASE TpCancelLost
    BY <2>2, <1>g DEF Quiet, TpCancelLost, Return, rows, ledger, engine, memory, account, hand,
             cockpit, Early, InHand
  <2>3. CASE TpAccepted
    <3>0. Len(book) \in Nat /\ Made = 1 .. Len(book) /\ Len(book) + 1 \notin Made /\ \A m \in Made : m # Len(book) + 1
      <4>1. Len(book) \in Nat /\ Made = 1 .. Len(book)
        BY Numbers DEF TypeOK
      <4> QED BY <4>1
    <3>1. /\ pc = "tpPlace" /\ UNCHANGED <<rows, engine, jour, work, day, session, loaded>> /\ InHand = 0
          /\ InHand' = Len(book) + 1 /\ ~Early /\ lot \in Lots /\ session = "open"
      BY <2>3, CurMade DEF TpAccepted, account, memory, InHand, Early, TpsPCs
    <3>2. Appends("live")
      BY <2>3, <3>1, AddIs DEF TpAccepted
    <3>3. /\ Of(k)' = IF k = lot THEN Of(k) \cup {Len(book) + 1} ELSE Of(k)
          /\ FilledOf(k)' = FilledOf(k)
          /\ \A m \in Of(k) : book'[m] = book[m]
      BY <3>2, FilledMore
    <3>4. CASE k # lot
      <4>1. SameOrders(k)
        BY <3>3, <3>4 DEF SameOrders
      <4>2. SameLot(k)
        BY <3>1 DEF SameLot, rows, engine
      <4>3. SameTime
        BY <3>1 DEF SameTime
      <4>4. SameTrack(k)
        <5>1. \A m \in Of(k) : m # Len(book) + 1 /\ (m = InHand' <=> m = InHand)
          BY <1>d, <3>0, <3>1, <3>4
        <5> QED BY <1>c, <1>d, <3>1, <5>1 DEF SameTrack
      <4> QED BY <1>f, <4>1, <4>2, <4>3, <4>4 DEF Frame
    <3>5. CASE k = lot
      <4>0. PICK o : o = Len(book) + 1
        OBVIOUS
      <4>1. /\ HandSure /\ lot \in Has /\ ~Working(lot) /\ seen = pos[lot]
            /\ ptp[lot] = 0 \/ ~Active(ptp[lot])
        BY <1>b, <3>1, <3>5 DEF Handy, HandTps, TpsPCs, HandSure
      <4>2. row[k] = "open" /\ pos[k] = qty[k] /\ seen = qty[k]
        BY <1>c, <1>e, <3>5, <4>1 DEF Has
      <4>3. tp[k] # 0 => ~Active(tp[k])
        BY <1>a, <3>5, <4>1, <4>2 DEF LotOK, TpKnown, Referred, NoneOr
      <4>4. Pending(k) = {} /\ \A m \in Of(k) : ~Live(m)
        BY <1>a, <3>1, <3>5, <4>1, <4>3, NonePending
      <4>5. /\ o \notin Made /\ o \notin work /\ o # tp[k] /\ o # ptp[k] /\ o # 0 /\ jour[o] # "open"
        <5>1. o \notin Made /\ o # 0
          BY <3>0, <4>0
        <5>2. o \notin work /\ o # tp[k] /\ o # ptp[k]
          BY <5>1 DEF Referred, NoneOr, Of
        <5>3. o \in Orders
          BY <3>0, <3>1, <4>0, ExitAssumption DEF Handy, Orders
        <5> QED BY <5>1, <5>2, <5>3 DEF Referred
      <4>6. /\ Of(k)' = Of(k) \cup {o} /\ o \in Made' /\ book'[o].filled = 0 /\ book'[o].size = seen
        BY <3>2, <3>3, <3>5, <4>0 DEF Appends
      <4>7. \A m \in Of(k) : (Live(m)' <=> Live(m)) /\ (Active(m)' <=> Active(m)) /\ m # o
        BY <1>d, <3>3, <4>5 DEF Live, Active
      <4>8. SameLot(k)
        BY <3>1 DEF SameLot, rows, engine
      <4>9. \A m \in Of(k)' : Live(m)' => m = o
        BY <4>4, <4>6, <4>7
      <4>10. o \in Tracked(k)' /\ \A m \in Of(k) : m \in Tracked(k)' <=> m \in Tracked(k)
        BY <1>d, <3>1, <4>0, <4>6, <4>7, <4>8 DEF Tracked, SameLot
      <4>11. Pending(k)' \subseteq {o}
        <5>1. \A m \in Of(k) : m \in Tracked(k)' /\ Active(m)' => m \in Pending(k)
          BY <4>7, <4>10 DEF Pending
        <5>2. Pending(k)' = {m \in Tracked(k)' : Active(m)'} /\ Tracked(k)' \subseteq Of(k) \cup {o}
          BY <4>6 DEF Pending, Tracked
        <5> QED BY <4>4, <5>1, <5>2
      <4>12. OnePending(k)' /\ Mirrored(k)'
        BY <1>a, <4>8, <4>11 DEF LotOK, OnePending, Mirrored, SameLot
      <4>13. Balanced(k)'
        <5>1. FilledOf(k) \in Nat /\ FilledOf(k) <= EntryQty[k] /\ FilledOf(k) + qty[k] <= EntryQty[k]
          BY <1>a, <4>2, <4>4, OrdersOf DEF LotOK, Balanced
        <5>2. \A m \in Pending(k)' : book'[m].filled = 0
          BY <4>6, <4>11
        <5>3. qty'[k] = qty[k] /\ qty[k] \in Nat /\ EntryQty[k] \in Nat
          BY <1>c, <4>8, ExitAssumption DEF SameLot
        <5>4. \A m \in Pending(k)' : FilledOf(k)' - book'[m].filled + qty'[k] <= EntryQty[k]
          BY <3>3, <5>1, <5>2, <5>3
        <5> QED BY <3>3, <5>1, <5>3, <5>4 DEF Balanced
      <4>14. TpKnown(k)'
        <5>1. tp'[k] = tp[k] /\ ptp'[k] = ptp[k] /\ row'[k] = row[k]
          BY <4>8 DEF SameLot
        <5>2. \A m \in Of(k) \cup {o} : m \in {tp[k], ptp[k]} => ~Active(m)'
          BY <1>d, <3>5, <4>1, <4>3, <4>5, <4>7
        <5> QED BY <4>6, <5>1, <5>2 DEF TpKnown
      <4>15. Worked(k)'
        <5>1. \A m \in Of(k) : /\ m \in work => jour[m] = "open"
                               /\ jour[m] = "open" /\ m \notin work => ~Active(m)
          BY <1>a, <3>1 DEF LotOK, Worked
        <5> QED BY <3>1, <4>5, <4>6, <4>7, <5>1 DEF Worked
      <4>16. Offered(k)'
        <5>1. row'[k] = "open" /\ qty'[k] = qty[k] /\ book'[o].size <= qty[k]
          BY <1>c, <4>2, <4>6, <4>8 DEF SameLot
        <5> QED BY <4>9, <4>10, <5>1 DEF Offered
      <4> QED BY <4>12, <4>13, <4>14, <4>15, <4>16 DEF LotOK
    <3> QED BY <3>4, <3>5
  <2>4. CASE TpRefused
    BY <2>4, <1>g DEF Quiet, TpRefused, Return, rows, ledger, engine, memory, account, hand, cockpit,
             Early, InHand
  <2>5. CASE TpMaybe
    <3>0. Len(book) \in Nat /\ Made = 1 .. Len(book) /\ Len(book) + 1 \notin Made /\ \A m \in Made : m # Len(book) + 1
      <4>1. Len(book) \in Nat /\ Made = 1 .. Len(book)
        BY Numbers DEF TypeOK
      <4> QED BY <4>1
    <3>1. /\ pc = "tpPlace" /\ UNCHANGED <<rows, engine, jour, work, day, session, loaded>> /\ InHand' = 0 /\ InHand = 0
          /\ ~Early /\ lot \in Lots /\ lot \in astray'
      BY <2>5, CurMade DEF TpMaybe, Return, account, memory, InHand, Early, TpsPCs
    <3>2. Appends("live")
      BY <2>5, <3>1, AddIs DEF TpMaybe
    <3>3. /\ Of(k)' = IF k = lot THEN Of(k) \cup {Len(book) + 1} ELSE Of(k)
          /\ FilledOf(k)' = FilledOf(k)
          /\ \A m \in Of(k) : book'[m] = book[m]
      BY <3>2, FilledMore
    <3>4. CASE k # lot
      <4>1. SameOrders(k)
        BY <3>3, <3>4 DEF SameOrders
      <4>2. SameLot(k)
        BY <3>1 DEF SameLot, rows, engine
      <4>3. SameTime
        BY <3>1 DEF SameTime
      <4>4. SameTrack(k)
        <5>1. \A m \in Of(k) : m # Len(book) + 1 /\ (m = InHand' <=> m = InHand)
          BY <1>d, <3>0, <3>1, <3>4
        <5> QED BY <1>c, <1>d, <3>1, <5>1 DEF SameTrack
      <4> QED BY <1>f, <4>1, <4>2, <4>3, <4>4 DEF Frame
    <3> QED BY <3>1, <3>4
  <2>6. CASE TpSave
    <3>1. /\ pc = "tpSave" /\ UNCHANGED <<row, book, jour, work, day, session, loaded>> /\ InHand' = 0 /\ InHand = cur
          /\ ~Early
          /\ \/ /\ qty' = [qty EXCEPT ![lot] = seen] /\ tp' = [tp EXCEPT ![lot] = cur]
                /\ pos' = [pos EXCEPT ![lot] = seen] /\ ptp' = [ptp EXCEPT ![lot] = cur]
             \/ UNCHANGED <<qty, tp, pos, ptp>> /\ lot \in astray'
      BY <2>6 DEF TpSave, Return, account, memory, engine, InHand, Early
    <3>2. cur \in Of(lot) /\ book[cur].size = seen /\ lot \in Has /\ seen = pos[lot]
      BY <3>1 DEF Handy, HandSave, HandTps, TpsPCs
    <3>3. SameOrders(k) /\ SameTime
      BY <3>1 DEF SameOrders, SameTime, Of, Made
    <3>4. CASE k # lot
      <4>1. cur \notin Of(k)
        BY <3>2, <3>4 DEF Of
      <4>2. SameTrack(k) /\ SameLot(k)
        BY <1>c, <1>d, <3>1, <3>4, <4>1 DEF SameTrack, SameLot
      <4> QED BY <1>f, <3>3, <4>2 DEF Frame
    <3>5. CASE k = lot
      <4>1. /\ qty'[k] = seen /\ tp'[k] = cur /\ pos'[k] = seen /\ ptp'[k] = cur /\ row'[k] = row[k]
            /\ cur \in Of(k) /\ InHand = cur /\ InHand' = 0 /\ cur # 0
        BY <1>c, <1>d, <3>1, <3>2, <3>5
      <4>2. row[k] = "open" /\ pos[k] = qty[k] /\ seen = qty[k]
        BY <1>c, <1>e, <3>2, <3>5 DEF Has
      <4>3. /\ ptp[k] = 0 \/ ~Active(ptp[k])
            /\ book[cur].filled > 0 => book[cur].day = day
        BY <1>b, <3>1, <3>5 DEF HandSure
      <4>4. tp[k] # 0 => ~Active(tp[k])
        BY <1>a, <4>2, <4>3 DEF LotOK, TpKnown, Referred, NoneOr
      <4>5. /\ Tracked(k)' \subseteq Tracked(k)
            /\ \A m \in Tracked(k) \ Tracked(k)' : m = tp[k] /\ m \in Of(k) /\ m # 0
        BY <1>d, <1>n, <3>1, <4>1 DEF Tracked
      <4>6. \A m \in Tracked(k) \ Tracked(k)' : ~Live(m)' /\ m \notin Pending(k)
        BY <1>n, <3>1, <4>4, <4>5 DEF Pending, Active
      <4>7. Mirrored(k)'
        BY <4>1, <4>2 DEF Mirrored
      <4>8. TpKnown(k)'
        BY <1>n, <3>1, <3>2, <4>1, <4>3 DEF TpKnown
      <4>9. Worked(k)'
        BY <1>a, <1>n, <3>1 DEF LotOK, Worked
      <4> QED BY <1>a, <1>n, <3>1, <4>1, <4>2, <4>5, <4>6, <4>7, <4>8, <4>9, Eases
    <3> QED BY <3>4, <3>5
  <2>7. CASE TickDone
    BY <2>7, <1>g DEF Quiet, TickDone, rows, ledger, engine, memory, account, hand, cockpit, Early,
             InHand
  <2>8. ASSUME NEW l \in Lots, PlanTp(l)
        PROVE  LotOK(k)'
    BY <2>8, <1>g DEF Quiet, PlanTp, Take, rows, ledger, engine, memory, account, hand, cockpit,
             Early, InHand
  <2>9. ASSUME NEW l \in Lots, ArmStop(l) \/ SetTimeExit(l)
        PROVE  LotOK(k)'
    <3>1. Rewrites(l)
      BY <2>9, UpdateIs
    <3>2. CASE k = l
      BY <1>a, <3>1, <3>2, RewriteKeeps
    <3>3. CASE k # l
      <4>1. UNCHANGED <<book, jour, work, day, session, loaded, pc>> /\ SameLot(k) /\ InHand' = InHand
        BY <1>c, <3>1, <3>3 DEF Rewrites, SameLot, account, engine, memory, InHand
      <4> QED BY <1>l, <4>1 DEF Early
    <3> QED BY <3>2, <3>3
  <2> QED BY <1>6, <2>1, <2>2, <2>3, <2>4, <2>5, <2>6, <2>7, <2>8, <2>9 DEF Delegating
<1>7. CASE World
  <2>1. ASSUME NEW n \in Made, FillOrder(n)
        PROVE  LotOK(k)'
    <3>1. UNCHANGED <<rows, engine, jour, work, day, session, loaded, pc, cur>>
      BY <2>1 DEF FillOrder, cockpit, account, memory, hand
    <3>2. SameLot(k) /\ SameTrack(k) /\ SameTime /\ (Early => Early')
      BY <3>1 DEF SameLot, SameTrack, SameTime, rows, engine, InHand, Early
    <3>3. Fills(n)
      BY <2>1, FillIs
    <3>4. Of(k)' = Of(k) /\ \A m \in Of(k) \ {n} : book'[m] = book[m]
      BY <1>d, <3>3 DEF Fills, OneChanges, Of
    <3>5. CASE n \notin Of(k)
      BY <1>f, <3>2, <3>4, <3>5 DEF Frame, SameOrders
    <3>6. CASE n \in Of(k)
      <4>1. /\ session = "open" /\ Live(n) /\ Active(n) /\ book'[n].filled = book[n].filled + 1
            /\ book'[n].size = book[n].size /\ book'[n].day = book[n].day /\ book[n].day = day
            /\ book[n].filled < book[n].size /\ book[n].size \in Nat /\ book[n].filled \in Nat
        BY <1>d, <3>3, <3>6, OrdersOf DEF Fills, OneChanges, Active, Ordered
      <4>2. n \in Pending(k) /\ row[k] = "open" /\ book[n].size <= qty[k]
        BY <1>a, <3>6, <4>1 DEF LotOK, Offered, Pending, Tracked
      <4>3. Pending(k) = {n}
        BY <1>a, <4>2 DEF LotOK, OnePending
      <4>4. /\ \A m \in Of(k) \ {n} : (Live(m)' <=> Live(m)) /\ (Active(m)' <=> Active(m))
            /\ Active(n)'
        <5>1. \A m \in Of(k) \ {n} : (Live(m)' <=> Live(m)) /\ (Active(m)' <=> Active(m))
          BY <3>4 DEF Live, Active
        <5>2. Active(n)'
          BY <4>1 DEF Active
        <5> QED BY <5>1, <5>2
      <4>5. \A m \in Of(k) : (Live(m)' => Live(m)) /\ (Active(m)' <=> Active(m)) /\ book'[m].size = book[m].size
        BY <3>4, <4>1, <4>4
      <4>6. Tracked(k)' = Tracked(k) /\ Pending(k)' = Pending(k)
        <5>1. Tracked(k)' = Tracked(k)
          BY <3>2, <3>4 DEF Tracked, SameTrack, SameLot
        <5> QED BY <4>5, <5>1 DEF Pending, Tracked
      <4>7. FilledOf(k)' = FilledOf(k) + 1 /\ FilledOf(k) \in Nat
        BY <3>3, <3>6, <4>1, FilledOne, OrdersOf DEF Fills
      <4>8. FilledOf(k) - book[n].filled + qty[k] <= EntryQty[k]
        BY <1>a, <4>2 DEF LotOK, Balanced
      <4>9. Balanced(k)'
        <5>1. row'[k] = row[k] /\ qty'[k] = qty[k]
          BY <3>2 DEF SameLot
        <5>2. EntryQty[k] \in Nat /\ qty[k] \in Nat
          BY <1>c, ExitAssumption
        <5>3. FilledOf(k)' <= EntryQty[k]
          BY <4>1, <4>2, <4>7, <4>8, <5>2
        <5>4. FilledOf(k)' - book'[n].filled + qty[k] <= EntryQty[k]
          BY <4>1, <4>7, <4>8, <5>2
        <5>5. Pending(k)' = {n}
          BY <4>3, <4>6
        <5> QED BY <5>1, <5>3, <5>4, <5>5 DEF Balanced
      <4>10. Mirrored(k)' /\ OnePending(k)'
        BY <1>a, <3>2, <4>3, <4>6 DEF LotOK, Mirrored, OnePending, SameLot
      <4>11. Worked(k)'
        BY <1>a, <3>2, <3>4, <4>5 DEF LotOK, Worked, SameTrack
      <4>12. Offered(k)'
        <5>1. /\ \A m, j \in Of(k) : Live(m) /\ Live(j) => m = j
              /\ \A m \in Of(k) : Live(m) => m \in Tracked(k) /\ row[k] = "open" /\ book[m].size <= qty[k]
          BY <1>a, <4>1 DEF LotOK, Offered
        <5>2. row'[k] = row[k] /\ qty'[k] = qty[k]
          BY <3>2 DEF SameLot
        <5> QED BY <3>4, <4>5, <4>6, <5>1, <5>2 DEF Offered
      <4>13. TpKnown(k)'
        <5>1. /\ row'[k] = row[k] /\ qty'[k] = qty[k] /\ tp'[k] = tp[k] /\ ptp'[k] = ptp[k] /\ day' = day
          BY <3>1, <3>2 DEF SameLot
        <5>2. ASSUME NEW m \in Of(k), m \in {tp[k], ptp[k]}, Active(m)
              PROVE  /\ tp[k] = m /\ ptp[k] = m /\ book[m].size = qty[k]
                     /\ (book[m].filled > 0 => book[m].day = day)
          BY <1>a, <4>2, <5>2 DEF LotOK, TpKnown
        <5>3. ASSUME NEW m \in Of(k), m \in {tp[k], ptp[k]}, Active(m)'
              PROVE  /\ tp[k] = m /\ ptp[k] = m /\ book'[m].size = qty[k]
                     /\ (book'[m].filled > 0 => book'[m].day = day)
          <6>1. Active(m)
            BY <4>5, <5>3
          <6>2. CASE m = n
            BY <4>1, <5>2, <5>3, <6>1, <6>2
          <6>3. CASE m # n
            BY <3>4, <5>2, <5>3, <6>1, <6>3
          <6> QED BY <6>2, <6>3
        <5> QED BY <3>4, <5>1, <5>3 DEF TpKnown
      <4> QED BY <4>9, <4>10, <4>11, <4>12, <4>13 DEF LotOK
    <3> QED BY <3>5, <3>6
  <2>2. ASSUME NEW n \in Made, KillOrder(n)
        PROVE  LotOK(k)'
    <3>1. /\ UNCHANGED <<rows, engine, jour, work, day, session, loaded, pc, cur>>
          /\ Live(n) /\ book' = [book EXCEPT ![n].state = "dead"]
      BY <2>2 DEF KillOrder, cockpit, account, memory, hand
    <3>2. SameLot(k) /\ SameTrack(k) /\ (Early => Early')
      BY <3>1 DEF SameLot, SameTrack, rows, engine, InHand, Early
    <3>3. Dies(n)
      BY <3>1, DieIs
    <3> QED BY <1>h, <3>1, <3>2, <3>3
  <2>3. CASE SellByHand
    BY <2>3, <1>g DEF Quiet, SellByHand, rows, ledger, engine, memory, account, hand, cockpit, Early,
             InHand
  <2>4. CASE CloseSession
    BY <2>4, <1>g DEF Quiet, CloseSession, rows, ledger, engine, memory, account, hand, cockpit,
             Early, InHand
  <2>5. CASE NewDay
    <3>1. /\ UNCHANGED <<rows, engine, jour, work, loaded, pc, cur>>
          /\ k \in OpenLots => ~\E n \in Of(k) : book[n].filled > 0 /\ n \notin told \ {tp[k]}
      BY <2>5 DEF NewDay, cockpit, memory, hand
    <3>2. SameLot(k) /\ SameTrack(k) /\ (Early => Early')
      BY <3>1 DEF SameLot, SameTrack, rows, engine, InHand, Early
    <3>3. Night
      BY <2>5, NightIs
    <3>4. /\ Of(k)' = Of(k)
          /\ \A m \in Of(k) : book'[m].filled = book[m].filled /\ book'[m].size = book[m].size /\ ~Live(m)'
      BY <1>d, <3>3 DEF Night, Of, Live
    <3>5. \A m \in Of(k) : ~(row[k] = "open" /\ m = tp[k] /\ book[m].filled > 0)
      BY <3>1 DEF OpenLots
    <3> QED BY <1>a, <3>2, <3>4, <3>5, EndKeeps
  <2>6. ASSUME NEW l \in Lots, RestOver(l)
        PROVE  LotOK(k)'
    BY <2>6, <1>g DEF Quiet, RestOver, rows, ledger, engine, memory, account, hand, cockpit, Early,
             InHand
  <2> QED BY <1>7, <2>1, <2>2, <2>3, <2>4, <2>5, <2>6 DEF World
<1>8. CASE Crash
  <3>1. /\ UNCHANGED <<rows, jour, book, day, session>> /\ work' = {} /\ Early' /\ InHand' = 0
        /\ pos'[k] = (IF row[k] = "open" THEN qty[k] ELSE 0) /\ ptp'[k] = (IF row[k] = "open" THEN tp[k] ELSE 0)
        /\ pc \in {"track", "tpSave"} => k # lot
    BY <1>8 DEF Crash, account, Early, InHand
  <3>2. InHand \notin Of(k)
    <4>1. CASE pc \in {"track", "tpSave"}
      <5>1. cur \in Of(lot) /\ k # lot
        BY <1>j, <3>1, <4>1 DEF NewPCs
      <5> QED BY <4>1, <5>1 DEF InHand, Of
    <4>2. CASE pc \notin {"track", "tpSave"}
      BY <1>d, <4>2 DEF InHand
    <4> QED BY <4>1, <4>2
  <3>3. row'[k] = row[k] /\ qty'[k] = qty[k] /\ tp'[k] = tp[k]
    BY <3>1 DEF rows
  <3>4. Tracked(k)' = Tracked(k)
    BY <1>d, <1>n, <3>1, <3>2, <3>3 DEF Tracked
  <3>5. Worked(k)'
    BY <3>1 DEF Worked
  <3>6. Mirrored(k)'
    BY <3>1, <3>3 DEF Mirrored
  <3>7. TpKnown(k)'
    BY <1>a, <1>n, <3>1, <3>3, TpStays
  <3> QED BY <1>a, <1>n, <3>1, <3>3, <3>4, <3>5, <3>6, <3>7, Eases
<1>9. CASE UNCHANGED vars
  BY <1>9, <1>g DEF vars, Quiet, rows, ledger, engine, memory, account, hand, cockpit, Early, InHand
<1> QED
  BY <1>1, <1>2, <1>3, <1>4, <1>5, <1>6, <1>7, <1>8, <1>9 DEF Next

\* A TP that filled as much as its lot holds is over, and sold just that.
LEMMA TpWhole ==
  ASSUME TypeOK, Referred, Ordered, NEW l \in Lots, LotOK(l), row[l] = "open", NEW n, n \in {tp[l], ptp[l]},
         TpFull(l, n, qty[l])
  PROVE  n = tp[l] /\ n = ptp[l] /\ ~Live(n) /\ Reported(n) = book[n].filled /\ Reported(n) = qty[l]
<1>1. n \in Of(l) /\ qty[l] \in Nat /\ qty[l] >= 1 /\ Reported(n) >= qty[l]
  BY DEF TpFull, Referred, NoneOr, TypeOK
<1>2. /\ n \in Made /\ book[n].filled \in Nat /\ book[n].size \in Nat /\ book[n].filled <= book[n].size
      /\ Live(n) => book[n].filled < book[n].size
  BY <1>1, OrdersOf DEF Ordered
<1>3. Reported(n) = book[n].filled /\ book[n].filled >= qty[l] /\ book[n].filled > 0
  BY <1>1, <1>2 DEF Reported
<1>4. tp[l] = n /\ ptp[l] = n /\ book[n].size = qty[l]
  BY <1>1, <1>3 DEF LotOK, TpKnown, Active
<1> QED BY <1>1, <1>2, <1>3, <1>4

\* What the world does to an order: only a live one fills, while the session lasts
Fate(n) == /\ ~Live(n) => ~Live(n)' /\ book'[n].filled = book[n].filled
           /\ session = "closed" => book'[n].filled = book[n].filled /\ (session' = "closed" \/ ~Live(n)')
           /\ book[n].filled > 0 => book'[n].filled > 0
           /\ book'[n].filled > 0 /\ book[n].filled = 0 => Live(n)
           /\ book'[n].day = book[n].day

\* What the exchange, the user and the night do is one of these fates.
LEMMA WorldFills ==
  ASSUME TypeOK, World
  PROVE  \A n \in Made : Fate(n)
<1> USE DEF Fate
<1>1. \A n \in Made : book[n].filled \in Nat
  BY Numbers DEF TypeOK, Order
<1>s. session \in {"open", "closed"}
  BY DEF TypeOK
<1>2. ASSUME NEW m \in Made, FillOrder(m), NEW n \in Made PROVE Fate(n)
  <2>1. Fills(m) /\ session' = session
    BY <1>2, FillIs DEF FillOrder, account
  <2> QED BY <1>1, <2>1 DEF Fills, OneChanges, Live
<1>3. ASSUME NEW m \in Made, KillOrder(m), NEW n \in Made PROVE Fate(n)
  <2>1. Dies(m) /\ session' = session
    BY <1>3, DieIs DEF KillOrder, account
  <2> QED BY <1>s, <2>1 DEF Dies, OneChanges, Live
<1>4. ASSUME SellByHand \/ CloseSession \/ \E l \in Lots : RestOver(l), NEW n \in Made PROVE Fate(n)
  <2>1. book' = book /\ (session' = session \/ session' = "closed")
    BY <1>4 DEF SellByHand, CloseSession, RestOver, account
  <2> QED BY <1>s, <2>1 DEF Live
<1>5. ASSUME NewDay, NEW n \in Made PROVE Fate(n)
  <2>1. Night
    BY <1>5, NightIs
  <2> QED BY <2>1 DEF Night, Live
<1> QED BY <1>2, <1>3, <1>4, <1>5 DEF World

\* What is known of the order in hand stays known.
LEMMA HandNext ==
  ASSUME Basic, Expiring, LotsOK, HandOK, BookStep, IsBook', [Next]_vars
  PROVE  HandOK'
<1> SUFFICES ASSUME NEW k \in Lots, k = lot', k \notin astray' PROVE HandSure'
  BY DEF HandOK
<1> USE DEF Basic, FinPCs, TpPCs, DayPCs, ShrPCs, ManPCs
<1>a. k \notin astray /\ LotOK(k)
  BY AstrayGrows DEF LotsOK
<1>b. k = lot => HandSure
  BY <1>a DEF HandOK
<1>c. /\ row \in [Lots -> {"open", "closed"}] /\ qty \in [Lots -> Nat] /\ pos \in [Lots -> Nat]
      /\ tp \in [Lots -> 0 .. MaxOrders] /\ ptp \in [Lots -> 0 .. MaxOrders] /\ qty[k] \in 1 .. EntryQty[k]
      /\ seen \in Nat /\ session \in {"open", "closed"}
  BY DEF TypeOK
<1>d. \A n \in Made : book[n].filled \in Nat /\ book[n].size \in Nat /\ (Live(n) => book[n].filled < book[n].size /\ book[n].day = day)
  BY Numbers DEF TypeOK, Order, Ordered
<1>e. pos[k] = IF row[k] = "open" THEN qty[k] ELSE 0
  BY <1>a DEF LotOK, Mirrored
<1>f. ASSUME pc' \notin FinPCs \cup TpPCs \cup DayPCs \cup ShrPCs \cup ManPCs \cup {"clearTp", "tpPlace", "tpSave"}
      PROVE  HandSure'
  BY <1>f DEF HandSure
<1>g. ASSUME World, pc' = pc, UNCHANGED <<hand, rows, engine, told>> PROVE HandSure'
  <2>1. UNCHANGED <<cur, lot, seen, row, qty, tp, ptp, pos>> /\ HandSure /\ lot = k
    BY <1>b, <1>g DEF hand, rows, engine
  <2>2. \A n \in Made : Fate(n)
    BY <1>g, WorldFills
  <2> USE DEF Fate
  <2>3. /\ tp[k] # 0 => tp[k] \in Made
        /\ ptp[k] # 0 => ptp[k] \in Made
    BY DEF Referred, NoneOr, Of
  <2>4. pc \in FinPCs \cup TpPCs \cup DayPCs \cup {"clearTp", "tpSave"} => cur \in Made
    BY CurMade
  <2>5. pc \in FinPCs => ~Live(cur)' /\ seen = book'[cur].filled
    BY <2>1, <2>2, <2>4 DEF HandSure, Live
  <2>6. pc = "finDone" /\ seen > 0 /\ row[k] = "open" => FilledOf(k)' + qty[k] <= EntryQty[k]
    <3> SUFFICES ASSUME pc = "finDone", seen > 0, row[k] = "open" PROVE FilledOf(k)' + qty[k] <= EntryQty[k]
      OBVIOUS
    <3>1. FilledOf(k) + qty[k] <= EntryQty[k]
      BY <2>1 DEF HandSure
    <3>2. session = "open" => \A m \in Of(k) : ~Live(m)
      BY <1>a, <2>1, FinKnown
    <3>3. Of(k)' = Of(k)
      <4>1. Made' = Made /\ \A n \in Made : book'[n].lot = book[n].lot
        BY <1>g, WorldIs, Stay
      <4> QED BY <4>1 DEF Of
    <3>4. \A n \in Of(k) : book'[n].filled = book[n].filled
      BY <1>c, <2>2, <3>2, OrdersOf
    <3> QED BY <3>1, <3>3, <3>4, FilledSame
  <2>7. pc \in TpPCs => ~Live(cur)' /\ cur = tp[lot] /\ cur = ptp[lot] /\ seen = book'[cur].filled /\ seen = qty[lot]
    BY <2>1, <2>2, <2>4 DEF HandSure, Live
  <2>8. pc \in DayPCs => /\ session' = "closed" \/ ~Live(cur)'
                         /\ book'[cur].filled = book[cur].filled
    BY <2>1, <2>2, <2>4 DEF HandSure
  <2>9. pc \in ShrPCs => tp[lot] = 0 \/ ~Live(tp[lot])' \/ book'[tp[lot]].filled > 0
    <3>1. pc \in ShrPCs => tp[k] = 0 \/ ~Live(tp[k]) \/ book[tp[k]].filled > 0
      BY <2>1 DEF HandSure
    <3>2. tp[k] # 0 => \E n \in Made : n = tp[k]
      BY <2>3
    <3>3. ASSUME NEW n \in Made, n = tp[k], n # 0, pc \in ShrPCs PROVE tp[lot] = 0 \/ ~Live(tp[lot])' \/ book'[tp[lot]].filled > 0
      <4>1. ~Live(n)' \/ book'[n].filled > 0
        BY <2>2, <3>1, <3>3
      <4> QED BY <2>1, <3>3, <4>1 DEF Live
    <3> QED BY <2>1, <3>2, <3>3
  <2>10. ASSUME NEW n \in Made, ~Active(n) PROVE ~Active(n)'
    BY <1>d, <2>2, <2>10 DEF Active
  <2>11. pc = "clearTp" => ~Active(cur)'
    <3>1. pc = "clearTp" => ~Active(cur)
      BY <2>1 DEF HandSure
    <3>2. ASSUME NEW n \in Made, n = cur, ~Active(n) PROVE ~Active(cur)'
      BY <2>1, <2>10, <3>2 DEF Active, Live
    <3> QED BY <2>4, <3>1, <3>2
  <2>12. pc \in {"tpPlace", "tpSave"} => ptp[lot] = 0 \/ ~Active(ptp[lot])'
    <3>1. pc \in {"tpPlace", "tpSave"} => ptp[k] = 0 \/ ~Active(ptp[k])
      BY <2>1 DEF HandSure
    <3>2. ASSUME NEW n \in Made, n = ptp[k], ~Active(n) PROVE ~Active(ptp[lot])'
      BY <2>1, <2>10, <3>2 DEF Active, Live
    <3> QED BY <2>1, <2>3, <3>1, <3>2
  <2>13. pc = "tpSave" => cur \notin told' /\ (book'[cur].filled > 0 => book'[cur].day = day')
    <3> SUFFICES ASSUME pc = "tpSave" PROVE cur \notin told' /\ (book'[cur].filled > 0 => book'[cur].day = day')
      OBVIOUS
    <3>1. /\ cur \notin told /\ (book[cur].filled > 0 => book[cur].day = day)
          /\ cur \in Made /\ book'[cur].day = book[cur].day
      BY <2>1, <2>2, <2>4 DEF HandSure
    <3>2. CASE day' = day
      <4>1. book'[cur].filled > 0 => book[cur].filled > 0 \/ Live(cur)
        BY <1>d, <2>2, <3>1
      <4> QED BY <1>d, <1>g, <3>1, <3>2, <4>1
    <3>3. CASE NewDay
      <4>1. ~(k \in OpenLots /\ \E n \in Of(k) : book[n].filled > 0 /\ n \notin told \ {tp[k]})
        BY <3>3 DEF NewDay
      <4>2. k \in OpenLots /\ cur \in Of(k)
        BY <1>c, <1>e, <2>1 DEF Handy, HandTps, HandSave, TpsPCs, Has, OpenLots
      <4>3. session = "closed"
        BY <3>3 DEF NewDay
      <4> QED BY <1>d, <1>g, <2>2, <3>1, <4>1, <4>2, <4>3
    <3>4. day' = day \/ NewDay
      BY <1>g DEF World, FillOrder, KillOrder, SellByHand, CloseSession, RestOver, account
    <3> QED BY <3>2, <3>3, <3>4
  <2>14. pc \in ManPCs => seen = qty[lot]
    BY <2>1 DEF HandSure
  <2>15. \A l \in Lots : l = lot' <=> l = k
    OBVIOUS
  <2>16. pc \in FinPCs => ~Live(cur)' /\ seen' = book'[cur].filled
    BY <2>1, <2>5
  <2>17. pc \in DayPCs \ {"dayClear"} => seen = book'[cur].filled
    BY <2>1, <2>8 DEF HandSure
  <2>18. pc = "dayClear" => book'[cur].filled = 0
    BY <2>1, <2>8 DEF HandSure
  <2>19. pc' = "finDone" /\ seen' > 0 => \A l \in Lots : l = lot' /\ row'[l] = "open" => FilledOf(l)' + qty'[l] <= EntryQty[l]
    BY <1>g, <2>1, <2>6
  <2> QED BY <1>g, <2>1, <2>7, <2>8, <2>9, <2>11, <2>12, <2>13, <2>14, <2>16, <2>17, <2>18, <2>19 DEF HandSure, Live, Active

<1>1. CASE Following
  <2>1. CASE Begin
    BY <2>1, <1>f DEF Begin
  <2>2. CASE Load
    BY <2>2, <1>f DEF Load
  <2>3. CASE LoadFails
    BY <2>3, <1>f DEF LoadFails
  <2>4. CASE Loaded
    BY <2>4, <1>f DEF Loaded
  <2>5. ASSUME NEW n \in Orders, Resolve(n)
        PROVE  HandSure'
    BY <2>5, <1>f DEF Resolve
  <2> QED BY <1>1, <2>1, <2>2, <2>3, <2>4, <2>5 DEF Following
<1>2. CASE Polling
  <2>1. ASSUME NEW n \in Orders, PollWaits(n)
        PROVE  HandSure'
    BY <2>1, <1>f DEF PollWaits
  <2>2. ASSUME NEW n \in Orders, PollEnds(n)
        PROVE  HandSure'
    <3>1. pc' = "finRecord" /\ cur' = n /\ seen' = book[n].filled /\ book' = book /\ n \in work /\ Over(n)
      BY <2>2 DEF PollEnds, Take
    <3>2. n \in Made /\ ~Live(n)
      BY <1>d, <3>1 DEF Over, Referred
    <3> QED BY <3>1, <3>2 DEF HandSure, Live
  <2>3. ASSUME NEW n \in Orders, PollCloses(n)
        PROVE  HandSure'
    BY <2>3, <1>f DEF PollCloses, Take
  <2>4. CASE Cancel
    <3>1. /\ pc = "cancel" /\ pc' = "finRecord" /\ UNCHANGED <<cur, lot, day>>
          /\ Live(cur) /\ book' = [book EXCEPT ![cur].state = "dead"]
          /\ (seen' = Reported(cur) \/ (seen' = seen /\ (seen = book[cur].filled \/ lot \in astray')))
      BY <2>4 DEF Cancel, account
    <3>2. cur \in Made
      BY <3>1, CurMade
    <3>3. Dies(cur)
      BY <3>1, <3>2, DieIs
    <3>4. seen' = book[cur].filled
      BY <1>d, <3>1, <3>2 DEF Reported
    <3>5. book'[cur].filled = book[cur].filled /\ book'[cur].state = "dead"
      BY <3>3 DEF Dies
    <3> QED BY <3>1, <3>4, <3>5 DEF HandSure, Live
  <2>5. CASE CancelFails
    <3>1. /\ book' = book /\ pc = "cancel"
          /\ \/ Over(cur) /\ seen' = Reported(cur) /\ pc' = "finRecord" /\ cur' = cur
             \/ pc' = "poll"
      BY <2>5 DEF CancelFails, Return
    <3>2. cur \in Made
      BY <3>1, CurMade
    <3>3. Over(cur) => ~Live(cur) /\ Reported(cur) = book[cur].filled
      BY <1>d, <3>2 DEF Over, Reported
    <3> QED BY <1>f, <3>1, <3>3 DEF HandSure, Live
  <2>6. CASE PollsDone
    BY <2>6, <1>f DEF PollsDone, Phase, Backs
  <2>7. CASE FinNothing
    <3>1. pc = "finRecord" /\ pc' = "finDone" /\ UNCHANGED <<rows, book, cur, lot, seen>> /\ (seen = 0 \/ lot \notin Has)
      BY <2>7 DEF FinNothing, hand
    <3>2. HandSure /\ UNCHANGED <<row, qty>> /\ lot = k
      BY <1>b, <3>1 DEF rows
    <3>3. seen > 0 => row[k] # "open"
      BY <1>c, <1>e, <3>1, <3>2 DEF Has
    <3> QED BY <3>1, <3>2, <3>3 DEF HandSure, Live
  <2>8. CASE FinRecord
    <3>1. pc = "finRecord" /\ pc' \in {"finReduce", "finClose"} /\ UNCHANGED <<rows, engine, book, session, cur, lot, seen>>
      BY <2>8 DEF FinRecord, account, hand
    <3>2. HandSure /\ UNCHANGED <<row, qty, tp, ptp>>
      BY <1>b, <3>1 DEF rows, engine
    <3> QED BY <3>1, <3>2 DEF HandSure, Live, Active
  <2>9. CASE FinReduce
    <3>1. /\ pc = "finReduce" /\ pc' = "finDone" /\ UNCHANGED <<row, book, cur, lot, seen>>
          /\ (qty' = [qty EXCEPT ![lot] = pos[lot] - seen] \/ lot \in astray')
      BY <2>9 DEF FinReduce, Remainder, hand
    <3>2. HandSure /\ lot = k /\ pos[k] > 0 /\ seen > 0 /\ pos[k] - seen > 0
      BY <1>b, <3>1 DEF Handy, Has, Remainder
    <3>3. row[k] = "open" /\ pos[k] = qty[k] /\ qty'[k] = qty[k] - seen
      BY <1>c, <1>e, <3>1, <3>2
    <3>4. FilledOf(k) - seen + qty[k] <= EntryQty[k]
      BY <1>a, <3>1, <3>2, <3>3, FinKnown
    <3>5. FilledOf(k)' = FilledOf(k) /\ FilledOf(k) \in Nat /\ EntryQty[k] \in Nat
      BY <3>1, FilledSame, OrdersOf, ExitAssumption DEF Of, Made
    <3>6. FilledOf(k)' + qty'[k] <= EntryQty[k]
      BY <1>c, <3>3, <3>4, <3>5
    <3> QED BY <3>1, <3>2, <3>6 DEF HandSure, Live
  <2>10. CASE FinClose
    <3>1. /\ pc = "finClose" /\ pc' = "finDone" /\ UNCHANGED <<book, cur, lot, seen>>
          /\ (row' = [row EXCEPT ![lot] = "closed"] \/ lot \in astray')
      BY <2>10 DEF FinClose, CloseLot, hand
    <3>2. HandSure /\ row'[k] = "closed" /\ lot = k
      BY <1>b, <1>c, <3>1
    <3> QED BY <3>1, <3>2 DEF HandSure, Live
  <2>11. CASE FinDone
    BY <2>11, <1>f DEF FinDone, Return
  <2> QED BY <1>2, <2>1, <2>2, <2>3, <2>4, <2>5, <2>6, <2>7, <2>8, <2>9, <2>10, <2>11 DEF Polling
<1>3. CASE Profits
  <2>1. CASE TpRecord
    <3>1. pc = "tpRecord" /\ pc' \in {"tpClose"} /\ UNCHANGED <<rows, engine, book, session, cur, lot, seen>>
      BY <2>1 DEF TpRecord, account, hand
    <3>2. HandSure /\ UNCHANGED <<row, qty, tp, ptp>>
      BY <1>b, <3>1 DEF rows, engine
    <3> QED BY <3>1, <3>2 DEF HandSure, Live, Active
  <2>2. CASE TpClose
    BY <2>2, <1>f DEF TpClose, Return, Backs
  <2>3. CASE TpChecked
    BY <2>3, <1>f DEF TpChecked, Phase
  <2>4. CASE DayRecord
    <3>1. pc = "dayRecord" /\ pc' \in {"dayReduce"} /\ UNCHANGED <<rows, engine, book, session, cur, lot, seen>>
      BY <2>4 DEF DayRecord, account, hand
    <3>2. HandSure /\ UNCHANGED <<row, qty, tp, ptp>>
      BY <1>b, <3>1 DEF rows, engine
    <3> QED BY <3>1, <3>2 DEF HandSure, Live, Active
  <2>5. CASE DayReduce
    BY <2>5, <1>f DEF DayReduce, Return
  <2>6. CASE DayClear
    BY <2>6, <1>f DEF DayClear, Return
  <2>7. CASE Expired
    BY <2>7, <1>f DEF Expired
  <2>8. ASSUME NEW l \in Lots, TpCheck(l)
        PROVE  HandSure'
    <3>1. /\ UNCHANGED <<rows, engine, book>>
          /\ \/ pc' = pc /\ pc = "tpcheck"
             \/ TpFull(l, ptp[l], pos[l]) /\ pc' = "tpRecord" /\ lot' = l /\ cur' = ptp[l] /\ seen' = Reported(ptp[l])
      BY <2>8 DEF TpCheck, Take
    <3>2. CASE pc' = pc /\ pc = "tpcheck"
      BY <1>f, <3>2
    <3>3. CASE TpFull(l, ptp[l], pos[l]) /\ pc' = "tpRecord" /\ lot' = l /\ cur' = ptp[l] /\ seen' = Reported(ptp[l])
      <4>1. row[l] = "open"
        BY <3>3, <1>c, <1>e DEF Engine, OpenLots, TpFull
      <4>2. TpFull(l, ptp[l], qty[l]) /\ l = k
        BY <1>e, <3>3, <4>1
      <4>3. ptp[l] = tp[l] /\ ptp[l] = ptp[l] /\ ~Live(ptp[l]) /\ Reported(ptp[l]) = book[ptp[l]].filled /\ Reported(ptp[l]) = qty[l]
        BY <1>a, <4>1, <4>2, TpWhole
      <4> QED BY <3>1, <3>3, <4>3 DEF HandSure, Live, rows, engine
    <3> QED BY <3>1, <3>2, <3>3
  <2>9. ASSUME NEW l \in Lots, Expire(l)
        PROVE  HandSure'
    <3>1. /\ UNCHANGED <<rows, engine, book, session>> /\ pc = "expire" /\ l \in lots
          /\ \/ pc' = pc
             \/ /\ ptp[l] # 0 /\ lot' = l /\ cur' = ptp[l] /\ seen' = Reported(ptp[l])
                /\ pc' = IF TpFull(l, ptp[l], pos[l]) THEN "tpRecord"
                         ELSE IF Reported(ptp[l]) > 0 THEN "dayRecord" ELSE "dayClear"
      BY <2>9 DEF Expire, Take, account
    <3>2. CASE pc' = pc
      BY <1>f, <3>1, <3>2
    <3>3. CASE pc' # pc
      <4>1. /\ k = l /\ cur' = ptp[k] /\ seen' = Reported(ptp[k]) /\ ptp[k] # 0 /\ ptp[k] \in Of(k)
            /\ pc' = IF TpFull(k, ptp[k], pos[k]) THEN "tpRecord"
                     ELSE IF Reported(ptp[k]) > 0 THEN "dayRecord" ELSE "dayClear"
        BY <3>1, <3>3 DEF Referred, NoneOr
      <4>2. row[k] = "open" /\ pos[k] = qty[k]
        BY <1>c, <1>e, <4>1 DEF Engine
      <4>3. CASE TpFull(k, ptp[k], pos[k])
        <5>1. ptp[k] = tp[k] /\ ~Live(ptp[k]) /\ Reported(ptp[k]) = book[ptp[k]].filled /\ Reported(ptp[k]) = qty[k]
          BY <1>a, <4>2, <4>3, TpWhole
        <5> QED BY <3>1, <4>1, <4>3, <5>1 DEF HandSure, Live, rows, engine
      <4>4. CASE ~TpFull(k, ptp[k], pos[k])
        <5>1. session = "closed" \/ ~Live(ptp[k])
          BY <3>1, <4>1 DEF Expiring, Backs
        <5>2. book[ptp[k]].filled > 0 => book[ptp[k]].day = day
          BY <1>a, <4>1, <4>2 DEF LotOK, TpKnown, Active
        <5>3. Reported(ptp[k]) = book[ptp[k]].filled
          BY <1>d, <4>1, <5>2 DEF Reported, Of
        <5>4. book[ptp[k]].filled \in Nat
          BY <1>d, <4>1 DEF Of
        <5>5. pc' = IF seen' > 0 THEN "dayRecord" ELSE "dayClear"
          BY <4>1, <4>4
        <5>6. /\ session' = "closed" \/ ~Live(cur)'
              /\ seen' = book'[cur'].filled /\ (pc' = "dayClear" => book'[cur'].filled = 0)
          BY <3>1, <4>1, <5>1, <5>3, <5>4, <5>5 DEF Live
        <5> QED BY <5>5, <5>6 DEF HandSure
      <4> QED BY <4>3, <4>4
    <3> QED BY <3>2, <3>3
  <2> QED BY <1>3, <2>1, <2>2, <2>3, <2>4, <2>5, <2>6, <2>7, <2>8, <2>9 DEF Profits
<1>4. CASE Syncing
  <2>1. CASE SyncFails
    BY <2>1, <1>f DEF SyncFails
  <2>2. CASE SyncVanished
    BY <2>2, <1>f DEF SyncVanished, Phase
  <2>3. CASE SyncLots
    BY <2>3, <1>f DEF SyncLots
  <2>4. CASE Vanished
    BY <2>4, <1>f DEF Vanished
  <2>5. CASE ShrRecord
    <3>1. pc = "shrRecord" /\ pc' \in {"shrReduce"} /\ UNCHANGED <<rows, engine, book, session, cur, lot, seen>>
      BY <2>5 DEF ShrRecord, account, hand
    <3>2. HandSure /\ UNCHANGED <<row, qty, tp, ptp>>
      BY <1>b, <3>1 DEF rows, engine
    <3> QED BY <3>1, <3>2 DEF HandSure, Live, Active
  <2>6. CASE ShrReduce
    BY <2>6, <1>f DEF ShrReduce, Return
  <2>7. CASE ManRecord
    <3>1. pc = "manRecord" /\ pc' \in {"manClose"} /\ UNCHANGED <<rows, engine, book, session, cur, lot, seen>>
      BY <2>7 DEF ManRecord, account, hand
    <3>2. HandSure /\ UNCHANGED <<row, qty, tp, ptp>>
      BY <1>b, <3>1 DEF rows, engine
    <3> QED BY <3>1, <3>2 DEF HandSure, Live, Active
  <2>8. CASE ManClose
    BY <2>8, <1>f DEF ManClose, Return, Backs
  <2>9. ASSUME NEW l \in Lots, SyncShrinks(l)
        PROVE  HandSure'
    <3>1. /\ UNCHANGED <<rows, book>> /\ pc' = "shrRecord" /\ l = k
          /\ OpenLots = {l} /\ Expected > Held
      BY <2>9 DEF SyncShrinks, Take, Explained
    <3>2. Expected = qty[k]
      <4>1. Expected = SumFunctionOnSet(qty, {k}) /\ IsFiniteSet({k}) /\ qty[k] \in Int
        BY <1>c, <3>1, FS_Singleton DEF Expected
      <4>2. Expected = qty[k] + SumFunctionOnSet(qty, {k} \ {k})
        BY <4>1, SumTake
      <4>3. {k} \ {k} = {}
        OBVIOUS
      <4>4. SumFunctionOnSet(qty, {}) = 0
        BY SumEmpty
      <4>5. SumFunctionOnSet(qty, {k} \ {k}) = 0
        BY <4>3, <4>4
      <4>6. qty[k] + 0 = qty[k]
        BY <4>1
      <4> QED BY <4>2, <4>5, <4>6
    <3>3. tp[k] = 0 \/ ~Live(tp[k]) \/ book[tp[k]].filled > 0
      <4> SUFFICES ASSUME NEW n, n = tp[k], n # 0, Live(n), ~(book[n].filled > 0) PROVE FALSE
        OBVIOUS
      <4>1. n \in Of(k) /\ n \in Made
        BY DEF Referred, NoneOr, Of
      <4>2. book[n].filled = 0 /\ book[n].size \in Nat
        BY <1>d, <4>1
      <4>3. book[n].size - book[n].filled <= Held
        BY <4>1, LiveHolds
      <4>4. book[n].size = qty[k]
        BY <1>a, <3>1, <4>1 DEF LotOK, TpKnown, Active, OpenLots
      <4>5. Held \in Nat
        BY Amounts
      <4> QED BY <1>c, <3>1, <3>2, <4>2, <4>3, <4>4, <4>5
    <3> QED BY <3>1, <3>3 DEF HandSure, Live, rows
  <2>10. ASSUME NEW l \in Lots, VanishTp(l)
        PROVE  HandSure'
    <3>1. /\ UNCHANGED <<rows, engine, book>> /\ pc = "vanish" /\ l \in lots /\ TpFull(l, tp[l], qty[l])
          /\ pc' = "tpRecord" /\ lot' = l /\ cur' = tp[l] /\ seen' = Reported(tp[l])
      BY <2>10 DEF VanishTp, Take
    <3>2. row[l] = "open" /\ l = k
      BY <3>1 DEF Visited, Backs
    <3>3. tp[l] = ptp[l] /\ ~Live(tp[l]) /\ Reported(tp[l]) = book[tp[l]].filled /\ Reported(tp[l]) = qty[l]
      BY <1>a, <3>1, <3>2, TpWhole
    <3> QED BY <3>1, <3>3 DEF HandSure, Live, rows, engine
  <2>11. ASSUME NEW l \in Lots, VanishManual(l)
        PROVE  HandSure'
    <3>1. UNCHANGED rows /\ pc' = "manRecord" /\ lot' = l /\ seen' = qty[l]
      BY <2>11 DEF VanishManual, Take
    <3> QED BY <3>1 DEF HandSure, rows
  <2> QED BY <1>4, <2>1, <2>2, <2>3, <2>4, <2>5, <2>6, <2>7, <2>8, <2>9, <2>10, <2>11 DEF Syncing
<1>5. CASE Selling
  <2>1. CASE MakePlan
    BY <2>1, <1>f DEF MakePlan
  <2>2. CASE SellCancel
    <3>1. /\ pc = "sellCancel" /\ UNCHANGED <<rows, engine>>
          /\ \/ pc' = "sell"
             \/ /\ pc' = "clearTp" /\ UNCHANGED <<cur, lot>> /\ Live(cur) /\ book' = [book EXCEPT ![cur].state = "dead"]
                /\ Slips(lot, cur) \subseteq astray'
      BY <2>2 DEF SellCancel, Return, hand
    <3>2. cur \in Made /\ cur = ptp[lot] /\ cur # 0
      BY <3>1, CurMade DEF Handy
    <3>3. CASE pc' = "sell"
      BY <1>f, <3>3
    <3>4. CASE pc' # "sell"
      <4>1. Dies(cur) /\ Slips(lot, cur) \subseteq astray' /\ lot = k
        BY <3>1, <3>2, <3>4, DieIs
      <4>2. book'[cur].state = "dead" /\ book'[cur].filled = book[cur].filled
        BY <4>1 DEF Dies
      <4>3. ~(book[cur].filled > 0)
        BY <3>2, <4>1 DEF Slips
      <4> QED BY <3>1, <3>2, <3>4, <4>2, <4>3 DEF HandSure, Active, Live, engine
    <3> QED BY <3>3, <3>4
  <2>3. CASE SellCancelLost
    BY <2>3, <1>f DEF SellCancelLost, Return
  <2>4. CASE ClearTp
    BY <2>4, <1>f DEF ClearTp
  <2>5. CASE Journal
    BY <2>5, <1>f DEF Journal
  <2>6. CASE SubmitAccepted
    BY <2>6, <1>f DEF SubmitAccepted
  <2>7. CASE SubmitRefused
    BY <2>7, <1>f DEF SubmitRefused
  <2>8. CASE SubmitMaybe
    BY <2>8, <1>f DEF SubmitMaybe
  <2>9. CASE Track
    BY <2>9, <1>f DEF Track, Return
  <2>10. CASE Unjournal
    BY <2>10, <1>f DEF Unjournal, Return
  <2>11. CASE SellFailed
    <3>1. /\ pc = "askHeld" /\ UNCHANGED rows
          /\ (pc' = "manRecord" /\ seen' = pos[lot] /\ lot' = lot) \/ pc' = "sell"
      BY <2>11 DEF SellFailed, Return
    <3>2. lot \in Has
      BY <3>1 DEF Handy, HandSell, SellPCs
    <3>3. CASE pc' = "sell"
      BY <1>f, <3>3
    <3>4. CASE pc' = "manRecord" /\ seen' = pos[lot] /\ lot' = lot
      <4>1. seen' = qty[k]
        BY <1>c, <1>e, <3>2, <3>4 DEF Has
      <4> QED BY <3>1, <3>4, <4>1 DEF HandSure, rows
    <3> QED BY <3>1, <3>3, <3>4
  <2>12. CASE SellsDone
    BY <2>12, <1>f DEF SellsDone
  <2>13. ASSUME NEW l \in Lots, NEW q \in 1 .. EntryQty[l], Sell(l, q)
        PROVE  HandSure'
    BY <2>13, <1>f DEF Sell, Take
  <2> QED BY <1>5, <2>1, <2>2, <2>3, <2>4, <2>5, <2>6, <2>7, <2>8, <2>9, <2>10, <2>11, <2>12,
             <2>13 DEF Selling
<1>6. CASE Delegating
  <2>1. CASE TpCancel
    <3>1. /\ pc = "tpCancel" /\ UNCHANGED <<rows, engine>>
          /\ \/ pc' = "tps"
             \/ /\ pc' = "tpPlace" /\ UNCHANGED <<cur, lot>> /\ Live(cur) /\ book' = [book EXCEPT ![cur].state = "dead"]
                /\ Slips(lot, cur) \subseteq astray'
      BY <2>1 DEF TpCancel, Return, hand
    <3>2. cur \in Made /\ cur = ptp[lot] /\ cur # 0
      BY <3>1, CurMade DEF Handy
    <3>3. CASE pc' = "tps"
      BY <1>f, <3>3
    <3>4. CASE pc' # "tps"
      <4>1. Dies(cur) /\ Slips(lot, cur) \subseteq astray' /\ lot = k
        BY <3>1, <3>2, <3>4, DieIs
      <4>2. book'[cur].state = "dead" /\ book'[cur].filled = book[cur].filled
        BY <4>1 DEF Dies
      <4>3. ~(book[cur].filled > 0)
        BY <3>2, <4>1 DEF Slips
      <4> QED BY <3>1, <3>2, <3>4, <4>2, <4>3 DEF HandSure, Active, Live, engine
    <3> QED BY <3>3, <3>4
  <2>2. CASE TpCancelLost
    BY <2>2, <1>f DEF TpCancelLost, Return
  <2>3. CASE TpAccepted
    <3>1. /\ pc = "tpPlace" /\ pc' = "tpSave" /\ UNCHANGED <<engine, ledger, lot>> /\ cur' = Len(book) + 1
          /\ lot \in Lots
      BY <2>3, CurMade DEF TpAccepted, TpsPCs
    <3>2. Appends("live")
      BY <2>3, <3>1, AddIs DEF TpAccepted
    <3>3. PICK o : o = Len(book) + 1
      OBVIOUS
    <3>4. o \notin told /\ book'[o].filled = 0
      BY <3>2, <3>3 DEF Appends, Referred
    <3>5. HandSure /\ lot = k
      BY <1>b, <3>1
    <3>6. ptp[k] = 0 \/ (ptp[k] \in Made /\ ~Active(ptp[k]))
      BY <3>1, <3>5 DEF HandSure, Referred, NoneOr, Of
    <3>7. \A m \in Made : book'[m] = book[m]
      BY <3>2 DEF Appends
    <3>8. ptp'[lot'] = 0 \/ ~(book'[ptp'[lot']].state = "live" \/ book'[ptp'[lot']].filled > 0)
      BY <3>1, <3>5, <3>6, <3>7 DEF engine, Active, Live
    <3>9. cur' \notin told' /\ ~(book'[cur'].filled > 0)
      BY <3>1, <3>3, <3>4 DEF ledger
    <3> QED BY <3>1, <3>8, <3>9 DEF HandSure, Live, Active
  <2>4. CASE TpRefused
    BY <2>4, <1>f DEF TpRefused, Return
  <2>5. CASE TpMaybe
    BY <2>5, <1>f DEF TpMaybe, Return
  <2>6. CASE TpSave
    BY <2>6, <1>f DEF TpSave, Return
  <2>7. CASE TickDone
    BY <2>7, <1>f DEF TickDone
  <2>8. ASSUME NEW l \in Lots, PlanTp(l)
        PROVE  HandSure'
    <3>1. /\ pc = "tps" /\ l \in lots /\ l \notin spent /\ UNCHANGED engine /\ lot' = l
          /\ pc' = IF plan.tp[l] = 0 THEN "tpPlace" ELSE "tpCancel"
      BY <2>8 DEF PlanTp, Untouched, Take
    <3>2. plan.tp[l] = ptp[l]
      BY <3>1 DEF Snapshot, SameAsPlan
    <3> QED BY <3>1, <3>2 DEF HandSure, engine
  <2>9. ASSUME NEW l \in Lots, ArmStop(l) \/ SetTimeExit(l)
        PROVE  HandSure'
    BY <2>9, <1>f DEF ArmStop, SetTimeExit, BeforeTps
  <2> QED BY <1>6, <2>1, <2>2, <2>3, <2>4, <2>5, <2>6, <2>7, <2>8, <2>9 DEF Delegating
<1>7. CASE World
  <2>1. ASSUME NEW n \in Made, FillOrder(n)
        PROVE  HandSure'
    BY <2>1, <1>g DEF World, FillOrder, rows, ledger, engine, memory, account, hand, agenda, tick,
             history, cockpit
  <2>2. ASSUME NEW n \in Made, KillOrder(n)
        PROVE  HandSure'
    BY <2>2, <1>g DEF World, KillOrder, rows, ledger, engine, memory, account, hand, agenda, tick,
             history, cockpit
  <2>3. CASE SellByHand
    BY <2>3, <1>g DEF World, SellByHand, rows, ledger, engine, memory, account, hand, agenda, tick,
             history, cockpit
  <2>4. CASE CloseSession
    BY <2>4, <1>g DEF World, CloseSession, rows, ledger, engine, memory, account, hand, agenda, tick,
             history, cockpit
  <2>5. CASE NewDay
    BY <2>5, <1>g DEF World, NewDay, rows, ledger, engine, memory, account, hand, agenda, tick,
             history, cockpit
  <2>6. ASSUME NEW l \in Lots, RestOver(l)
        PROVE  HandSure'
    BY <2>6, <1>g DEF World, RestOver, rows, ledger, engine, memory, account, hand, agenda, tick,
             history, cockpit
  <2> QED BY <1>7, <2>1, <2>2, <2>3, <2>4, <2>5, <2>6 DEF World
<1>8. CASE Crash
  BY <1>8, <1>f DEF Crash
<1>9. CASE UNCHANGED vars
  <3>1. UNCHANGED <<pc, cur, lot, seen, row, qty, tp, ptp, book, session, day, told>>
    BY <1>9 DEF vars, hand, rows, engine, account, ledger
  <3>2. HandSure
    BY <1>b, <3>1
  <3>3. FilledOf(k)' = FilledOf(k)
    BY <3>1, FilledSame DEF Of, Made
  <3> QED BY <3>1, <3>2, <3>3 DEF HandSure, Live, Active
<1> QED
  BY <1>1, <1>2, <1>3, <1>4, <1>5, <1>6, <1>7, <1>8, <1>9 DEF Next

-----------------------------------------------------------------------------
(* Safety, of every lot of which nothing got lost.                         *)

Sure == Basic /\ Expiring /\ Resolving /\ LotsOK /\ HandOK

\* It holds at the start: every lot is whole, and has no order.
LEMMA SureInit ==
  ASSUME Init
  PROVE  Sure
<1>1. Basic
  BY BasicInit
<1>2. Expiring /\ Resolving /\ HandOK
  BY ExitAssumption DEF Init, Expiring, Resolving, HandOK, TpPCs, DayPCs
<1>3. ASSUME NEW l \in Lots
      PROVE  LotOK(l)
  <2>1. Of(l) = {}
    BY DEF Init, Of, Made
  <2>2. FilledOf(l) = 0
    BY <2>1, SumEmpty DEF FilledOf
  <2>3. Pending(l) = {}
    BY <2>1 DEF Pending, Tracked
  <2>4. EntryQty[l] \in Nat /\ qty[l] = EntryQty[l] /\ pos[l] = EntryQty[l] /\ row[l] = "open"
    BY ExitAssumption DEF Init
  <2>5. Balanced(l)
    BY <2>2, <2>3, <2>4 DEF Balanced
  <2> QED BY <2>1, <2>3, <2>4, <2>5 DEF LotOK, Mirrored, TpKnown, Worked, OnePending, Offered
<1> QED BY <1>1, <1>2, <1>3 DEF Sure, LotsOK

\* Every step keeps it.
LEMMA SureNext ==
  ASSUME Sure, [Next]_vars
  PROVE  Sure'
<1>1. Basic' /\ BookStep /\ IsBook'
  BY BasicNext DEF Sure
<1>2. Expiring' /\ Resolving'
  BY <1>1, AgendaNext DEF Sure
<1>3. LotsOK'
  <2>1. \A l \in Lots \ astray' : LotOK(l)'
    BY <1>1, LotNext DEF Sure
  <2> QED BY <2>1 DEF LotsOK
<1>4. HandOK'
  BY <1>1, HandNext DEF Sure
<1> QED BY <1>1, <1>2, <1>3, <1>4 DEF Sure

\* What is sure of the lots of which nothing got lost is true in every reachable state.
LEMMA SureCorrect == Spec => []Sure
<1>1. Sure /\ [Next]_vars => Sure'
  BY SureNext
<1> QED BY SureInit, <1>1, PTL DEF Spec

\* A lot's shares are offered by one live order at most, TP or exit (doSell, placeTP),
\* unless an order's answer or number was lost: Exit.OfferedOnce.
THEOREM OfferedCorrect == Spec => []OfferedOnce
<1>1. Sure => OfferedOnce
  BY DEF Sure, LotsOK, LotOK, Offered, OfferedOnce
<1> QED BY SureCorrect, <1>1, PTL

\* The orders of a lot never sell more than it had (finishSell, reduceByDayTP, closeTPFill),
\* unless a fill of it was lost: Exit.OwnSharesKept.
THEOREM OwnSharesCorrect == Spec => []OwnSharesKept
<1>1. Sure => OwnSharesKept
  BY DEF Sure, LotsOK, LotOK, Balanced, OwnSharesKept
<1> QED BY SureCorrect, <1>1, PTL

-----------------------------------------------------------------------------
(* The ledger of a lot of which nothing got lost and no row is in doubt.   *)

\* Shares of a row that are not off the lot yet: the row was just written, ...
Writing(l) ==
  IF lot # l THEN 0
  ELSE IF pc \in {"finReduce", "finClose", "manClose"} THEN seen
  ELSE IF pc = "shrReduce" THEN qty[l] - seen ELSE 0

\* ... or it is the row of a TP at night, which is written once and tried again
TpDue(l) == IF tp[l] \in told THEN book[tp[l]].filled ELSE 0

\* The bot's rows are what the orders sold, but for one that is pending
Rowed(l) ==
  row[l] = "open" =>
    /\ Pending(l) \subseteq told => sold[l] = FilledOf(l)
    /\ \A n \in Pending(l) \ told : sold[l] = FilledOf(l) - book[n].filled

\* The lot is what it was less the rows
Added(l) == row[l] = "open" => EntryQty[l] = qty[l] + sold[l] + manual[l] - Writing(l) - TpDue(l)

\* When it ends, the rows are the whole of it
Ended(l) ==
  row[l] = "closed" => /\ sold[l] = FilledOf(l)
                       /\ EntryQty[l] - sold[l] - manual[l] < (IF Dust > 1 THEN Dust ELSE 1)

\* An order with a row is over, and its journal row is about to be
Told(l) ==
  \A n \in Of(l) : n \in told =>
    /\ book[n].filled > 0
    /\ session = "closed" \/ ~Live(n)
    /\ jour[n] = "open" => cur = n /\ pc \in {"finReduce", "finClose", "finDone"}

\* A TP with a row did not sell the lot, or the lot is about to end
TpPart(l) ==
  row[l] = "open" /\ tp[l] \in told => book[tp[l]].filled < qty[l] \/ (pc = "tpClose" /\ lot = l)

LedgerOK(l) == Rowed(l) /\ Added(l) /\ Ended(l) /\ Told(l) /\ TpPart(l)
LedgersOK == \A l \in Lots \ (astray \cup twice) : LedgerOK(l)

\* Where the order in hand has its row, and where it has none
HandTold ==
  lot \in Lots \ (astray \cup twice) =>
    /\ pc \in {"finReduce", "finClose", "tpClose", "dayReduce"} => cur \in told
    /\ pc = "finDone" /\ seen > 0 /\ row[lot] = "open" => cur \in told
    /\ pc = "track" => cur \notin told

\* A TP is not in the journal: the order of an exit is never the TP of a lot, in the
\* store or in the engine
TpFree == \A l \in Lots : \A n \in {tp[l], ptp[l]} : n # 0 => jour[n] = "none"

\* No TP is in the journal, at first and after every step: a row is written for an
\* exit only (journal, track), whose number no lot has for its TP.
LEMMA TpFreeNext ==
  ASSUME Basic, Resolving, TpFree, [Next]_vars
  PROVE  TpFree'
<1> USE DEF Basic
<1> DEFINE Goal(k) == \A n \in {tp'[k], ptp'[k]} : n # 0 => jour'[n] = "none"
<1> SUFFICES ASSUME NEW k \in Lots PROVE Goal(k)
  BY DEF TpFree
<1>a. /\ tp \in [Lots -> 0 .. MaxOrders] /\ ptp \in [Lots -> 0 .. MaxOrders]
      /\ jour \in [Orders -> {"none", "pre", "void", "open", "done"}]
      /\ \A n \in {tp[k], ptp[k]} : n # 0 => n \in Of(k) /\ jour[n] = "none"
  <2>1. tp[k] \in {0} \cup Of(k) /\ ptp[k] \in {0} \cup Of(k)
    BY DEF Referred, NoneOr
  <2>2. \A n \in {tp[k], ptp[k]} : n # 0 => jour[n] = "none"
    BY DEF TpFree
  <2> QED BY <2>1, <2>2 DEF TypeOK
<1>b. \A n \in Of(k) : n \in Made /\ n \in Orders /\ n # 0 /\ book[n].lot = k
  BY OrdersOf
<1>c. ASSUME {tp'[k], ptp'[k]} \subseteq {0, tp[k], ptp[k]},
             \A n \in {tp[k], ptp[k]} : n # 0 => jour'[n] = jour[n]
      PROVE  Goal(k)
  BY <1>a, <1>c
<1>d. ASSUME UNCHANGED <<tp, ptp, jour>> PROVE Goal(k)
  BY <1>c, <1>d
<1>e. ASSUME UNCHANGED jour, NEW l,
             tp' = tp \/ tp' = [tp EXCEPT ![l] = 0] \/ tp' = [tp EXCEPT ![l] = ptp[l]],
             ptp' = ptp \/ ptp' = [ptp EXCEPT ![l] = 0] \/ ptp' = [ptp EXCEPT ![l] = tp[l]]
      PROVE  Goal(k)
  BY <1>a, <1>c, <1>e
<1> HIDE DEF Goal

<1>1. CASE Following
  <2>1. ASSUME NEW n \in Orders, Resolve(n)
        PROVE  Goal(k)
    <3>1. UNCHANGED <<tp, ptp>> /\ jour[n] = "pre" /\ (jour' = [jour EXCEPT ![n] = "void"] \/ jour' = jour)
      BY <2>1 DEF Resolve, rows, engine, Resolving
    <3> QED BY <1>a, <1>b, <1>c, <3>1
  <2>2. CASE Begin \/ Load \/ LoadFails \/ Loaded
    BY <2>2, <1>d DEF Begin, Load, LoadFails, Loaded, rows, engine
  <2> QED BY <1>1, <2>1, <2>2 DEF Following
<1>2. CASE Polling
  <2>1. CASE FinReduce
    <3>1. /\ jour' = jour /\ (tp' = [tp EXCEPT ![lot] = 0] \/ tp' = tp)
          /\ ptp' = [ptp EXCEPT ![lot] = 0]
      BY <2>1 DEF FinReduce
    <3> QED BY <1>e, <3>1
  <2>2. CASE FinDone
    <3>1. UNCHANGED <<tp, ptp>>
          /\ (jour' = [jour EXCEPT ![cur] = IF jour[cur] = "open" THEN "done" ELSE jour[cur]] \/ jour' = jour)
      BY <2>2 DEF FinDone, rows, engine
    <3> QED BY <1>a, <1>b, <1>c, <3>1
  <2>3. CASE FinClose
    <3>1. UNCHANGED <<jour, tp>> /\ (ptp' = [ptp EXCEPT ![lot] = 0] \/ ptp' = ptp)
      BY <2>3 DEF FinClose, CloseLot, engine
    <3> QED BY <1>e, <3>1
  <2>4. CASE (\E n \in Orders : PollWaits(n)) \/ (\E n \in Orders : PollEnds(n)) \/
             (\E n \in Orders : PollCloses(n)) \/ Cancel \/ CancelFails \/ PollsDone \/
             FinNothing \/ FinRecord
    BY <2>4, <1>d
       DEF PollWaits, PollEnds, PollCloses, Cancel, CancelFails, PollsDone, FinNothing,
           FinRecord, rows, engine
  <2> QED BY <1>2, <2>1, <2>2, <2>3, <2>4 DEF Polling
<1>3. CASE Profits
  <2>1. CASE DayReduce
    <3>1. /\ jour' = jour /\ (tp' = [tp EXCEPT ![lot] = 0] \/ tp' = tp)
          /\ (ptp' = [ptp EXCEPT ![lot] = 0] \/ ptp' = ptp)
      BY <2>1 DEF DayReduce, engine
    <3> QED BY <1>e, <3>1
  <2>2. CASE DayClear
    <3>1. /\ jour' = jour /\ (tp' = [tp EXCEPT ![lot] = 0] \/ tp' = tp)
          /\ (ptp' = [ptp EXCEPT ![lot] = 0] \/ ptp' = ptp)
      BY <2>2 DEF DayClear
    <3> QED BY <1>e, <3>1
  <2>3. CASE TpClose
    <3>1. UNCHANGED <<jour, tp>> /\ (ptp' = [ptp EXCEPT ![lot] = 0] \/ ptp' = ptp)
      BY <2>3 DEF TpClose, CloseLot, engine
    <3> QED BY <1>e, <3>1
  <2>4. CASE TpRecord \/ TpChecked \/ DayRecord \/ Expired \/
             (\E l \in Lots : TpCheck(l)) \/ (\E l \in Lots : Expire(l))
    BY <2>4, <1>d
       DEF TpRecord, TpChecked, DayRecord, Expired, TpCheck, Expire, rows, engine
  <2> QED BY <1>3, <2>1, <2>2, <2>3, <2>4 DEF Profits
<1>4. CASE Syncing
  <2>1. CASE ShrReduce
    <3>1. /\ jour' = jour /\ (tp' = [tp EXCEPT ![lot] = 0] \/ tp' = tp)
          /\ (ptp' = [ptp EXCEPT ![lot] = tp[lot]] \/ ptp' = ptp)
      BY <2>1 DEF ShrReduce, engine
    <3> QED BY <1>e, <3>1
  <2>2. CASE ManClose
    <3>1. UNCHANGED <<jour, tp>> /\ (ptp' = [ptp EXCEPT ![lot] = 0] \/ ptp' = ptp)
      BY <2>2 DEF ManClose, CloseLot, engine
    <3> QED BY <1>e, <3>1
  <2>3. CASE SyncLots
    <3>1. UNCHANGED <<jour, tp>> /\ ptp'[k] \in {tp[k], ptp[k]}
      BY <2>3 DEF SyncLots, rows
    <3> QED BY <1>c, <3>1
  <2>4. CASE SyncFails \/ SyncVanished \/ Vanished \/ ShrRecord \/ ManRecord \/
             (\E l \in Lots : SyncShrinks(l)) \/ (\E l \in Lots : VanishTp(l)) \/
             (\E l \in Lots : VanishManual(l))
    BY <2>4, <1>d
       DEF SyncFails, SyncVanished, Vanished, ShrRecord, ManRecord,
           SyncShrinks, VanishTp, VanishManual, rows, engine
  <2> QED BY <1>4, <2>1, <2>2, <2>3, <2>4 DEF Syncing
<1>5. CASE Selling
  <2>1. CASE ClearTp
    <3>1. /\ jour' = jour /\ (tp' = [tp EXCEPT ![lot] = 0] \/ tp' = tp)
          /\ ptp' = [ptp EXCEPT ![lot] = 0]
      BY <2>1 DEF ClearTp
    <3> QED BY <1>e, <3>1
  <2>2. CASE Journal
    <3>1. PICK n : n = Len(book) + 1
      OBVIOUS
    <3>2. UNCHANGED <<tp, ptp>> /\ (jour' = [jour EXCEPT ![n] = "pre"] \/ jour' = jour)
      BY <2>2, <3>1 DEF Journal, rows, engine
    <3>3. n \notin Made
      BY <3>1, Numbers DEF TypeOK
    <3> QED BY <1>a, <1>b, <1>c, <3>2, <3>3
  <2>3. CASE Track
    <3>1. pc = "track" /\ UNCHANGED <<tp, ptp>> /\ (jour' = [jour EXCEPT ![cur] = "open"] \/ jour' = jour)
      BY <2>3 DEF Track, rows, engine
    <3>2. cur \in Of(lot) /\ tp[lot] # cur /\ ptp[lot] = 0
      BY <3>1 DEF Handy, HandNew, NewPCs
    <3>3. \A n \in {tp[k], ptp[k]} : n # 0 => n # cur
      BY <1>a, <3>2 DEF Of
    <3> QED BY <1>a, <1>b, <1>c, <3>1, <3>3
  <2>4. CASE Unjournal
    <3>1. UNCHANGED <<tp, ptp>>
          /\ (jour' = [jour EXCEPT ![cur] = IF jour[cur] = "pre" THEN "void" ELSE jour[cur]] \/ jour' = jour)
      BY <2>4 DEF Unjournal, rows, engine
    <3> QED BY <1>a, <1>b, <1>c, <3>1
  <2>5. CASE MakePlan \/ SellCancel \/ SellCancelLost \/ SubmitAccepted \/ SubmitRefused \/
             SubmitMaybe \/ SellFailed \/ SellsDone \/
             (\E l \in Lots : \E q \in 1 .. EntryQty[l] : Sell(l, q))
    BY <2>5, <1>d
       DEF MakePlan, SellCancel, SellCancelLost, SubmitAccepted, SubmitRefused, SubmitMaybe,
           SellFailed, SellsDone, Sell, rows, engine
  <2> QED BY <1>5, <2>1, <2>2, <2>3, <2>4, <2>5 DEF Selling
<1>6. CASE Delegating
  <2>1. CASE TpSave
    <3>1. /\ pc = "tpSave" /\ jour' = jour /\ (tp' = [tp EXCEPT ![lot] = cur] \/ tp' = tp)
          /\ (ptp' = [ptp EXCEPT ![lot] = cur] \/ ptp' = ptp)
      BY <2>1 DEF TpSave, engine
    <3>2. jour[cur] = "none"
      BY <3>1 DEF Handy, HandSave
    <3>3. {tp'[k], ptp'[k]} \subseteq {cur, tp[k], ptp[k]}
      BY <1>a, <3>1
    <3> QED BY <1>a, <3>1, <3>2, <3>3 DEF Goal
  <2>2. ASSUME NEW l \in Lots, ArmStop(l) \/ SetTimeExit(l)
        PROVE  Goal(k)
    <3>1. UNCHANGED <<jour, ptp>> /\ (tp' = tp \/ tp' = [tp EXCEPT ![l] = ptp[l]])
      BY <2>2, UpdateIs DEF Rewrites, engine
    <3> QED BY <1>e, <3>1
  <2>3. CASE TpCancel \/ TpCancelLost \/ TpAccepted \/ TpRefused \/ TpMaybe \/ TickDone \/
             (\E l \in Lots : PlanTp(l))
    BY <2>3, <1>d
       DEF TpCancel, TpCancelLost, TpAccepted, TpRefused, TpMaybe, TickDone, PlanTp, rows, engine
  <2> QED BY <1>6, <2>1, <2>2, <2>3 DEF Delegating
<1>7. CASE World
  BY <1>7, <1>d
     DEF World, FillOrder, KillOrder, SellByHand, CloseSession, NewDay, RestOver, rows, engine, cockpit
<1>8. CASE Crash
  <3>1. UNCHANGED <<tp, jour>> /\ ptp'[k] \in {0, tp[k]}
    BY <1>8 DEF Crash, rows
  <3> QED BY <1>c, <3>1
<1>9. CASE UNCHANGED vars
  BY <1>9, <1>d DEF vars, rows, engine
<1> QED
  BY <1>1, <1>2, <1>3, <1>4, <1>5, <1>6, <1>7, <1>8, <1>9 DEF Next

\* The rows stay what the orders sold, when an order without a fill, or with a row,
\* is pending no more.
LEMMA RowedKeeps ==
  ASSUME NEW l \in Lots, Rowed(l), row'[l] = "open" => row[l] = "open", sold'[l] = sold[l],
         FilledOf(l)' = FilledOf(l), FilledOf(l) \in Nat,
         Pending(l)' \subseteq Pending(l),
         \A n \in Pending(l) : /\ book'[n].filled = book[n].filled /\ book[n].filled \in Nat
                               /\ (n \in told') <=> (n \in told)
                               /\ n \notin Pending(l)' => n \in told \/ book[n].filled = 0
  PROVE  Rowed(l)'
<1> SUFFICES ASSUME row'[l] = "open"
             PROVE  /\ Pending(l)' \subseteq told' => sold'[l] = FilledOf(l)'
                    /\ \A n \in Pending(l)' : n \notin told' => sold'[l] = FilledOf(l)' - book'[n].filled
  BY DEF Rowed
<1>1. /\ Pending(l) \subseteq told => sold[l] = FilledOf(l)
      /\ \A n \in Pending(l) : n \notin told => sold[l] = FilledOf(l) - book[n].filled
  BY DEF Rowed
<1>2. ASSUME Pending(l)' \subseteq told'
      PROVE  sold'[l] = FilledOf(l)'
  <2>1. CASE Pending(l) \subseteq told
    BY <1>1, <2>1
  <2>2. ASSUME NEW n \in Pending(l), n \notin told
        PROVE  sold'[l] = FilledOf(l)'
    <3>1. sold[l] = FilledOf(l) - book[n].filled /\ book[n].filled = 0
      BY <1>1, <1>2, <2>2
    <3> QED BY <3>1
  <2> QED BY <2>1, <2>2
<1> QED BY <1>1, <1>2

\* What a recorded order leaves: nothing else is pending, and the rows are all the
\* orders sold; of the TPs only this one can have a row.
LEMMA Recorded ==
  ASSUME TypeOK, Referred, NEW l \in Lots, LotOK(l), LedgerOK(l), row[l] = "open",
         NEW n \in Pending(l), n \in told
  PROVE  Pending(l) = {n} /\ sold[l] = FilledOf(l) /\ (tp[l] \in told => tp[l] = n)
<1>1. Pending(l) = {n}
  BY DEF LotOK, OnePending
<1>2. sold[l] = FilledOf(l)
  BY <1>1 DEF LedgerOK, Rowed
<1>3. ASSUME tp[l] \in told PROVE tp[l] = n
  <2>1. tp[l] \in Of(l)
    BY <1>3, Numbers DEF Referred, NoneOr, TypeOK, Orders
  <2>2. tp[l] \in Pending(l)
    BY <1>3, <2>1 DEF LedgerOK, Told, Pending, Tracked, Active
  <2> QED BY <1>1, <2>2
<1> QED BY <1>1, <1>2, <1>3

\* What no order in doubt leaves: a lot that is not worked on and whose TP sold nothing.
LEMMA AllRowed ==
  ASSUME TypeOK, Referred, NEW l \in Lots, LotOK(l), LedgerOK(l), row[l] = "open",
         ~Working(l), ~Early, InHand = 0, tp[l] # 0 => book[tp[l]].filled = 0
  PROVE  /\ sold[l] = FilledOf(l) /\ TpDue(l) = 0 /\ tp[l] \notin told
         /\ \A n \in Pending(l) : book[n].filled = 0
<1>1. \A n \in Of(l) : n \notin work /\ n # 0 /\ book[n].filled \in Nat
  BY OrdersOf DEF Working
<1>2. \A n \in Of(l) : jour[n] = "open" => ~Active(n)
  BY <1>1 DEF LotOK, Worked
<1>3. \A n \in Pending(l) : n = tp[l] /\ book[n].filled = 0
  BY <1>1, <1>2 DEF Pending, Tracked
<1>4. tp[l] \notin told
  <2>1. tp[l] \in told => tp[l] \in Of(l) /\ tp[l] # 0
    BY Numbers DEF Referred, NoneOr, TypeOK, Orders
  <2> QED BY <2>1 DEF LedgerOK, Told
<1>5. sold[l] = FilledOf(l)
  <2>1. FilledOf(l) \in Nat
    BY OrdersOf
  <2>2. \A n \in Pending(l) \ told : sold[l] = FilledOf(l) - book[n].filled
    BY DEF LedgerOK, Rowed
  <2>3. Pending(l) \subseteq told => sold[l] = FilledOf(l)
    BY DEF LedgerOK, Rowed
  <2> QED BY <1>3, <2>1, <2>2, <2>3
<1> QED BY <1>3, <1>4, <1>5 DEF TpDue

\* Steps of the goroutine that neither write a row nor follow one that was written
Doubtful == {"finReduce", "finClose", "manClose", "shrReduce", "tpClose"}
Calmly == \/ pc \notin Doubtful \cup {"finDone"} /\ pc' \notin Doubtful
          \/ UNCHANGED <<pc, cur, lot, seen>>

\* Nothing of the lot changes in the store; its orders are tracked as before, and may end
SameRows(l) == /\ row'[l] = row[l] /\ qty'[l] = qty[l] /\ tp'[l] = tp[l]
               /\ sold'[l] = sold[l] /\ manual'[l] = manual[l]
               /\ \A n \in Of(l) : (n \in told') <=> (n \in told)
MayEnd(l) ==
  /\ Of(l)' = Of(l)
  /\ \A n \in Of(l) : /\ book'[n].filled = book[n].filled
                      /\ Live(n)' => Live(n)
                      /\ session' = "open" /\ Live(n)' => session = "open"
Followed(l) == \A n \in Of(l) : /\ (jour'[n] = "open") <=> (jour[n] = "open")
                                /\ (n = InHand') <=> (n = InHand)

\* The lot's orders with a row, and what of them is not taken off, are as before.
LEMMA LedgerKeeps ==
  ASSUME Basic, NEW l \in Lots, LedgerOK(l), SameRows(l), MayEnd(l), Followed(l),
         0 \notin told', session \in {"open", "closed"}, session' \in {"open", "closed"},
         \/ Calmly
         \/ lot # l /\ (lot' # l \/ pc' \notin Doubtful)
         \/ pc = "finDone" /\ cur \notin told /\ pc' \notin Doubtful
  PROVE  LedgerOK(l)'
<1>1. /\ row[l] \in {"open", "closed"} /\ qty[l] \in Nat /\ tp[l] \in {0} \cup Of(l) /\ 0 \notin told /\ NoLot # l
      /\ FilledOf(l) \in Nat
      /\ \A n \in Of(l) : n # 0 /\ book[n].filled \in Nat /\ book[n].lot = l
  <2>1. row[l] \in {"open", "closed"} /\ qty[l] \in Nat /\ NoLot # l
    BY ExitAssumption DEF Basic, TypeOK
  <2>2. tp[l] \in {0} \cup Of(l)
    BY DEF Basic, Referred, NoneOr
  <2>3. 0 \notin told
    BY Numbers DEF Basic, TypeOK, Referred
  <2>4. FilledOf(l) \in Nat /\ \A n \in Of(l) : n # 0 /\ book[n].filled \in Nat /\ book[n].lot = l
    BY OrdersOf DEF Basic
  <2> QED BY <2>1, <2>2, <2>3, <2>4
<1>2. FilledOf(l)' = FilledOf(l)
  BY FilledSame DEF Basic, MayEnd
<1>3. Tracked(l)' = Tracked(l)
  BY DEF SameRows, MayEnd, Followed, Tracked
<1>4. \A n \in Of(l) : /\ Active(n)' => Active(n)
                       /\ Active(n) /\ ~Active(n)' => book[n].filled = 0
  BY <1>1 DEF MayEnd, Active
<1>5. Rowed(l)'
  <2>1. Pending(l)' \subseteq Pending(l) /\ Pending(l) \subseteq Of(l)
    BY <1>3, <1>4 DEF Pending, Tracked
  <2>2. \A n \in Pending(l) : n \notin Pending(l)' => book[n].filled = 0
    BY <1>3, <1>4, <2>1 DEF Pending
  <2> QED BY <1>1, <1>2, <2>1, <2>2, RowedKeeps DEF LedgerOK, SameRows, MayEnd
<1>6. TpDue(l)' = TpDue(l) /\ (tp'[l] \in told' <=> tp[l] \in told)
      /\ (tp[l] \in told => book'[tp[l]].filled = book[tp[l]].filled)
  BY <1>1 DEF SameRows, MayEnd, TpDue
<1>7. Writing(l)' = Writing(l)
  BY DEF Writing, Calmly, Doubtful, SameRows
<1>8. Added(l)' /\ Ended(l)'
  BY <1>2, <1>6, <1>7 DEF LedgerOK, Added, Ended, SameRows
<1>9. TpPart(l)'
  BY <1>6 DEF LedgerOK, TpPart, SameRows, Calmly, Doubtful
<1>10. Told(l)'
  <2> SUFFICES ASSUME NEW n \in Of(l), n \in told'
               PROVE  /\ book'[n].filled > 0
                      /\ session' = "closed" \/ ~Live(n)'
                      /\ jour'[n] = "open" => cur' = n /\ pc' \in {"finReduce", "finClose", "finDone"}
    BY DEF Told, MayEnd
  <2>1. /\ n \in told /\ book[n].filled > 0
        /\ session = "closed" \/ ~Live(n)
        /\ jour[n] = "open" => cur = n /\ pc \in {"finReduce", "finClose", "finDone"}
    BY DEF LedgerOK, Told, SameRows
  <2>2. session' = "closed" \/ ~Live(n)'
    BY <2>1 DEF MayEnd
  <2>3. cur = n /\ pc \in {"finReduce", "finClose", "finDone"} => lot = l
    BY <1>1 DEF Basic, Handy, HandFin, FinPCs
  <2>4. jour'[n] = "open" => cur' = n /\ pc' \in {"finReduce", "finClose", "finDone"}
    BY <2>1, <2>3 DEF Followed, Calmly, Doubtful
  <2> QED BY <2>1, <2>2, <2>4 DEF MayEnd
<1> QED BY <1>5, <1>8, <1>9, <1>10 DEF LedgerOK

\* When all there was is in the rows, and what is pending sold nothing, the rows are right.
LEMMA RowedZero ==
  ASSUME NEW l, FilledOf(l) \in Nat, FilledOf(l)' = FilledOf(l), sold'[l] = FilledOf(l),
         \A n \in Pending(l)' : book'[n].filled = 0
  PROVE  Rowed(l)'
<1>1. \A n \in Pending(l)' : sold'[l] = FilledOf(l)' - book'[n].filled
  OBVIOUS
<1> QED BY <1>1 DEF Rowed

\* A lot that no order works on gets one, which sold nothing yet: the ledger stays.
LEMMA OneMoreKeeps ==
  ASSUME Basic, NEW l \in Lots, LotOK(l), LedgerOK(l), row[l] = "open", ~Working(l), ~Early, InHand = 0,
         tp[l] # 0 => ~Active(tp[l]),
         pc \notin Doubtful \cup {"finDone"}, pc' \notin Doubtful,
         UNCHANGED <<rows, ledger, session>>, FilledOf(l)' = FilledOf(l),
         NEW o, o \notin told, book'[o].filled = 0, jour'[o] # "open", Of(l)' \subseteq Of(l) \cup {o},
         \A m \in Of(l) \ {o} : /\ book'[m] = book[m] /\ m # InHand'
                                /\ (jour'[m] = "open") <=> (jour[m] = "open")
  PROVE  LedgerOK(l)'
<1> USE DEF Basic
<1>1. /\ \A m \in Of(l) : book[m].filled \in Nat /\ m # 0
      /\ FilledOf(l) \in Nat /\ tp[l] \in {0} \cup Of(l)
  BY OrdersOf DEF Referred, NoneOr
<1>2. tp[l] # 0 => book[tp[l]].filled = 0
  BY <1>1 DEF Active
<1>3. /\ sold[l] = FilledOf(l) /\ TpDue(l) = 0 /\ tp[l] \notin told
      /\ \A n \in Pending(l) : book[n].filled = 0
  BY <1>2, AllRowed
<1>4. /\ row' = row /\ qty' = qty /\ tp' = tp /\ told' = told /\ sold' = sold /\ manual' = manual /\ session' = session
  BY DEF rows, ledger
<1>5. \A n \in Pending(l)' : book'[n].filled = 0
  <2>1. ASSUME NEW n \in Of(l) \ {o}, n \in Pending(l)'
        PROVE  book'[n].filled = 0
    <3>1. n \in Tracked(l)' /\ Active(n)'
      BY <2>1 DEF Pending
    <3>2. jour'[n] = "open" \/ n = tp[l]
      BY <1>4, <2>1, <3>1 DEF Tracked
    <3>3. n \in Tracked(l) /\ Active(n)
      BY <2>1, <3>1, <3>2 DEF Tracked, Active, Live
    <3> QED BY <1>3, <2>1, <3>3 DEF Pending
  <2>2. Pending(l)' \subseteq Of(l) \cup {o}
    BY DEF Pending, Tracked
  <2> QED BY <2>1, <2>2
<1>6. Rowed(l)'
  BY <1>1, <1>3, <1>4, <1>5, RowedZero
<1>7. Added(l)'
  <2>1. Writing(l) = 0 /\ Writing(l)' = 0
    BY DEF Writing, Doubtful
  <2>2. TpDue(l)' = 0
    BY <1>3, <1>4 DEF TpDue
  <2> QED BY <1>3, <1>4, <2>1, <2>2 DEF LedgerOK, Added
<1>8. Ended(l)' /\ TpPart(l)'
  BY <1>3, <1>4 DEF Ended, TpPart
<1>9. Told(l)'
  <2>1. \A n \in Of(l) : n \in told => /\ book[n].filled > 0 /\ (session = "closed" \/ ~Live(n))
                                       /\ jour[n] # "open"
    BY DEF LedgerOK, Told, Doubtful
  <2>2. \A n \in Of(l)' : n \in told => n \in Of(l) \ {o}
    OBVIOUS
  <2> QED BY <1>4, <2>1, <2>2 DEF Told, Live
<1> QED BY <1>6, <1>7, <1>8, <1>9 DEF LedgerOK

\* Every step keeps the ledger of such a lot.
LEMMA LedgerNext ==
  ASSUME Sure, TpFree, HandTold, LedgersOK, Basic', BookStep, IsBook', [Next]_vars,
         NEW k \in Lots, k \notin astray' \cup twice'
  PROVE  LedgerOK(k)'
<1> USE DEF Basic, Sure
<1>a. k \notin astray \cup twice /\ LotOK(k) /\ LedgerOK(k)
  BY AstrayGrows DEF LotsOK, LedgersOK
<1>b. k = lot => HandSure
  BY <1>a DEF HandOK
<1>c. /\ row \in [Lots -> {"open", "closed"}] /\ qty \in [Lots -> Nat] /\ pos \in [Lots -> Nat]
      /\ tp \in [Lots -> 0 .. MaxOrders] /\ ptp \in [Lots -> 0 .. MaxOrders]
      /\ sold \in [Lots -> Nat] /\ manual \in [Lots -> Nat] /\ EntryQty[k] \in Nat
      /\ jour \in [Orders -> {"none", "pre", "void", "open", "done"}] /\ qty[k] \in 1 .. EntryQty[k]
      /\ seen \in Nat
  BY ExitAssumption DEF TypeOK
<1>d. /\ \A n \in Of(k) : n \in Made /\ n \in Orders /\ n # 0 /\ book[n].lot = k /\ book[n].filled \in Nat
      /\ FilledOf(k) \in Nat
  BY OrdersOf
<1>e. /\ row[k] = "open" => pos[k] = qty[k]
      /\ pos[k] > 0 => row[k] = "open"
  BY <1>a, <1>c DEF LotOK, Mirrored
<1>f. 0 \notin told' /\ session \in {"open", "closed"} /\ session' \in {"open", "closed"}
  <2>1. told' \subseteq Made' /\ Made' \subseteq Orders
    <3>1. IsBook' /\ Len(book') <= MaxOrders
      BY DEF TypeOK
    <3>2. Made' = 1 .. Len(book') /\ Len(book') \in Nat /\ MaxOrders \in Nat
      BY <3>1, SeqIs, ExitAssumption DEF IsBook, Made
    <3> QED BY <3>1, <3>2 DEF Referred, Orders
  <2> QED BY <2>1 DEF TypeOK, Orders
<1>g. ASSUME SameRows(k), MayEnd(k), Followed(k),
             \/ Calmly
             \/ lot # k /\ (lot' # k \/ pc' \notin Doubtful)
             \/ pc = "finDone" /\ cur \notin told /\ pc' \notin Doubtful
      PROVE  LedgerOK(k)'
  BY <1>a, <1>f, <1>g, LedgerKeeps
<1>h. ASSUME UNCHANGED <<rows, ledger, book>>, session' = "open" => session = "open", InHand' = InHand,
             \A n \in Orders : (jour'[n] = "open") <=> (jour[n] = "open"), Calmly
      PROVE  LedgerOK(k)'
  <2>1. SameRows(k) /\ MayEnd(k) /\ Followed(k)
    BY <1>d, <1>h DEF rows, ledger, SameRows, MayEnd, Followed, Of, Made, Live
  <2> QED BY <1>g, <1>h, <2>1
<1>i. pc \in FinPCs \cup NewPCs \cup {"tpSave"} \cup TpPCs => cur \in Of(lot)
  <2>1. pc \in FinPCs => cur \in Of(lot)
    BY DEF FinPCs, Handy, HandFin, Referred, Of
  <2>2. pc \in NewPCs \cup {"tpSave"} \cup TpPCs => cur \in Of(lot)
    BY DEF NewPCs, TpPCs, Handy, HandNew, HandSave, HandTp
  <2> QED BY <2>1, <2>2
<1>j. InHand \in {0, cur} /\ (InHand = cur /\ k # lot => InHand \notin Of(k))
  <2>1. InHand \in {0, cur}
    BY DEF InHand
  <2>2. InHand = 0 \/ cur \in Of(lot)
    BY <1>i DEF InHand, NewPCs
  <2> QED BY <1>d, <2>1, <2>2 DEF Of
<1>k. ASSUME lot # k, lot' # k \/ pc' \notin Doubtful, SameRows(k), SameOrders(k), InHand' \notin Of(k),
             \A n \in Of(k) : (jour'[n] = "open") <=> (jour[n] = "open"), session' = "open" => session = "open"
      PROVE  LedgerOK(k)'
  <2>1. MayEnd(k)
    BY <1>k DEF SameOrders, MayEnd, Live
  <2>2. Followed(k)
    BY <1>d, <1>j, <1>k DEF Followed
  <2> QED BY <1>g, <1>k, <2>1, <2>2
<1>l. row[k] = "open" => /\ Pending(k) \subseteq told => sold[k] = FilledOf(k)
                         /\ \A n \in Pending(k) : n \notin told => sold[k] = FilledOf(k) - book[n].filled
  BY <1>a DEF LedgerOK, Rowed
<1>n. row[k] = "open" => EntryQty[k] = qty[k] + sold[k] + manual[k] - Writing(k) - TpDue(k)
  BY <1>a DEF LedgerOK, Added
<1>o. row[k] = "open" /\ tp[k] \in told => book[tp[k]].filled < qty[k] \/ (pc = "tpClose" /\ lot = k)
  BY <1>a DEF LedgerOK, TpPart
<1>p. \A n \in Of(k) : n \in told => /\ book[n].filled > 0
                                     /\ session = "closed" \/ ~Live(n)
                                     /\ jour[n] = "open" => cur = n /\ pc \in {"finReduce", "finClose", "finDone"}
  BY <1>a DEF LedgerOK, Told
<1>q. /\ tp[k] # 0 => tp[k] \in Of(k) /\ jour[tp[k]] = "none"
      /\ 0 \notin told
  <2>1. tp[k] # 0 => tp[k] \in Of(k) /\ jour[tp[k]] = "none"
    BY DEF Referred, NoneOr, TpFree
  <2>2. 0 \notin told
    BY Numbers DEF TypeOK, Referred
  <2> QED BY <2>1, <2>2
<1>m. ASSUME UNCHANGED book
      PROVE  /\ Of(k)' = Of(k) /\ FilledOf(k)' = FilledOf(k) /\ SameOrders(k)
             /\ \A n \in Of(k) : (Live(n)' <=> Live(n)) /\ (Active(n)' <=> Active(n))
  BY <1>m DEF Of, Made, FilledOf, Filled, SameOrders, Live, Active
<1>s. ASSUME UNCHANGED <<book, session, told>>,
             \A n \in Of(k) : n \in told /\ jour'[n] = "open" => cur' = n /\ pc' \in {"finReduce", "finClose", "finDone"}
      PROVE  Told(k)'
  <2>1. Of(k)' = Of(k) /\ \A n \in Of(k) : (Live(n)' <=> Live(n)) /\ book'[n] = book[n]
    BY <1>m, <1>s DEF SameOrders
  <2>2. \A n \in Of(k) : n \in told' => /\ book'[n].filled > 0 /\ (session' = "closed" \/ ~Live(n)')
    BY <1>p, <1>s, <2>1
  <2> QED BY <1>s, <2>1, <2>2 DEF Told
<1>r. ASSUME UNCHANGED <<book, session>>, NEW c, told' \subseteq told \cup {c},
             c \in Of(k) => /\ book[c].filled > 0 /\ (session = "closed" \/ ~Live(c))
                            /\ jour'[c] = "open" => cur' = c /\ pc' \in {"finReduce", "finClose", "finDone"},
             \A n \in Of(k) : n \in told /\ jour'[n] = "open" => cur' = n /\ pc' \in {"finReduce", "finClose", "finDone"}
      PROVE  Told(k)'
  <2>1. \A n \in Of(k) : n \in told' => /\ book'[n].filled > 0 /\ (session' = "closed" \/ ~Live(n)')
    <3>1. Of(k)' = Of(k) /\ \A n \in Of(k) : (Live(n)' <=> Live(n)) /\ book'[n] = book[n]
      BY <1>m, <1>r DEF SameOrders
    <3> QED BY <1>p, <1>r, <3>1
  <2>2. \A n \in Of(k) : n \in told' /\ jour'[n] = "open" => cur' = n /\ pc' \in {"finReduce", "finClose", "finDone"}
    BY <1>r
  <2> QED BY <1>m, <1>r, <2>1, <2>2 DEF Told
<1>t. ASSUME NEW n, Dies(n), UNCHANGED <<rows, ledger, jour, session>>, InHand' = InHand, Calmly PROVE LedgerOK(k)'
  <2>1. SameRows(k) /\ Followed(k)
    BY <1>t DEF SameRows, Followed, rows, ledger
  <2>2. MayEnd(k)
    BY <1>d, <1>t DEF Dies, OneChanges, MayEnd, Of, Live
  <2> QED BY <1>g, <1>t, <2>1, <2>2

<1>1. CASE Following
  <2>1. CASE Begin
    BY <2>1, <1>h DEF Calmly, Doubtful, Begin, rows, ledger, engine, memory, account, hand, cockpit,
             InHand
  <2>2. CASE Load
    BY <2>2, <1>h DEF Calmly, Doubtful, Load, rows, ledger, engine, memory, account, hand, cockpit,
             InHand
  <2>3. CASE LoadFails
    BY <2>3, <1>h DEF Calmly, Doubtful, LoadFails, rows, ledger, engine, memory, account, hand,
             cockpit, InHand
  <2>4. CASE Loaded
    BY <2>4, <1>h DEF Calmly, Doubtful, Loaded, rows, ledger, engine, memory, account, hand, cockpit,
             InHand
  <2>5. ASSUME NEW n \in Orders, Resolve(n)
        PROVE  LedgerOK(k)'
    <3>1. /\ UNCHANGED <<rows, ledger, book, session, pc, cur, lot, seen>> /\ pc = "resolve" /\ n \in todo
          /\ (jour' = jour \/ jour' = [jour EXCEPT ![n] = "void"])
      BY <2>5 DEF Resolve, account, hand
    <3>2. jour[n] = "pre"
      BY <3>1 DEF Resolving
    <3> QED BY <1>c, <1>h, <3>1, <3>2 DEF Calmly, InHand
  <2> QED BY <1>1, <2>1, <2>2, <2>3, <2>4, <2>5 DEF Following
<1>2. CASE Polling
  <2>1. ASSUME NEW n \in Orders, PollWaits(n)
        PROVE  LedgerOK(k)'
    BY <2>1, <1>h DEF Calmly, Doubtful, PollWaits, rows, ledger, engine, memory, account, hand,
             cockpit, InHand
  <2>2. ASSUME NEW n \in Orders, PollEnds(n)
        PROVE  LedgerOK(k)'
    BY <2>2, <1>h DEF Calmly, Doubtful, PollEnds, Take, rows, ledger, engine, memory, account, hand,
             cockpit, InHand
  <2>3. ASSUME NEW n \in Orders, PollCloses(n)
        PROVE  LedgerOK(k)'
    BY <2>3, <1>h DEF Calmly, Doubtful, PollCloses, Take, rows, ledger, engine, memory, account, hand,
             cockpit, InHand
  <2>4. CASE Cancel
    <3>1. /\ pc = "cancel" /\ pc' \notin Doubtful /\ UNCHANGED <<rows, ledger, jour, session>> /\ InHand' = 0 /\ InHand = 0
          /\ (book' = book \/ (Live(cur) /\ book' = [book EXCEPT ![cur].state = "dead"]))
      BY <2>4 DEF Cancel, account, InHand, Doubtful
    <3>2. CASE book' = book
      BY <1>h, <3>1, <3>2 DEF Calmly, Doubtful
    <3>3. CASE Live(cur) /\ book' = [book EXCEPT ![cur].state = "dead"]
      <4>1. Dies(cur)
        BY <3>1, <3>3, CurMade, DieIs
      <4> QED BY <1>t, <3>1, <4>1 DEF Calmly, Doubtful
    <3> QED BY <3>1, <3>2, <3>3
  <2>5. CASE CancelFails
    BY <2>5, <1>h DEF Calmly, Doubtful, CancelFails, Return, rows, ledger, engine, memory, account,
             hand, cockpit, InHand
  <2>6. CASE PollsDone
    BY <2>6, <1>h DEF Calmly, Doubtful, PollsDone, Phase, Backs, rows, ledger, engine, memory,
             account, hand, cockpit, InHand
  <2>7. CASE FinNothing
    BY <2>7, <1>h DEF Calmly, Doubtful, FinNothing, rows, ledger, engine, memory, account, hand,
             cockpit, InHand
  <2>8. CASE FinRecord
    <3>1. /\ pc = "finRecord" /\ pc' \in {"finReduce", "finClose"} /\ seen > 0 /\ lot \in Has
          /\ UNCHANGED <<row, qty, tp, jour, manual, book, session, cur, lot, seen>>
          /\ \/ sold' = [sold EXCEPT ![lot] = sold[lot] + seen] /\ told' = told \cup {cur}
             \/ UNCHANGED <<sold, told>> /\ lot \in twice'
          /\ InHand' = 0 /\ InHand = 0
      BY <2>8 DEF FinRecord, Record, rows, account, hand, InHand
    <3>2. cur \in Of(lot)
      BY <1>i, <3>1 DEF FinPCs
    <3>3. CASE k # lot
      <4>1. SameRows(k)
        BY <1>c, <3>1, <3>2, <3>3 DEF SameRows, Of
      <4> QED BY <1>d, <1>k, <1>m, <3>1, <3>3, <4>1
    <3>4. CASE k = lot
      <4>1. /\ HandSure /\ row[k] = "open" /\ ~Live(cur) /\ seen = book[cur].filled /\ jour[cur] = "open"
            /\ cur \in Pending(k)
        <5>1. HandSure /\ pos[k] > 0 /\ row[k] = "open"
          BY <1>b, <1>e, <3>1, <3>4 DEF Has
        <5>2. ~Live(cur) /\ seen = book[cur].filled /\ cur \in work
          BY <3>1, <5>1 DEF HandSure, Handy, HandFin, FinPCs
        <5>3. jour[cur] = "open"
          BY <1>a, <3>2, <3>4, <5>2 DEF LotOK, Worked
        <5> QED BY <3>1, <3>2, <3>4, <5>1, <5>2, <5>3 DEF Pending, Tracked, Active
      <4>2. cur \notin told /\ Pending(k) = {cur} /\ tp[k] # cur
        <5>1. Pending(k) = {cur}
          BY <1>a, <4>1 DEF LotOK, OnePending
        <5> QED BY <1>d, <1>p, <1>q, <3>1, <3>2, <3>4, <4>1, <5>1
      <4>3. /\ sold'[k] = sold[k] + seen /\ told' = told \cup {cur} /\ qty'[k] = qty[k] /\ row'[k] = row[k]
            /\ tp'[k] = tp[k] /\ manual'[k] = manual[k]
        BY <1>c, <3>1, <3>4
      <4>4. Pending(k)' = Pending(k)
        BY <1>m, <3>1, <4>3 DEF Pending, Tracked
      <4>5. Rowed(k)'
        <5>1. sold[k] = FilledOf(k) - seen
          BY <1>l, <4>1, <4>2
        <5>2. sold'[k] = FilledOf(k)'
          BY <1>c, <1>d, <1>m, <3>1, <4>3, <5>1
        <5> QED BY <4>2, <4>3, <4>4, <5>2 DEF Rowed
      <4>6. Added(k)'
        <5>1. Writing(k) = 0 /\ Writing(k)' = seen
          BY <3>1, <3>4 DEF Writing
        <5>2. TpDue(k)' = TpDue(k) /\ TpDue(k) \in Nat
          BY <1>d, <1>q, <3>1, <4>2, <4>3 DEF TpDue
        <5> QED BY <1>c, <1>n, <4>1, <4>3, <5>1, <5>2 DEF Added
      <4>7. Ended(k)'
        BY <4>1, <4>3 DEF Ended
      <4>8. Told(k)'
        <5>1. \A n \in Of(k) : n \in told => jour[n] # "open"
          BY <1>p, <3>1
        <5> QED BY <1>r, <3>1, <4>1, <4>3, <5>1
      <4>9. TpPart(k)'
        BY <1>o, <3>1, <4>2, <4>3 DEF TpPart
      <4> QED BY <4>5, <4>6, <4>7, <4>8, <4>9 DEF LedgerOK
    <3> QED BY <3>3, <3>4
  <2>9. CASE FinReduce
    <3>1. /\ pc = "finReduce" /\ pc' = "finDone" /\ UNCHANGED <<row, ledger, jour, book, session, cur, lot, seen>>
          /\ \/ qty' = [qty EXCEPT ![lot] = pos[lot] - seen] /\ tp' = [tp EXCEPT ![lot] = 0]
             \/ UNCHANGED <<qty, tp>> /\ lot \in astray'
          /\ InHand' = 0 /\ InHand = 0
      BY <2>9 DEF FinReduce, Remainder, account, hand, InHand
    <3>3. CASE k # lot
      <4>1. SameRows(k)
        BY <1>c, <3>1, <3>3 DEF SameRows, ledger
      <4> QED BY <1>d, <1>k, <1>m, <3>1, <3>3, <4>1
    <3>4. CASE k = lot
      <4>1. /\ row[k] = "open" /\ cur \in told /\ cur \in Pending(k) /\ jour[cur] = "open"
        <5>1. HandSure /\ seen > 0 /\ lot \in Has /\ cur \in work
          BY <1>b, <3>1, <3>4 DEF Handy, HandFin, FinPCs
        <5>2. cur \in told /\ cur \in Of(k) /\ cur \in Pending(k)
          BY <1>a, <1>i, <3>1, <3>4, <5>1, FinKnown DEF HandTold, FinPCs
        <5>3. jour[cur] = "open"
          BY <1>a, <5>1, <5>2 DEF LotOK, Worked
        <5> QED BY <1>e, <3>4, <5>1, <5>2, <5>3 DEF Has
      <4>2. Pending(k) = {cur} /\ sold[k] = FilledOf(k) /\ tp[k] \notin told
        <5>1. Pending(k) = {cur} /\ sold[k] = FilledOf(k) /\ (tp[k] \in told => tp[k] = cur)
          BY <1>a, <4>1, Recorded
        <5> QED BY <1>q, <4>1, <5>1
      <4>3. /\ qty'[k] = qty[k] - seen /\ tp'[k] = 0 /\ row'[k] = row[k] /\ sold'[k] = sold[k] /\ manual'[k] = manual[k]
            /\ told' = told
        BY <1>c, <1>e, <3>1, <3>4, <4>1 DEF ledger
      <4>4. Pending(k)' \subseteq Pending(k)
        BY <1>d, <1>m, <3>1, <4>3 DEF Pending, Tracked
      <4>5. Rowed(k)'
        <5>1. sold'[k] = FilledOf(k)'
          BY <1>m, <3>1, <4>2, <4>3
        <5> QED BY <4>1, <4>2, <4>3, <4>4, <5>1 DEF Rowed
      <4>6. Added(k)'
        <5>1. Writing(k) = seen /\ Writing(k)' = 0
          BY <3>1, <3>4 DEF Writing
        <5>2. TpDue(k)' = 0 /\ TpDue(k) = 0
          BY <1>q, <4>2, <4>3 DEF TpDue
        <5> QED BY <1>c, <1>n, <4>1, <4>3, <5>1, <5>2 DEF Added
      <4>7. Ended(k)' /\ TpPart(k)'
        BY <1>q, <4>1, <4>3 DEF Ended, TpPart
      <4>8. Told(k)'
        BY <1>p, <1>s, <3>1, <4>3
      <4> QED BY <4>5, <4>6, <4>7, <4>8 DEF LedgerOK
    <3> QED BY <3>3, <3>4
  <2>10. CASE FinClose
    <3>1. /\ pc = "finClose" /\ UNCHANGED <<qty, tp, ledger, jour, book, session>>
          /\ \/ row' = [row EXCEPT ![lot] = "closed"]
             \/ UNCHANGED row /\ lot \in astray'
          /\ InHand' = 0 /\ InHand = 0 /\ pc' = "finDone" /\ cur' = cur
      BY <2>10 DEF FinClose, CloseLot, rows, account, InHand, hand
    <3>3. CASE k # lot
      <4>1. SameRows(k)
        BY <1>c, <3>1, <3>3 DEF SameRows, ledger
      <4> QED BY <1>d, <1>k, <1>m, <3>1, <3>3, <4>1 DEF Doubtful
    <3>4. CASE k = lot
      <4>1. row'[k] = "closed" /\ sold'[k] = sold[k] /\ manual'[k] = manual[k]
        BY <1>c, <3>1, <3>4 DEF ledger
      <4>2. /\ row[k] = "open" /\ sold[k] = FilledOf(k) /\ TpDue(k) = 0 /\ Writing(k) = seen
            /\ qty[k] - seen < (IF Dust > 1 THEN Dust ELSE 1)
        <5>1. cur \in told /\ cur \in Of(k) /\ jour[cur] = "open" /\ cur \in Pending(k) /\ row[k] = "open"
          <6>1. HandSure /\ seen > 0 /\ lot \in Has /\ cur \in work
            BY <1>b, <3>1, <3>4 DEF Handy, HandFin, FinPCs
          <6>2. cur \in told /\ cur \in Of(k) /\ cur \in Pending(k)
            BY <1>a, <1>i, <3>1, <3>4, <6>1, FinKnown DEF HandTold, FinPCs
          <6>3. jour[cur] = "open"
            BY <1>a, <6>1, <6>2 DEF LotOK, Worked
          <6>4. row[k] = "open"
            BY <1>e, <3>4, <6>1 DEF Has
          <6> QED BY <6>2, <6>3, <6>4
        <5>2. sold[k] = FilledOf(k) /\ (tp[k] \in told => tp[k] = cur)
          BY <1>a, <5>1, Recorded
        <5>3. TpDue(k) = 0
          BY <1>q, <5>1, <5>2 DEF TpDue
        <5>4. Writing(k) = seen
          BY <3>1, <3>4 DEF Writing
        <5>5. qty[k] - seen < Dust \/ ~(qty[k] - seen > 0)
          BY <1>e, <3>1, <3>4, <5>1 DEF Handy, Drops, Keeps, Remainder
        <5>6. qty[k] - seen < (IF Dust > 1 THEN Dust ELSE 1)
          BY <1>c, <5>5, ExitAssumption
        <5> QED BY <5>1, <5>2, <5>3, <5>4, <5>6
      <4>7. Ended(k)'
        <5>0. EntryQty[k] \in Nat /\ sold[k] \in Nat /\ manual[k] \in Nat /\ qty[k] \in Nat /\ seen \in Nat
          BY <1>c
        <5>1. EntryQty[k] - sold[k] - manual[k] = qty[k] - Writing(k) - TpDue(k)
          BY <1>n, <4>2, <5>0
        <5>2. FilledOf(k)' = FilledOf(k) /\ Dust \in Nat
          BY <1>m, <3>1, ExitAssumption
        <5>3. qty[k] - Writing(k) - TpDue(k) < (IF Dust > 1 THEN Dust ELSE 1)
          BY <4>2, <5>0, <5>2
        <5> QED BY <4>1, <4>2, <5>0, <5>1, <5>2, <5>3 DEF Ended
      <4>8. Told(k)'
        BY <1>p, <1>s, <3>1 DEF ledger
      <4> QED BY <4>1, <4>7, <4>8 DEF LedgerOK, Rowed, Added, TpPart
    <3> QED BY <3>3, <3>4
  <2>11. CASE FinDone
    <3>1. /\ pc = "finDone" /\ pc' = "poll" /\ lot' = NoLot /\ UNCHANGED <<rows, ledger, book, session>>
          /\ InHand' = 0 /\ InHand = 0
          /\ \/ jour' = [jour EXCEPT ![cur] = IF @ = "open" THEN "done" ELSE @]
             \/ jour' = jour /\ lot \in twice'
      BY <2>11 DEF FinDone, Return, Empty, account, InHand
    <3>2. cur \in Of(lot)
      BY <1>i, <3>1 DEF FinPCs
    <3>3. CASE k # lot
      <4>1. SameRows(k)
        BY <3>1 DEF SameRows, rows, ledger
      <4>2. \A n \in Of(k) : jour'[n] = jour[n]
        <5>1. cur \notin Of(k)
          BY <3>2, <3>3 DEF Of
        <5> QED BY <1>c, <1>d, <3>1, <5>1
      <4> QED BY <1>d, <1>k, <1>m, <3>1, <3>3, <4>1, <4>2 DEF Doubtful
    <3>4. CASE k = lot
      <4>1. jour' = [jour EXCEPT ![cur] = IF @ = "open" THEN "done" ELSE @] /\ cur \in Of(k) /\ cur \in Orders
        BY <1>d, <3>1, <3>2, <3>4
      <4>2. jour'[cur] # "open" /\ \A n \in Of(k) : jour'[n] = "open" => jour[n] = "open"
        BY <1>c, <1>d, <4>1
      <4>3. /\ qty'[k] = qty[k] /\ tp'[k] = tp[k] /\ row'[k] = row[k] /\ sold'[k] = sold[k] /\ manual'[k] = manual[k]
            /\ told' = told
        BY <3>1 DEF rows, ledger
      <4>4. Pending(k)' \subseteq Pending(k) /\ Pending(k) \subseteq Of(k) /\ \A n \in Pending(k) : n \notin Pending(k)' => n = cur
        <5>1. Tracked(k)' \subseteq Tracked(k) /\ \A n \in Tracked(k) : n \notin Tracked(k)' => n = cur
          BY <1>c, <1>d, <1>m, <3>1, <4>1, <4>2, <4>3 DEF Tracked
        <5> QED BY <1>m, <3>1, <5>1 DEF Pending, Tracked
      <4>5. Rowed(k)'
        <5>1. row[k] = "open" => cur \in told \/ book[cur].filled = 0
          <6>1. HandSure /\ seen = book[cur].filled
            BY <1>b, <3>1, <3>4 DEF HandSure, FinPCs
          <6>2. seen > 0 /\ row[k] = "open" => cur \in told
            BY <1>a, <3>1, <3>4 DEF HandTold
          <6> QED BY <1>c, <6>1, <6>2
        <5>2. FilledOf(k)' = FilledOf(k) /\ \A n \in Pending(k) : book'[n].filled = book[n].filled
          BY <1>m, <3>1
        <5>3. CASE row[k] = "open"
          BY <1>a, <1>d, <4>3, <4>4, <5>1, <5>2, <5>3, RowedKeeps DEF LedgerOK
        <5>4. CASE row[k] # "open"
          BY <4>3, <5>4 DEF Rowed
        <5> QED BY <5>3, <5>4
      <4>6. Added(k)'
        <5>1. Writing(k)' = Writing(k)
          BY <3>1 DEF Writing
        <5>2. TpDue(k)' = TpDue(k)
          BY <3>1, <4>3 DEF TpDue
        <5> QED BY <1>n, <4>3, <5>1, <5>2 DEF Added
      <4>7. Ended(k)' /\ TpPart(k)'
        <5>1. FilledOf(k)' = FilledOf(k)
          BY <1>m, <3>1
        <5> QED BY <1>a, <1>o, <3>1, <4>3, <5>1 DEF Ended, TpPart, LedgerOK
      <4>8. Told(k)'
        <5>1. \A n \in Of(k) : n \in told => jour'[n] # "open"
          BY <1>p, <4>2
        <5> QED BY <1>s, <3>1, <4>3, <5>1
      <4> QED BY <4>5, <4>6, <4>7, <4>8 DEF LedgerOK
    <3> QED BY <3>3, <3>4
  <2> QED BY <1>2, <2>1, <2>2, <2>3, <2>4, <2>5, <2>6, <2>7, <2>8, <2>9, <2>10, <2>11 DEF Polling
<1>3. CASE Profits
  <2>1. CASE TpRecord
    <3>1. /\ pc = "tpRecord" /\ pc' = "tpClose"
          /\ UNCHANGED <<row, qty, tp, jour, manual, book, session, cur, lot, seen>>
          /\ \/ sold' = [sold EXCEPT ![lot] = sold[lot] + seen] /\ told' = told \cup {cur}
             \/ UNCHANGED <<sold, told>> /\ (lot \in twice')
          /\ InHand' = 0 /\ InHand = 0
      BY <2>1 DEF TpRecord, Record, rows, account, hand, InHand
    <3>2. cur \in Of(lot)
      BY <1>i, <3>1 DEF TpPCs
    <3>3. CASE k # lot
      <4>1. SameRows(k)
        BY <1>c, <3>1, <3>2, <3>3 DEF SameRows, Of
      <4> QED BY <1>d, <1>k, <1>m, <3>1, <3>3, <4>1 DEF Doubtful
    <3>5. CASE UNCHANGED <<sold, told>> /\ cur \in told /\ pc = "dayRecord"
      BY <1>h, <3>1, <3>5 DEF rows, ledger, Calmly, Doubtful
    <3>4. CASE k = lot /\ sold' = [sold EXCEPT ![lot] = sold[lot] + seen] /\ told' = told \cup {cur} /\ (pc = "dayRecord" => cur \notin told)
      <4>1. /\ row[k] = "open" /\ cur \in Of(k) /\ seen > 0 /\ ~Live(cur) /\ cur = tp[k] /\ seen = book[cur].filled
            /\ seen = qty[k] /\ jour[cur] # "open" /\ cur \in Pending(k)
        <5>1. HandSure /\ row[k] = "open" /\ seen > 0 /\ cur \in Of(k)
          BY <1>b, <3>1, <3>2, <3>4 DEF Handy, HandTp, OpenLots, TpPCs
        <5>2. ~Live(cur) /\ cur = tp[k] /\ seen = book[cur].filled /\ seen = qty[k]
          BY <3>1, <3>4, <5>1 DEF HandSure, TpPCs
        <5> QED BY <1>d, <1>q, <5>1, <5>2 DEF Pending, Tracked, Active
      <4>2. cur \notin told /\ Pending(k) = {cur}
        <5>1. Pending(k) = {cur}
          BY <1>a, <4>1 DEF LotOK, OnePending
        <5> QED BY <1>c, <1>o, <3>1, <4>1, <5>1
      <4>3. /\ sold'[k] = sold[k] + seen /\ told' = told \cup {cur} /\ qty'[k] = qty[k] /\ row'[k] = row[k]
            /\ tp'[k] = tp[k] /\ manual'[k] = manual[k]
        BY <1>c, <3>1, <3>4
      <4>4. Pending(k)' = Pending(k)
        BY <1>m, <3>1, <4>3 DEF Pending, Tracked
      <4>5. Rowed(k)'
        <5>1. sold[k] = FilledOf(k) - seen
          BY <1>l, <4>1, <4>2
        <5>2. sold'[k] = FilledOf(k)'
          BY <1>c, <1>d, <1>m, <3>1, <4>3, <5>1
        <5> QED BY <4>2, <4>3, <4>4, <5>2 DEF Rowed
      <4>6. Added(k)'
        <5>1. Writing(k) = 0 /\ Writing(k)' = 0
          BY <3>1 DEF Writing
        <5>2. TpDue(k)' = seen /\ TpDue(k) = 0
          BY <3>1, <4>1, <4>2, <4>3 DEF TpDue
        <5> QED BY <1>c, <1>n, <4>1, <4>3, <5>1, <5>2 DEF Added
      <4>7. Ended(k)'
        BY <4>1, <4>3 DEF Ended
      <4>8. Told(k)'
        <5>1. \A n \in Of(k) : n \in told => jour[n] # "open"
          BY <1>p, <3>1
        <5> QED BY <1>r, <3>1, <4>1, <4>3, <5>1
      <4>9. TpPart(k)'
        BY <3>1, <3>4, <4>1, <4>2, <4>3 DEF TpPart
      <4> QED BY <4>5, <4>6, <4>7, <4>8, <4>9 DEF LedgerOK
    <3> QED BY <3>1, <3>3, <3>4
  <2>2. CASE TpClose
    <3>1. /\ pc = "tpClose" /\ UNCHANGED <<qty, tp, ledger, jour, book, session>>
          /\ \/ row' = [row EXCEPT ![lot] = "closed"]
             \/ UNCHANGED row /\ lot \in twice'
          /\ InHand' = 0 /\ InHand = 0 /\ lot' = NoLot /\ pc' \notin Doubtful
      BY <2>2 DEF TpClose, CloseLot, rows, account, InHand, Return, Empty, Backs, TpPCs, Doubtful
    <3>3. CASE k # lot
      <4>1. SameRows(k)
        BY <1>c, <3>1, <3>3 DEF SameRows, ledger
      <4> QED BY <1>d, <1>k, <1>m, <3>1, <3>3, <4>1 DEF Doubtful
    <3>4. CASE k = lot
      <4>1. row'[k] = "closed" /\ sold'[k] = sold[k] /\ manual'[k] = manual[k]
        BY <1>c, <3>1, <3>4 DEF ledger
      <4>2. /\ row[k] = "open" /\ sold[k] = FilledOf(k) /\ TpDue(k) = qty[k] /\ Writing(k) = 0
        <5>1. HandSure /\ cur \in Of(k) /\ seen > 0 /\ row[k] = "open" /\ cur \in told
          BY <1>a, <1>b, <3>1, <3>4 DEF Handy, HandTp, HandTold, OpenLots, TpPCs
        <5>2. cur = tp[k] /\ seen = book[cur].filled /\ seen = qty[k] /\ ~Live(cur)
          BY <3>1, <3>4, <5>1 DEF HandSure, TpPCs
        <5>3. cur \in Pending(k)
          BY <5>1, <5>2 DEF Pending, Tracked, Active
        <5>4. sold[k] = FilledOf(k)
          BY <1>a, <5>1, <5>3, Recorded
        <5>5. TpDue(k) = qty[k]
          BY <5>1, <5>2 DEF TpDue
        <5>6. Writing(k) = 0
          BY <3>1 DEF Writing
        <5> QED BY <5>1, <5>4, <5>5, <5>6
      <4>7. Ended(k)'
        <5>0. EntryQty[k] \in Nat /\ sold[k] \in Nat /\ manual[k] \in Nat /\ qty[k] \in Nat /\ seen \in Nat
          BY <1>c
        <5>1. EntryQty[k] - sold[k] - manual[k] = qty[k] - Writing(k) - TpDue(k)
          BY <1>n, <4>2, <5>0
        <5>2. FilledOf(k)' = FilledOf(k) /\ Dust \in Nat
          BY <1>m, <3>1, ExitAssumption
        <5>3. qty[k] - Writing(k) - TpDue(k) < (IF Dust > 1 THEN Dust ELSE 1)
          BY <4>2, <5>0, <5>2
        <5> QED BY <4>1, <4>2, <5>0, <5>1, <5>2, <5>3 DEF Ended
      <4>8. Told(k)'
        BY <1>p, <1>s, <3>1 DEF ledger
      <4> QED BY <4>1, <4>7, <4>8 DEF LedgerOK, Rowed, Added, TpPart
    <3> QED BY <3>3, <3>4
  <2>3. CASE TpChecked
    BY <2>3, <1>h DEF Calmly, Doubtful, TpChecked, Phase, rows, ledger, engine, memory, account, hand,
             cockpit, InHand
  <2>4. CASE DayRecord
    <3>1. /\ pc = "dayRecord" /\ pc' = "dayReduce"
          /\ UNCHANGED <<row, qty, tp, jour, manual, book, session, cur, lot, seen>>
          /\ \/ sold' = [sold EXCEPT ![lot] = sold[lot] + seen] /\ told' = told \cup {cur} /\ cur \notin told
             \/ UNCHANGED <<sold, told>> /\ (lot \in twice' \/ cur \in told)
          /\ InHand' = 0 /\ InHand = 0
      BY <2>4 DEF DayRecord, Record, rows, account, hand, InHand
    <3>2. cur \in Of(lot)
      BY <3>1 DEF Handy, HandDay, DayPCs, Referred, NoneOr, Has
    <3>3. CASE k # lot
      <4>1. SameRows(k)
        BY <1>c, <3>1, <3>2, <3>3 DEF SameRows, Of
      <4> QED BY <1>d, <1>k, <1>m, <3>1, <3>3, <4>1 DEF Doubtful
    <3>5. CASE UNCHANGED <<sold, told>> /\ cur \in told /\ pc = "dayRecord"
      BY <1>h, <3>1, <3>5 DEF rows, ledger, Calmly, Doubtful
    <3>4. CASE k = lot /\ sold' = [sold EXCEPT ![lot] = sold[lot] + seen] /\ told' = told \cup {cur} /\ (pc = "dayRecord" => cur \notin told)
      <4>1. /\ row[k] = "open" /\ cur \in Of(k) /\ seen > 0 /\ cur = tp[k] /\ seen = book[cur].filled
            /\ seen < qty[k] /\ jour[cur] # "open" /\ cur \in Pending(k) /\ (session = "closed" \/ ~Live(cur))
        <5>1. HandSure /\ row[k] = "open" /\ seen > 0 /\ seen < qty[k] /\ cur \in Of(k) /\ cur = ptp[k]
          BY <1>b, <1>e, <3>1, <3>2, <3>4 DEF Handy, HandDay, Has, DayPCs
        <5>2. seen = book[cur].filled /\ (session = "closed" \/ ~Live(cur))
          BY <3>1, <5>1 DEF HandSure, DayPCs
        <5>3. cur = tp[k]
          BY <1>a, <5>1, <5>2 DEF LotOK, TpKnown, Active
        <5> QED BY <1>d, <1>q, <5>1, <5>2, <5>3 DEF Pending, Tracked, Active
      <4>2. cur \notin told /\ Pending(k) = {cur}
        <5>1. Pending(k) = {cur}
          BY <1>a, <4>1 DEF LotOK, OnePending
        <5> QED BY <3>1, <3>4, <5>1
      <4>3. /\ sold'[k] = sold[k] + seen /\ told' = told \cup {cur} /\ qty'[k] = qty[k] /\ row'[k] = row[k]
            /\ tp'[k] = tp[k] /\ manual'[k] = manual[k]
        BY <1>c, <3>1, <3>4
      <4>4. Pending(k)' = Pending(k)
        BY <1>m, <3>1, <4>3 DEF Pending, Tracked
      <4>5. Rowed(k)'
        <5>1. sold[k] = FilledOf(k) - seen
          BY <1>l, <4>1, <4>2
        <5>2. sold'[k] = FilledOf(k)'
          BY <1>c, <1>d, <1>m, <3>1, <4>3, <5>1
        <5> QED BY <4>2, <4>3, <4>4, <5>2 DEF Rowed
      <4>6. Added(k)'
        <5>1. Writing(k) = 0 /\ Writing(k)' = 0
          BY <3>1 DEF Writing
        <5>2. TpDue(k)' = seen /\ TpDue(k) = 0
          BY <3>1, <4>1, <4>2, <4>3 DEF TpDue
        <5> QED BY <1>c, <1>n, <4>1, <4>3, <5>1, <5>2 DEF Added
      <4>7. Ended(k)'
        BY <4>1, <4>3 DEF Ended
      <4>8. Told(k)'
        <5>1. \A n \in Of(k) : n \in told => jour[n] # "open"
          BY <1>p, <3>1
        <5> QED BY <1>r, <3>1, <4>1, <4>3, <5>1
      <4>9. TpPart(k)'
        BY <3>1, <3>4, <4>1, <4>2, <4>3 DEF TpPart
      <4> QED BY <4>5, <4>6, <4>7, <4>8, <4>9 DEF LedgerOK
    <3> QED BY <3>1, <3>3, <3>4, <3>5
  <2>5. CASE DayReduce
    <3>1. /\ pc = "dayReduce" /\ pc' = "expire" /\ UNCHANGED <<row, ledger, jour, book, session>> /\ lot' = NoLot
          /\ \/ qty' = [qty EXCEPT ![lot] = pos[lot] - seen] /\ tp' = [tp EXCEPT ![lot] = 0]
             \/ UNCHANGED <<qty, tp>>
          /\ InHand' = 0 /\ InHand = 0
      BY <2>5 DEF DayReduce, Remainder, Return, Empty, account, InHand
    <3>2. CASE UNCHANGED <<qty, tp>>
      BY <1>h, <3>1, <3>2 DEF rows, Calmly, Doubtful
    <3>3. CASE k # lot
      <4>1. SameRows(k)
        BY <1>c, <3>1, <3>3 DEF SameRows, ledger
      <4> QED BY <1>d, <1>k, <1>m, <3>1, <3>3, <4>1 DEF Doubtful
    <3>4. CASE k = lot /\ qty' = [qty EXCEPT ![lot] = pos[lot] - seen] /\ tp' = [tp EXCEPT ![lot] = 0]
      <4>1. /\ row[k] = "open" /\ cur \in told /\ cur \in Pending(k) /\ cur = tp[k] /\ book[cur].filled = seen
        <5>1. HandSure /\ row[k] = "open" /\ 0 < seen /\ cur \in Of(k) /\ cur = ptp[k] /\ cur \in told
          BY <1>a, <1>b, <1>e, <3>1, <3>4 DEF Handy, HandDay, Has, DayPCs, Referred, NoneOr, HandTold
        <5>2. seen = book[cur].filled
          BY <3>1, <5>1 DEF HandSure
        <5>3. cur = tp[k]
          BY <1>a, <5>1, <5>2 DEF LotOK, TpKnown, Active
        <5> QED BY <1>d, <5>1, <5>2, <5>3 DEF Pending, Tracked, Active
      <4>2. Pending(k) = {cur} /\ sold[k] = FilledOf(k)
        BY <1>a, <4>1, Recorded
      <4>3. /\ qty'[k] = qty[k] - seen /\ tp'[k] = 0 /\ row'[k] = row[k] /\ sold'[k] = sold[k] /\ manual'[k] = manual[k]
            /\ told' = told
        BY <1>c, <1>e, <3>1, <3>4, <4>1 DEF ledger
      <4>4. Pending(k)' \subseteq Pending(k)
        BY <1>d, <1>m, <3>1, <4>3 DEF Pending, Tracked
      <4>5. Rowed(k)'
        <5>1. sold'[k] = FilledOf(k)'
          BY <1>m, <3>1, <4>2, <4>3
        <5> QED BY <4>1, <4>2, <4>3, <4>4, <5>1 DEF Rowed
      <4>6. Added(k)'
        <5>1. Writing(k) = 0 /\ Writing(k)' = 0
          BY <3>1 DEF Writing
        <5>2. TpDue(k)' = 0 /\ TpDue(k) = seen
          BY <1>q, <4>1, <4>3 DEF TpDue
        <5> QED BY <1>c, <1>n, <4>1, <4>3, <5>1, <5>2 DEF Added
      <4>7. Ended(k)' /\ TpPart(k)'
        BY <1>q, <4>1, <4>3 DEF Ended, TpPart
      <4>8. Told(k)'
        BY <1>p, <1>s, <3>1, <4>3
      <4> QED BY <4>5, <4>6, <4>7, <4>8 DEF LedgerOK
    <3> QED BY <3>1, <3>2, <3>3, <3>4
  <2>6. CASE DayClear
    <3>1. /\ pc = "dayClear" /\ pc' = "expire" /\ UNCHANGED <<row, qty, ledger, jour, book, session>> /\ lot' = NoLot
          /\ (tp' = [tp EXCEPT ![lot] = 0] \/ tp' = tp)
          /\ InHand' = 0 /\ InHand = 0 /\ ~Early
      BY <2>6 DEF DayClear, Return, Empty, account, InHand, Early
    <3>2. CASE tp' = tp
      BY <1>h, <3>1, <3>2 DEF rows, Calmly, Doubtful
    <3>3. CASE k # lot
      <4>1. SameRows(k)
        BY <1>c, <3>1, <3>3 DEF SameRows, ledger
      <4> QED BY <1>d, <1>k, <1>m, <3>1, <3>3, <4>1 DEF Doubtful
    <3>4. CASE k = lot /\ tp' = [tp EXCEPT ![lot] = 0]
      <4>1. row[k] = "open" /\ ~Working(k) /\ (tp[k] # 0 => book[tp[k]].filled = 0)
        <5>1. HandSure /\ row[k] = "open" /\ ~Working(k) /\ cur = ptp[k]
          BY <1>b, <1>e, <3>1, <3>4 DEF Handy, HandDay, Has, DayPCs
        <5>2. book[cur].filled = 0
          BY <3>1, <5>1 DEF HandSure
        <5>3. tp[k] # 0 => book[tp[k]].filled = 0
          BY <1>a, <1>d, <1>q, <5>1, <5>2 DEF LotOK, TpKnown, Active
        <5> QED BY <5>1, <5>3
      <4>2. /\ sold[k] = FilledOf(k) /\ TpDue(k) = 0 /\ tp[k] \notin told
            /\ \A n \in Pending(k) : book[n].filled = 0
        BY <1>a, <3>1, <4>1, AllRowed
      <4>3. /\ tp'[k] = 0 /\ row'[k] = row[k] /\ sold'[k] = sold[k] /\ manual'[k] = manual[k] /\ told' = told
            /\ qty'[k] = qty[k]
        BY <1>c, <3>1, <3>4, <4>1 DEF ledger
      <4>4. Pending(k)' \subseteq Pending(k) /\ Pending(k) \subseteq Of(k)
        BY <1>d, <1>m, <3>1, <4>3 DEF Pending, Tracked
      <4>5. Rowed(k)'
        <5>1. \A n \in Pending(k)' : book'[n].filled = 0
          BY <3>1, <4>2, <4>4
        <5> QED BY <1>d, <1>m, <3>1, <4>2, <4>3, <5>1, RowedZero
      <4>6. Added(k)'
        <5>1. Writing(k) = 0 /\ Writing(k)' = 0
          BY <3>1, <3>4 DEF Writing
        <5>2. TpDue(k)' = 0
          BY <1>q, <4>3 DEF TpDue
        <5> QED BY <1>c, <1>n, <4>1, <4>2, <4>3, <5>1, <5>2 DEF Added
      <4>7. Ended(k)' /\ TpPart(k)'
        BY <1>q, <4>1, <4>3 DEF Ended, TpPart
      <4>8. Told(k)'
        BY <1>p, <1>s, <3>1, <4>3
      <4> QED BY <4>5, <4>6, <4>7, <4>8 DEF LedgerOK
    <3> QED BY <3>1, <3>2, <3>3, <3>4
  <2>7. CASE Expired
    BY <2>7, <1>h DEF Calmly, Doubtful, Expired, rows, ledger, engine, memory, account, hand, cockpit,
             InHand
  <2>8. ASSUME NEW l \in Lots, TpCheck(l)
        PROVE  LedgerOK(k)'
    BY <2>8, <1>h DEF Calmly, Doubtful, TpCheck, Take, rows, ledger, engine, memory, account, hand,
             cockpit, InHand
  <2>9. ASSUME NEW l \in Lots, Expire(l)
        PROVE  LedgerOK(k)'
    BY <2>9, <1>h DEF Calmly, Doubtful, Expire, Take, rows, ledger, engine, memory, account, hand,
             cockpit, InHand
  <2> QED BY <1>3, <2>1, <2>2, <2>3, <2>4, <2>5, <2>6, <2>7, <2>8, <2>9 DEF Profits
<1>4. CASE Syncing
  <2>1. CASE SyncFails
    BY <2>1, <1>h DEF Calmly, Doubtful, SyncFails, rows, ledger, engine, memory, account, hand,
             cockpit, InHand
  <2>2. CASE SyncVanished
    BY <2>2, <1>h DEF Calmly, Doubtful, SyncVanished, Phase, rows, ledger, engine, memory, account,
             hand, cockpit, InHand
  <2>3. CASE SyncLots
    BY <2>3, <1>h DEF Calmly, Doubtful, SyncLots, rows, ledger, engine, memory, account, hand,
             cockpit, InHand
  <2>4. CASE Vanished
    BY <2>4, <1>h DEF Calmly, Doubtful, Vanished, rows, ledger, engine, memory, account, hand,
             cockpit, InHand
  <2>5. CASE ShrRecord
    <3>1. /\ pc = "shrRecord" /\ pc' = "shrReduce" /\ UNCHANGED <<rows, jour, told, sold, book, session, cur, lot, seen>>
          /\ (manual' = [manual EXCEPT ![lot] = manual[lot] + (qty[lot] - seen)] \/ (lot \in twice' /\ manual' = manual))
          /\ InHand' = 0 /\ InHand = 0
      BY <2>5 DEF ShrRecord, RecordManual, account, hand, InHand
    <3>2. UNCHANGED <<row, qty, tp>>
      BY <3>1 DEF rows
    <3>3. CASE k # lot
      <4>1. SameRows(k)
        BY <1>c, <3>1, <3>2, <3>3 DEF SameRows
      <4> QED BY <1>d, <1>k, <1>m, <3>1, <3>3, <4>1
    <3>4. CASE k = lot
      <4>1. manual'[k] = manual[k] + (qty[lot] - seen) /\ row[k] = "open" /\ seen < qty[k]
        BY <1>c, <3>1, <3>4 DEF Handy, HandShr, OpenLots, ShrPCs
      <4>4. Pending(k)' = Pending(k) /\ Pending(k) \subseteq Of(k)
        BY <1>m, <3>1, <3>2 DEF Pending, Tracked
      <4>5. Rowed(k)'
        <5>1. FilledOf(k)' = FilledOf(k) /\ \A n \in Pending(k) : book'[n].filled = book[n].filled
          BY <1>m, <3>1
        <5> QED BY <1>l, <3>1, <3>2, <4>1, <4>4, <5>1 DEF Rowed
      <4>6. Added(k)'
        <5>1. Writing(k) = 0 /\ Writing(k)' = qty[lot] - seen
          BY <3>1, <3>2, <3>4 DEF Writing
        <5>2. TpDue(k)' = TpDue(k) /\ TpDue(k) \in Nat
          BY <1>d, <1>q, <3>1, <3>2 DEF TpDue
        <5>3. EntryQty[k] = qty[k] + sold[k] + manual[k] - TpDue(k)
          BY <1>c, <1>n, <4>1, <5>1, <5>2
        <5>4. sold'[k] = sold[k] /\ qty'[k] = qty[k] /\ manual'[k] - Writing(k)' = manual[k]
          BY <1>c, <3>1, <3>2, <3>4, <4>1, <5>1
        <5>5. Writing(k)' \in Int /\ manual'[k] \in Int
          BY <1>c, <3>4, <4>1, <5>1
        <5> QED BY <1>c, <5>2, <5>3, <5>4, <5>5 DEF Added
      <4>7. Ended(k)' /\ TpPart(k)'
        BY <1>o, <3>1, <3>2, <4>1 DEF Ended, TpPart
      <4>8. Told(k)'
        BY <1>p, <1>s, <3>1
      <4> QED BY <4>5, <4>6, <4>7, <4>8 DEF LedgerOK
    <3> QED BY <3>3, <3>4
  <2>6. CASE ShrReduce
    <3>1. /\ pc = "shrReduce" /\ pc' = "plan" /\ UNCHANGED <<row, ledger, jour, book, session>> /\ lot' = NoLot
          /\ \/ qty' = [qty EXCEPT ![lot] = seen] /\ tp' = [tp EXCEPT ![lot] = 0]
             \/ UNCHANGED <<qty, tp>> /\ lot \in twice'
          /\ Slips(lot, tp[lot]) \subseteq astray' /\ InHand' = 0 /\ InHand = 0 /\ ~Early
      BY <2>6 DEF ShrReduce, Return, Empty, account, InHand, Early
    <3>3. CASE k # lot
      <4>1. SameRows(k)
        BY <1>c, <3>1, <3>3 DEF SameRows, ledger
      <4> QED BY <1>d, <1>k, <1>m, <3>1, <3>3, <4>1 DEF Doubtful
    <3>4. CASE k = lot /\ qty' = [qty EXCEPT ![lot] = seen] /\ tp' = [tp EXCEPT ![lot] = 0]
      <4>1. row[k] = "open" /\ ~Working(k) /\ (tp[k] # 0 => book[tp[k]].filled = 0)
        <5>1. row[k] = "open" /\ ~Working(k)
          BY <3>1, <3>4 DEF Handy, HandShr, OpenLots, ShrPCs
        <5>2. tp[k] # 0 => book[tp[k]].filled = 0
          BY <1>d, <1>q, <3>1, <3>4 DEF Slips
        <5> QED BY <5>1, <5>2
      <4>2. /\ sold[k] = FilledOf(k) /\ TpDue(k) = 0 /\ tp[k] \notin told
            /\ \A n \in Pending(k) : book[n].filled = 0
        BY <1>a, <3>1, <4>1, AllRowed
      <4>0. qty' = [qty EXCEPT ![lot] = seen]
        BY <3>1, <3>4
      <4>3. /\ tp'[k] = 0 /\ row'[k] = row[k] /\ sold'[k] = sold[k] /\ manual'[k] = manual[k] /\ told' = told
            /\ qty'[k] = seen
        BY <1>c, <3>1, <3>4, <4>0 DEF ledger
      <4>4. Pending(k)' \subseteq Pending(k) /\ Pending(k) \subseteq Of(k)
        BY <1>d, <1>m, <3>1, <4>3 DEF Pending, Tracked
      <4>5. Rowed(k)'
        <5>1. \A n \in Pending(k)' : book'[n].filled = 0
          BY <3>1, <4>2, <4>4
        <5> QED BY <1>d, <1>m, <3>1, <4>2, <4>3, <5>1, RowedZero
      <4>6. Added(k)'
        <5>1. Writing(k) = qty[k] - seen /\ Writing(k)' = 0
          BY <3>1, <3>4 DEF Writing
        <5>2. TpDue(k)' = 0
          BY <1>q, <4>3 DEF TpDue
        <5> QED BY <1>c, <1>n, <4>1, <4>2, <4>3, <5>1, <5>2 DEF Added
      <4>7. Ended(k)' /\ TpPart(k)'
        BY <1>q, <4>1, <4>3 DEF Ended, TpPart
      <4>8. Told(k)'
        BY <1>p, <1>s, <3>1, <4>3
      <4> QED BY <4>5, <4>6, <4>7, <4>8 DEF LedgerOK
    <3> QED BY <3>1, <3>3, <3>4
  <2>7. CASE ManRecord
    <3>1. /\ pc = "manRecord" /\ pc' = "manClose" /\ UNCHANGED <<rows, jour, told, sold, book, session, cur, lot, seen>>
          /\ (manual' = [manual EXCEPT ![lot] = manual[lot] + (seen)] \/ (lot \in twice' /\ manual' = manual))
          /\ InHand' = 0 /\ InHand = 0
      BY <2>7 DEF ManRecord, RecordManual, account, hand, InHand
    <3>2. UNCHANGED <<row, qty, tp>>
      BY <3>1 DEF rows
    <3>3. CASE k # lot
      <4>1. SameRows(k)
        BY <1>c, <3>1, <3>2, <3>3 DEF SameRows
      <4> QED BY <1>d, <1>k, <1>m, <3>1, <3>3, <4>1
    <3>4. CASE k = lot
      <4>1. manual'[k] = manual[k] + (seen) /\ row[k] = "open" /\ seen > 0
        BY <1>c, <3>1, <3>4 DEF Handy, HandMan, OpenLots, ManPCs
      <4>4. Pending(k)' = Pending(k) /\ Pending(k) \subseteq Of(k)
        BY <1>m, <3>1, <3>2 DEF Pending, Tracked
      <4>5. Rowed(k)'
        <5>1. FilledOf(k)' = FilledOf(k) /\ \A n \in Pending(k) : book'[n].filled = book[n].filled
          BY <1>m, <3>1
        <5> QED BY <1>l, <3>1, <3>2, <4>1, <4>4, <5>1 DEF Rowed
      <4>6. Added(k)'
        <5>1. Writing(k) = 0 /\ Writing(k)' = seen
          BY <3>1, <3>2, <3>4 DEF Writing
        <5>2. TpDue(k)' = TpDue(k) /\ TpDue(k) \in Nat
          BY <1>d, <1>q, <3>1, <3>2 DEF TpDue
        <5>3. EntryQty[k] = qty[k] + sold[k] + manual[k] - TpDue(k)
          BY <1>c, <1>n, <4>1, <5>1, <5>2
        <5>4. sold'[k] = sold[k] /\ qty'[k] = qty[k] /\ manual'[k] - Writing(k)' = manual[k]
          BY <1>c, <3>1, <3>2, <3>4, <4>1, <5>1
        <5>5. Writing(k)' \in Int /\ manual'[k] \in Int
          BY <1>c, <3>4, <4>1, <5>1
        <5> QED BY <1>c, <5>2, <5>3, <5>4, <5>5 DEF Added
      <4>7. Ended(k)' /\ TpPart(k)'
        BY <1>o, <3>1, <3>2, <4>1 DEF Ended, TpPart
      <4>8. Told(k)'
        BY <1>p, <1>s, <3>1
      <4> QED BY <4>5, <4>6, <4>7, <4>8 DEF LedgerOK
    <3> QED BY <3>3, <3>4
  <2>8. CASE ManClose
    <3>1. /\ pc = "manClose" /\ UNCHANGED <<qty, tp, ledger, jour, book, session>>
          /\ \/ row' = [row EXCEPT ![lot] = "closed"]
             \/ UNCHANGED row /\ lot \in twice'
          /\ InHand' = 0 /\ InHand = 0 /\ lot' = NoLot /\ pc' \notin Doubtful /\ Slips(lot, cur) \subseteq astray'
      BY <2>8 DEF ManClose, CloseLot, rows, account, InHand, Return, Empty, Backs, ManPCs, Doubtful
    <3>3. CASE k # lot
      <4>1. SameRows(k)
        BY <1>c, <3>1, <3>3 DEF SameRows, ledger
      <4> QED BY <1>d, <1>k, <1>m, <3>1, <3>3, <4>1 DEF Doubtful
    <3>4. CASE k = lot
      <4>1. row'[k] = "closed" /\ sold'[k] = sold[k] /\ manual'[k] = manual[k]
        BY <1>c, <3>1, <3>4 DEF ledger
      <4>2. /\ row[k] = "open" /\ sold[k] = FilledOf(k) /\ TpDue(k) = 0 /\ Writing(k) = seen /\ seen = qty[k]
        <5>1. HandSure /\ row[k] = "open" /\ ~Working(k) /\ cur = tp[k]
          BY <1>b, <3>1, <3>4 DEF Handy, HandMan, OpenLots, ManPCs
        <5>2. seen = qty[k]
          BY <3>1, <3>4, <5>1 DEF HandSure, ManPCs
        <5>3. tp[k] # 0 => book[tp[k]].filled = 0
          BY <1>d, <1>q, <3>1, <3>4, <5>1 DEF Slips
        <5>4. ~Early
          BY <3>1 DEF Early
        <5>5. sold[k] = FilledOf(k) /\ TpDue(k) = 0
          BY <1>a, <3>1, <5>1, <5>3, <5>4, AllRowed
        <5>6. Writing(k) = seen
          BY <3>1, <3>4 DEF Writing
        <5> QED BY <5>1, <5>2, <5>5, <5>6
      <4>7. Ended(k)'
        <5>0. EntryQty[k] \in Nat /\ sold[k] \in Nat /\ manual[k] \in Nat /\ qty[k] \in Nat /\ seen \in Nat
          BY <1>c
        <5>1. EntryQty[k] - sold[k] - manual[k] = qty[k] - Writing(k) - TpDue(k)
          BY <1>n, <4>2, <5>0
        <5>2. FilledOf(k)' = FilledOf(k) /\ Dust \in Nat
          BY <1>m, <3>1, ExitAssumption
        <5>3. qty[k] - Writing(k) - TpDue(k) < (IF Dust > 1 THEN Dust ELSE 1)
          BY <4>2, <5>0, <5>2
        <5> QED BY <4>1, <4>2, <5>0, <5>1, <5>2, <5>3 DEF Ended
      <4>8. Told(k)'
        BY <1>p, <1>s, <3>1 DEF ledger
      <4> QED BY <4>1, <4>7, <4>8 DEF LedgerOK, Rowed, Added, TpPart
    <3> QED BY <3>3, <3>4
  <2>9. ASSUME NEW l \in Lots, SyncShrinks(l)
        PROVE  LedgerOK(k)'
    BY <2>9, <1>h DEF Calmly, Doubtful, SyncShrinks, Take, rows, ledger, engine, memory, account,
             hand, cockpit, InHand
  <2>10. ASSUME NEW l \in Lots, VanishTp(l)
        PROVE  LedgerOK(k)'
    BY <2>10, <1>h DEF Calmly, Doubtful, VanishTp, Take, rows, ledger, engine, memory, account, hand,
             cockpit, InHand
  <2>11. ASSUME NEW l \in Lots, VanishManual(l)
        PROVE  LedgerOK(k)'
    BY <2>11, <1>h DEF Calmly, Doubtful, VanishManual, Take, rows, ledger, engine, memory, account,
             hand, cockpit, InHand
  <2> QED BY <1>4, <2>1, <2>2, <2>3, <2>4, <2>5, <2>6, <2>7, <2>8, <2>9, <2>10, <2>11 DEF Syncing
<1>5. CASE Selling
  <2>1. CASE MakePlan
    BY <2>1, <1>h DEF Calmly, Doubtful, MakePlan, rows, ledger, engine, memory, account, hand,
             cockpit, InHand
  <2>2. CASE SellCancel
    <3>1. /\ pc = "sellCancel" /\ pc' \notin Doubtful /\ UNCHANGED <<rows, ledger, jour, session>> /\ InHand' = 0 /\ InHand = 0
          /\ (book' = book \/ (Live(cur) /\ book' = [book EXCEPT ![cur].state = "dead"]))
      BY <2>2 DEF SellCancel, account, InHand, Doubtful, Return
    <3>2. CASE book' = book
      BY <1>h, <3>1, <3>2 DEF Calmly, Doubtful
    <3>3. CASE Live(cur) /\ book' = [book EXCEPT ![cur].state = "dead"]
      <4>1. Dies(cur)
        BY <3>1, <3>3, CurMade, DieIs
      <4> QED BY <1>t, <3>1, <4>1 DEF Calmly, Doubtful
    <3> QED BY <3>1, <3>2, <3>3
  <2>3. CASE SellCancelLost
    BY <2>3, <1>h DEF Calmly, Doubtful, SellCancelLost, Return, rows, ledger, engine, memory, account,
             hand, cockpit, InHand
  <2>4. CASE ClearTp
    <3>1. /\ pc = "clearTp" /\ pc' = "journal" /\ UNCHANGED <<row, qty, ledger, jour, book, session, lot>>
          /\ (tp' = [tp EXCEPT ![lot] = 0] \/ tp' = tp)
          /\ InHand' = 0 /\ InHand = 0 /\ ~Early
      BY <2>4 DEF ClearTp, account, hand, InHand, Early
    <3>2. CASE tp' = tp
      BY <1>h, <3>1, <3>2 DEF rows, Calmly, Doubtful
    <3>3. CASE k # lot
      <4>1. SameRows(k)
        BY <1>c, <3>1, <3>3 DEF SameRows, ledger
      <4> QED BY <1>d, <1>k, <1>m, <3>1, <3>3, <4>1 DEF Doubtful
    <3>4. CASE k = lot /\ tp' = [tp EXCEPT ![lot] = 0]
      <4>1. row[k] = "open" /\ ~Working(k) /\ (tp[k] # 0 => book[tp[k]].filled = 0)
        <5>1. HandSure /\ row[k] = "open" /\ ~Working(k) /\ cur = ptp[k]
          BY <1>b, <1>e, <3>1, <3>4 DEF Handy, HandSell, Has, SellPCs
        <5>2. ~Active(cur)
          BY <3>1, <5>1 DEF HandSure
        <5>3. tp[k] # 0 => book[tp[k]].filled = 0
          BY <1>a, <1>d, <1>q, <5>1, <5>2 DEF LotOK, TpKnown, Active
        <5> QED BY <5>1, <5>3
      <4>2. /\ sold[k] = FilledOf(k) /\ TpDue(k) = 0 /\ tp[k] \notin told
            /\ \A n \in Pending(k) : book[n].filled = 0
        BY <1>a, <3>1, <4>1, AllRowed
      <4>3. /\ tp'[k] = 0 /\ row'[k] = row[k] /\ sold'[k] = sold[k] /\ manual'[k] = manual[k] /\ told' = told
            /\ qty'[k] = qty[k]
        BY <1>c, <3>1, <3>4, <4>1 DEF ledger
      <4>4. Pending(k)' \subseteq Pending(k) /\ Pending(k) \subseteq Of(k)
        BY <1>d, <1>m, <3>1, <4>3 DEF Pending, Tracked
      <4>5. Rowed(k)'
        <5>1. \A n \in Pending(k)' : book'[n].filled = 0
          BY <3>1, <4>2, <4>4
        <5> QED BY <1>d, <1>m, <3>1, <4>2, <4>3, <5>1, RowedZero
      <4>6. Added(k)'
        <5>1. Writing(k) = 0 /\ Writing(k)' = 0
          BY <3>1, <3>4 DEF Writing
        <5>2. TpDue(k)' = 0
          BY <1>q, <4>3 DEF TpDue
        <5> QED BY <1>c, <1>n, <4>1, <4>2, <4>3, <5>1, <5>2 DEF Added
      <4>7. Ended(k)' /\ TpPart(k)'
        BY <1>q, <4>1, <4>3 DEF Ended, TpPart
      <4>8. Told(k)'
        BY <1>p, <1>s, <3>1, <4>3
      <4> QED BY <4>5, <4>6, <4>7, <4>8 DEF LedgerOK
    <3> QED BY <3>1, <3>2, <3>3, <3>4
  <2>5. CASE Journal
    <3>0. Len(book) \in Nat /\ Made = 1 .. Len(book) /\ Len(book) + 1 \notin Made /\ \A m \in Made : m # Len(book) + 1
      <4>1. Len(book) \in Nat /\ Made = 1 .. Len(book)
        BY Numbers DEF TypeOK
      <4> QED BY <4>1
    <3>1. /\ pc = "journal" /\ pc' = "submit" /\ UNCHANGED <<rows, ledger, session>> /\ InHand' = 0 /\ InHand = 0
          /\ ~Early /\ lot \in Lots /\ lot' = lot
          /\ (jour' = jour \/ jour' = [jour EXCEPT ![Len(book) + 1] = "pre"])
      BY <2>5, CurMade DEF Journal, account, InHand, Early, SellPCs
    <3>2. Appends("unsent")
      BY <2>5, <3>1, AddIs DEF Journal
    <3>3. /\ Of(k)' = IF k = lot THEN Of(k) \cup {Len(book) + 1} ELSE Of(k)
          /\ FilledOf(k)' = FilledOf(k)
          /\ \A m \in Of(k) : book'[m] = book[m]
      BY <3>2, FilledMore
    <3>4. CASE k # lot
      <4>1. SameOrders(k)
        BY <3>3, <3>4 DEF SameOrders
      <4>2. SameRows(k)
        BY <3>1 DEF SameRows, rows, ledger
      <4>3. \A m \in Of(k) : ((jour'[m] = "open") <=> (jour[m] = "open")) /\ m # InHand'
        BY <1>c, <1>d, <3>0, <3>1, <3>4
      <4> QED BY <1>k, <3>1, <3>4, <4>1, <4>2, <4>3 DEF Doubtful
    <3>5. CASE k = lot
      <4>1. lot \in Has /\ ~Working(lot) /\ ptp[lot] = 0
        BY <3>1 DEF Handy, HandSell, SellPCs
      <4>2. row[k] = "open" /\ ~Working(k) /\ (tp[k] # 0 => ~Active(tp[k]))
        <5>1. row[k] = "open"
          BY <1>c, <1>e, <3>5, <4>1 DEF Has
        <5> QED BY <1>a, <3>5, <4>1, <5>1 DEF LotOK, TpKnown, Referred, NoneOr
      <4>3. PICK o : o = Len(book) + 1
        OBVIOUS
      <4>4. /\ Of(k)' = Of(k) \cup {o} /\ book'[o].filled = 0 /\ o \notin told /\ jour'[o] # "open"
        <5>1. Of(k)' = Of(k) \cup {o} /\ book'[o].filled = 0
          BY <3>2, <3>3, <3>5, <4>3 DEF Appends
        <5>2. o \notin Made
          BY <3>0, <4>3
        <5>3. o \in Orders
          BY <3>0, <3>1, <4>3, ExitAssumption DEF Handy, Orders
        <5>4. o \notin told /\ jour[o] = "none"
          BY <5>2, <5>3 DEF Referred
        <5> QED BY <1>c, <3>1, <4>3, <5>1, <5>3, <5>4
      <4>5. \A m \in Of(k) \ {o} : /\ book'[m] = book[m] /\ m # InHand'
                                   /\ (jour'[m] = "open") <=> (jour[m] = "open")
        BY <1>c, <1>d, <3>0, <3>1, <3>3, <4>3
      <4> QED BY <1>a, <3>1, <3>3, <4>2, <4>4, <4>5, OneMoreKeeps DEF Doubtful
    <3> QED BY <3>4, <3>5
  <2>6. CASE SubmitAccepted
    <3>1. /\ pc = "submit" /\ pc' = "track" /\ UNCHANGED <<rows, ledger, jour, session, cur, lot, seen>>
          /\ InHand' = cur /\ InHand = 0
          /\ ~Early /\ Accept(cur) /\ cur \in Made
      BY <2>6, CurMade DEF SubmitAccepted, hand, account, InHand, Early, SellPCs, NewPCs
    <3>2. Accepted(cur)
      BY <2>6, <3>1, AcceptIs DEF SubmitAccepted
    <3>3. /\ cur \in Of(lot) /\ (jour[cur] \in {"none", "pre"})
          /\ lot \in Has /\ ~Working(lot) /\ ptp[lot] = 0 /\ book[cur].filled = 0
      BY <3>1 DEF Handy, HandNew, HandSell, NewPCs, SellPCs, Ordered
    <3>4. /\ Of(k)' = Of(k) /\ \A m \in Of(k) \ {cur} : book'[m] = book[m]
          /\ \A m \in Of(k) : book'[m].filled = book[m].filled
      BY <1>d, <3>2 DEF Accepted, OneChanges, Of
    <3>5. CASE k # lot
      <4>1. cur \notin Of(k)
        BY <3>3, <3>5 DEF Of
      <4>2. SameOrders(k) /\ SameRows(k)
        BY <3>1, <3>4, <4>1 DEF SameOrders, SameRows, rows, ledger
      <4> QED BY <1>d, <1>k, <3>1, <3>5, <4>1, <4>2
    <3>6. CASE k = lot
      <4>1. row[k] = "open" /\ ~Working(k) /\ (tp[k] # 0 => ~Active(tp[k]))
        <5>1. row[k] = "open"
          BY <1>c, <1>e, <3>3, <3>6 DEF Has
        <5> QED BY <1>a, <3>3, <3>6, <5>1 DEF LotOK, TpKnown, Referred, NoneOr
      <4>2. cur \notin told /\ cur \in Of(k) /\ book'[cur].filled = 0 /\ jour'[cur] # "open"
        BY <1>p, <3>1, <3>3, <3>4, <3>6
      <4>3. FilledOf(k)' = FilledOf(k)
        BY <3>4, FilledSame
      <4> QED BY <1>a, <3>1, <3>4, <4>1, <4>2, <4>3, OneMoreKeeps DEF Doubtful
    <3> QED BY <3>5, <3>6
  <2>7. CASE SubmitRefused
    BY <2>7, <1>h DEF Calmly, Doubtful, SubmitRefused, rows, ledger, engine, memory, account, hand,
             cockpit, InHand
  <2>8. CASE SubmitMaybe
    <3>1. /\ pc = "submit" /\ pc' = "unjournal" /\ UNCHANGED <<rows, ledger, jour, session, lot>> /\ InHand' = 0 /\ InHand = 0
          /\ cur \in Made
          /\ (UNCHANGED book \/ (session = "open" /\ Free >= seen /\ Accept(cur) /\ lot \in astray'))
      BY <2>8, CurMade DEF SubmitMaybe, account, InHand, SellPCs, NewPCs
    <3>2. CASE UNCHANGED book
      BY <1>h, <3>1, <3>2 DEF Calmly, Doubtful
    <3>3. CASE ~UNCHANGED book
      <4>1. Accepted(cur) /\ k # lot
        BY <3>1, <3>3, AcceptIs
      <4>2. cur \notin Of(k)
        BY <1>i, <3>1, <4>1 DEF Of, NewPCs
      <4>3. SameOrders(k)
        BY <1>d, <4>1, <4>2 DEF Accepted, OneChanges, Of, SameOrders
      <4>4. SameRows(k)
        BY <3>1 DEF SameRows, rows, ledger
      <4> QED BY <1>d, <1>k, <3>1, <4>1, <4>3, <4>4
    <3> QED BY <3>2, <3>3
  <2>9. CASE Track
    <3>1. /\ pc = "track" /\ pc' \notin Doubtful /\ lot' = NoLot /\ UNCHANGED <<rows, ledger, book, session>>
          /\ InHand' = 0 /\ InHand = cur
          /\ (jour' = [jour EXCEPT ![cur] = "open"] \/ (jour' = jour /\ lot \in astray'))
      BY <2>9 DEF Track, Return, Empty, account, InHand, Backs, SellPCs, Doubtful
    <3>2. cur \in Of(lot)
      BY <1>i, <3>1 DEF NewPCs
    <3>3. CASE k # lot
      <4>1. SameRows(k)
        BY <3>1 DEF SameRows, rows, ledger
      <4> QED BY <1>c, <1>d, <1>k, <1>m, <3>1, <3>2, <3>3, <4>1 DEF Of
    <3>4. CASE k = lot
      <4>1. cur \notin told /\ jour' = [jour EXCEPT ![cur] = "open"] /\ cur \in Of(k)
        BY <1>a, <3>1, <3>2, <3>4 DEF HandTold
      <4>3. /\ qty'[k] = qty[k] /\ tp'[k] = tp[k] /\ row'[k] = row[k] /\ sold'[k] = sold[k] /\ manual'[k] = manual[k]
            /\ told' = told
        BY <3>1 DEF rows, ledger
      <4>4. Tracked(k)' = Tracked(k)
        BY <1>c, <1>d, <1>m, <3>1, <4>1, <4>3 DEF Tracked
      <4>5. Rowed(k)'
        <5>1. Pending(k)' = Pending(k) /\ Pending(k) \subseteq Of(k)
          BY <1>m, <3>1, <4>4 DEF Pending, Tracked
        <5>2. FilledOf(k)' = FilledOf(k) /\ \A n \in Pending(k) : book'[n].filled = book[n].filled
          BY <1>m, <3>1
        <5> QED BY <1>l, <4>3, <5>1, <5>2 DEF Rowed
      <4>6. Added(k)'
        <5>1. Writing(k)' = Writing(k)
          BY <3>1 DEF Writing, Doubtful
        <5>2. TpDue(k)' = TpDue(k)
          BY <3>1, <4>3 DEF TpDue
        <5> QED BY <1>n, <4>3, <5>1, <5>2 DEF Added
      <4>7. Ended(k)' /\ TpPart(k)'
        <5>1. FilledOf(k)' = FilledOf(k)
          BY <1>m, <3>1
        <5> QED BY <1>a, <1>o, <3>1, <4>3, <5>1 DEF Ended, TpPart, LedgerOK
      <4>8. Told(k)'
        <5>1. \A n \in Of(k) : n \in told => jour[n] # "open" /\ n # cur
          BY <1>p, <3>1, <4>1
        <5>2. \A n \in Of(k) : n \in told => jour'[n] # "open"
          BY <1>c, <1>d, <4>1, <5>1
        <5> QED BY <1>s, <3>1, <4>3, <5>2
      <4> QED BY <4>5, <4>6, <4>7, <4>8 DEF LedgerOK
    <3> QED BY <3>3, <3>4
  <2>10. CASE Unjournal
    <3>1. /\ UNCHANGED <<rows, ledger, book, session>> /\ pc = "unjournal" /\ pc' \in {"askHeld", "sell"}
          /\ (jour' = jour \/ jour' = [jour EXCEPT ![cur] = IF @ = "pre" THEN "void" ELSE @])
      BY <2>10 DEF Unjournal, Return, account
    <3> QED BY <1>c, <1>h, <3>1 DEF Calmly, Doubtful, InHand
  <2>11. CASE SellFailed
    BY <2>11, <1>h DEF Calmly, Doubtful, SellFailed, Return, rows, ledger, engine, memory, account,
             hand, cockpit, InHand
  <2>12. CASE SellsDone
    BY <2>12, <1>h DEF Calmly, Doubtful, SellsDone, rows, ledger, engine, memory, account, hand,
             cockpit, InHand
  <2>13. ASSUME NEW l \in Lots, NEW q \in 1 .. EntryQty[l], Sell(l, q)
        PROVE  LedgerOK(k)'
    BY <2>13, <1>h DEF Calmly, Doubtful, Sell, Take, rows, ledger, engine, memory, account, hand,
             cockpit, InHand
  <2> QED BY <1>5, <2>1, <2>2, <2>3, <2>4, <2>5, <2>6, <2>7, <2>8, <2>9, <2>10, <2>11, <2>12,
             <2>13 DEF Selling
<1>6. CASE Delegating
  <2>1. CASE TpCancel
    <3>1. /\ pc = "tpCancel" /\ pc' \notin Doubtful /\ UNCHANGED <<rows, ledger, jour, session>> /\ InHand' = 0 /\ InHand = 0
          /\ (book' = book \/ (Live(cur) /\ book' = [book EXCEPT ![cur].state = "dead"]))
      BY <2>1 DEF TpCancel, account, InHand, Doubtful, Return
    <3>2. CASE book' = book
      BY <1>h, <3>1, <3>2 DEF Calmly, Doubtful
    <3>3. CASE Live(cur) /\ book' = [book EXCEPT ![cur].state = "dead"]
      <4>1. Dies(cur)
        BY <3>1, <3>3, CurMade, DieIs
      <4> QED BY <1>t, <3>1, <4>1 DEF Calmly, Doubtful
    <3> QED BY <3>1, <3>2, <3>3
  <2>2. CASE TpCancelLost
    BY <2>2, <1>h DEF Calmly, Doubtful, TpCancelLost, Return, rows, ledger, engine, memory, account,
             hand, cockpit, InHand
  <2>3. CASE TpAccepted
    <3>0. Len(book) \in Nat /\ Made = 1 .. Len(book) /\ Len(book) + 1 \notin Made /\ \A m \in Made : m # Len(book) + 1
      <4>1. Len(book) \in Nat /\ Made = 1 .. Len(book)
        BY Numbers DEF TypeOK
      <4> QED BY <4>1
    <3>1. /\ pc = "tpPlace" /\ pc' = "tpSave" /\ UNCHANGED <<rows, ledger, jour, session>> /\ InHand = 0
          /\ InHand' = Len(book) + 1 /\ ~Early /\ lot \in Lots /\ lot' = lot
      BY <2>3, CurMade DEF TpAccepted, account, InHand, Early, TpsPCs
    <3>2. Appends("live")
      BY <2>3, <3>1, AddIs DEF TpAccepted
    <3>3. /\ Of(k)' = IF k = lot THEN Of(k) \cup {Len(book) + 1} ELSE Of(k)
          /\ FilledOf(k)' = FilledOf(k)
          /\ \A m \in Of(k) : book'[m] = book[m]
      BY <3>2, FilledMore
    <3>4. CASE k # lot
      <4>1. SameOrders(k)
        BY <3>3, <3>4 DEF SameOrders
      <4>2. SameRows(k)
        BY <3>1 DEF SameRows, rows, ledger
      <4>3. \A m \in Of(k) : ((jour'[m] = "open") <=> (jour[m] = "open")) /\ m # InHand'
        BY <1>c, <1>d, <3>0, <3>1, <3>4
      <4> QED BY <1>k, <3>1, <3>4, <4>1, <4>2, <4>3 DEF Doubtful
    <3>5. CASE k = lot
      <4>1. lot \in Has /\ ~Working(lot) /\ (ptp[lot] = 0 \/ ~Active(ptp[lot]))
        BY <1>b, <3>1, <3>5 DEF Handy, HandTps, TpsPCs, HandSure
      <4>2. row[k] = "open" /\ ~Working(k) /\ (tp[k] # 0 => ~Active(tp[k]))
        <5>1. row[k] = "open"
          BY <1>c, <1>e, <3>5, <4>1 DEF Has
        <5> QED BY <1>a, <3>5, <4>1, <5>1 DEF LotOK, TpKnown, Referred, NoneOr
      <4>3. PICK o : o = Len(book) + 1
        OBVIOUS
      <4>4. /\ Of(k)' = Of(k) \cup {o} /\ book'[o].filled = 0 /\ o \notin told /\ jour'[o] # "open"
        <5>1. Of(k)' = Of(k) \cup {o} /\ book'[o].filled = 0
          BY <3>2, <3>3, <3>5, <4>3 DEF Appends
        <5>2. o \notin Made
          BY <3>0, <4>3
        <5>3. o \in Orders
          BY <3>0, <3>1, <4>3, ExitAssumption DEF Handy, Orders
        <5>4. o \notin told /\ jour[o] = "none"
          BY <5>2, <5>3 DEF Referred
        <5> QED BY <1>c, <3>1, <4>3, <5>1, <5>3, <5>4
      <4>5. \A m \in Of(k) \ {o} : /\ book'[m] = book[m] /\ m # InHand'
                                   /\ (jour'[m] = "open") <=> (jour[m] = "open")
        BY <1>c, <1>d, <3>0, <3>1, <3>3, <4>3
      <4> QED BY <1>a, <3>1, <3>3, <4>2, <4>4, <4>5, OneMoreKeeps DEF Doubtful
    <3> QED BY <3>4, <3>5
  <2>4. CASE TpRefused
    BY <2>4, <1>h DEF Calmly, Doubtful, TpRefused, Return, rows, ledger, engine, memory, account,
             hand, cockpit, InHand
  <2>5. CASE TpMaybe
    <3>0. Len(book) \in Nat /\ Made = 1 .. Len(book) /\ Len(book) + 1 \notin Made /\ \A m \in Made : m # Len(book) + 1
      <4>1. Len(book) \in Nat /\ Made = 1 .. Len(book)
        BY Numbers DEF TypeOK
      <4> QED BY <4>1
    <3>1. /\ pc = "tpPlace" /\ pc' = "tps" /\ UNCHANGED <<rows, ledger, jour, session>> /\ InHand = 0
          /\ InHand' = 0 /\ lot \in astray' /\ lot' = NoLot
      BY <2>5, CurMade DEF TpMaybe, Return, Empty, account, InHand
    <3>2. Appends("live")
      <4>1. lot \in Lots
        BY <3>1, CurMade DEF TpsPCs
      <4> QED BY <2>5, <4>1, <3>1, AddIs DEF TpMaybe
    <3>3. /\ Of(k)' = IF k = lot THEN Of(k) \cup {Len(book) + 1} ELSE Of(k)
          /\ FilledOf(k)' = FilledOf(k)
          /\ \A m \in Of(k) : book'[m] = book[m]
      BY <3>2, FilledMore
    <3>4. CASE k # lot
      <4>1. SameOrders(k)
        BY <3>3, <3>4 DEF SameOrders
      <4>2. SameRows(k)
        BY <3>1 DEF SameRows, rows, ledger
      <4>3. \A m \in Of(k) : ((jour'[m] = "open") <=> (jour[m] = "open")) /\ m # InHand'
        BY <1>c, <1>d, <3>0, <3>1, <3>4
      <4> QED BY <1>k, <3>1, <3>4, <4>1, <4>2, <4>3 DEF Doubtful
    <3> QED BY <3>1, <3>4
  <2>6. CASE TpSave
    <3>1. /\ pc = "tpSave" /\ pc' = "tps" /\ UNCHANGED <<row, ledger, book, jour, session>> /\ InHand' = 0 /\ InHand = cur
          /\ lot' = NoLot
          /\ \/ qty' = [qty EXCEPT ![lot] = seen] /\ tp' = [tp EXCEPT ![lot] = cur]
             \/ UNCHANGED <<qty, tp>> /\ lot \in astray'
      BY <2>6 DEF TpSave, Return, Empty, account, InHand
    <3>2. cur \in Of(lot) /\ lot \in Has /\ seen = pos[lot] /\ ~Working(lot)
      BY <3>1 DEF Handy, HandSave, HandTps, TpsPCs
    <3>3. CASE k # lot
      <4>1. cur \notin Of(k)
        BY <3>2, <3>3 DEF Of
      <4>2. SameRows(k)
        BY <1>c, <3>1, <3>3 DEF SameRows, ledger
      <4> QED BY <1>d, <1>k, <1>m, <3>1, <3>3, <4>2 DEF Doubtful
    <3>4. CASE k = lot
      <4>1. row[k] = "open" /\ pos[k] = qty[k]
        BY <1>c, <1>e, <3>2, <3>4 DEF Has
      <4>2. /\ tp'[k] = cur /\ qty'[k] = qty[k] /\ row'[k] = row[k] /\ sold'[k] = sold[k] /\ manual'[k] = manual[k]
            /\ told' = told
        BY <1>c, <3>1, <3>2, <3>4, <4>1 DEF ledger
      <4>3. cur \notin told /\ (tp[k] # 0 => ~Active(tp[k]))
        <5>1. cur \notin told /\ (ptp[k] = 0 \/ ~Active(ptp[k]))
          BY <1>b, <3>1, <3>4 DEF HandSure
        <5> QED BY <1>a, <1>q, <4>1, <5>1 DEF LotOK, TpKnown
      <4>4. tp[k] \notin told
        BY <1>p, <1>q, <4>3 DEF Active
      <4>5. Tracked(k)' \subseteq Tracked(k) /\ \A n \in Tracked(k) : n \notin Tracked(k)' => n = tp[k] /\ n # 0
        BY <1>d, <1>m, <3>1, <3>2, <3>4, <4>2 DEF Tracked
      <4>6. Pending(k)' = Pending(k) /\ Pending(k) \subseteq Of(k)
        BY <1>m, <3>1, <4>3, <4>5 DEF Pending, Tracked
      <4>7. Rowed(k)'
        <5>1. FilledOf(k)' = FilledOf(k) /\ \A n \in Pending(k) : book'[n].filled = book[n].filled
          BY <1>m, <3>1
        <5> QED BY <1>l, <4>2, <4>6, <5>1 DEF Rowed
      <4>8. Added(k)'
        <5>1. Writing(k) = 0 /\ Writing(k)' = 0
          BY <3>1 DEF Writing
        <5>2. TpDue(k) = 0 /\ TpDue(k)' = 0
          BY <4>2, <4>3, <4>4 DEF TpDue
        <5> QED BY <1>n, <4>1, <4>2, <5>1, <5>2 DEF Added
      <4>9. Ended(k)' /\ TpPart(k)'
        BY <4>1, <4>2, <4>3 DEF Ended, TpPart
      <4>10. Told(k)'
        BY <1>p, <1>s, <3>1, <4>2
      <4> QED BY <4>7, <4>8, <4>9, <4>10 DEF LedgerOK
    <3> QED BY <3>3, <3>4
  <2>7. CASE TickDone
    BY <2>7, <1>h DEF Calmly, Doubtful, TickDone, rows, ledger, engine, memory, account, hand,
             cockpit, InHand
  <2>8. ASSUME NEW l \in Lots, PlanTp(l)
        PROVE  LedgerOK(k)'
    BY <2>8, <1>h DEF Calmly, Doubtful, PlanTp, Take, rows, ledger, engine, memory, account, hand,
             cockpit, InHand
  <2>9. ASSUME NEW l \in Lots, ArmStop(l) \/ SetTimeExit(l)
        PROVE  LedgerOK(k)'
    <3>1. /\ Rewrites(l) /\ UNCHANGED <<row, jour, ledger, book, session, pc, hand>>
          /\ qty'[k] = qty[k] \/ k = l
      <4>1. Rewrites(l)
        BY <2>9, UpdateIs
      <4> QED BY <1>c, <4>1 DEF Rewrites, account
    <3>2. InHand' = InHand /\ Calmly
      BY <3>1 DEF InHand, Calmly, hand
    <3>3. CASE tp'[k] = tp[k] /\ qty'[k] = qty[k]
      <4>1. SameRows(k) /\ MayEnd(k) /\ Followed(k)
        BY <3>1, <3>2, <3>3 DEF SameRows, MayEnd, Followed, ledger, Of, Made, Live
      <4> QED BY <1>g, <3>2, <4>1
    <3>4. CASE k = l /\ tp'[k] # tp[k]
      <4>1. /\ Pending(k)' = Pending(k) /\ qty'[k] = qty[k] /\ tp'[k] = ptp[k] /\ row[k] = "open"
            /\ pc = "tps" /\ UNCHANGED <<told, sold, manual, lot, seen>>
        <5>1. Pending(k)' = Pending(k) /\ qty'[k] = qty[k]
          BY <1>a, <3>1, <3>4, RewriteKeeps
        <5> QED BY <1>c, <1>e, <3>1, <3>4, <5>1 DEF Rewrites, Has, ledger, hand
      <4>2. tp[k] \notin told /\ ptp[k] \notin told
        <5>1. \A n \in Of(k) : n \in {tp[k], ptp[k]} => ~Active(n)
          BY <1>a, <3>4, <4>1 DEF LotOK, TpKnown
        <5>2. tp[k] \in {0} \cup Of(k) /\ ptp[k] \in {0} \cup Of(k)
          BY DEF Referred, NoneOr
        <5> QED BY <1>p, <1>q, <5>1, <5>2 DEF Active
      <4>3. FilledOf(k)' = FilledOf(k)
        BY <1>m, <3>1
      <4>4. Rowed(k)'
        BY <1>l, <3>1, <4>1, <4>3 DEF Rowed, ledger
      <4>5. Added(k)'
        <5>1. Writing(k) = 0 /\ Writing(k)' = 0
          BY <3>1, <4>1 DEF Writing
        <5>2. TpDue(k) = 0 /\ TpDue(k)' = 0
          BY <4>1, <4>2 DEF TpDue
        <5> QED BY <1>n, <3>1, <4>1, <5>1, <5>2 DEF Added
      <4>6. Ended(k)' /\ TpPart(k)'
        BY <3>1, <4>1, <4>2 DEF Ended, TpPart
      <4>7. Told(k)'
        BY <1>p, <1>s, <3>1, <4>1
      <4> QED BY <4>4, <4>5, <4>6, <4>7 DEF LedgerOK
    <3>5. k = l => qty'[k] = qty[k]
      BY <1>a, <3>1, RewriteKeeps
    <3>6. k # l => tp'[k] = tp[k]
      BY <1>c, <3>1 DEF Rewrites
    <3> QED BY <3>1, <3>3, <3>4, <3>5, <3>6
  <2> QED BY <1>6, <2>1, <2>2, <2>3, <2>4, <2>5, <2>6, <2>7, <2>8, <2>9 DEF Delegating
<1>7. CASE World
  <2>1. ASSUME NEW n \in Made, FillOrder(n)
        PROVE  LedgerOK(k)'
    <3>1. Fills(n) /\ UNCHANGED <<rows, ledger, jour, session, pc, cur, lot, seen>>
      BY <2>1, FillIs DEF FillOrder, cockpit, account, hand
    <3>2. SameRows(k) /\ Followed(k) /\ Of(k)' = Of(k)
      BY <3>1 DEF SameRows, Followed, rows, ledger, InHand, Fills, OneChanges, Of
    <3>3. CASE n \notin Of(k)
      <4>1. MayEnd(k)
        BY <1>d, <3>1, <3>2, <3>3 DEF MayEnd, Fills, OneChanges, Live
      <4> QED BY <1>g, <3>1, <3>2, <4>1 DEF Calmly
    <3>4. CASE n \in Of(k)
      <4>1. /\ session = "open" /\ row[k] = "open" /\ n \in Pending(k) /\ Pending(k) = {n} /\ n \notin told
            /\ book'[n].filled = book[n].filled + 1
        <5>1. Live(n) /\ session = "open" /\ book'[n].filled = book[n].filled + 1
          BY <3>1 DEF Fills
        <5>2. n \in Tracked(k) /\ row[k] = "open"
          BY <1>a, <3>4, <5>1 DEF LotOK, Offered
        <5>3. n \in Pending(k)
          BY <5>1, <5>2 DEF Pending, Active
        <5>4. Pending(k) = {n}
          BY <1>a, <5>3 DEF LotOK, OnePending
        <5> QED BY <1>p, <3>4, <5>1, <5>2, <5>3, <5>4
      <4>2. FilledOf(k)' = FilledOf(k) + 1 /\ \A m \in Of(k) \ {n} : book'[m] = book[m]
        BY <1>d, <3>1, <3>4, FilledOne DEF Fills, OneChanges
      <4>3. /\ qty'[k] = qty[k] /\ tp'[k] = tp[k] /\ row'[k] = row[k] /\ sold'[k] = sold[k] /\ manual'[k] = manual[k]
            /\ told' = told
        BY <3>1 DEF rows, ledger
      <4>4. Pending(k)' = {n}
        <5>1. Tracked(k)' = Tracked(k)
          BY <3>1, <3>2, <4>3 DEF Tracked, InHand
        <5>2. \A m \in Of(k) \ {n} : Active(m)' <=> Active(m)
          BY <4>2 DEF Active, Live
        <5>3. Active(n)'
          BY <1>d, <3>4, <4>1 DEF Active
        <5> QED BY <4>1, <5>1, <5>2, <5>3 DEF Pending, Tracked
      <4>5. Rowed(k)'
        <5>1. sold[k] = FilledOf(k) - book[n].filled
          BY <1>l, <4>1
        <5>2. sold'[k] = FilledOf(k)' - book'[n].filled
          BY <1>c, <1>d, <3>4, <4>1, <4>2, <4>3, <5>1
        <5> QED BY <4>1, <4>3, <4>4, <5>2 DEF Rowed
      <4>6. Added(k)'
        <5>1. Writing(k)' = Writing(k)
          BY <3>1, <4>3 DEF Writing
        <5>2. TpDue(k)' = TpDue(k)
          BY <1>q, <4>1, <4>2, <4>3 DEF TpDue
        <5> QED BY <1>n, <4>1, <4>3, <5>1, <5>2 DEF Added
      <4>7. Ended(k)' /\ TpPart(k)'
        BY <1>o, <1>q, <3>1, <4>1, <4>2, <4>3 DEF Ended, TpPart
      <4>8. Told(k)'
        <5>1. \A m \in Of(k) : m \in told => m # n
          BY <4>1
        <5>2. \A m \in Of(k) : m \in told => book'[m] = book[m]
          BY <4>2, <5>1
        <5> QED BY <1>p, <3>1, <3>2, <4>3, <5>2 DEF Told, Live
      <4> QED BY <4>5, <4>6, <4>7, <4>8 DEF LedgerOK
    <3> QED BY <3>3, <3>4
  <2>2. ASSUME NEW n \in Made, KillOrder(n)
        PROVE  LedgerOK(k)'
    <3>1. Dies(n) /\ UNCHANGED <<rows, ledger, jour, session, pc, cur, lot, seen>>
      BY <2>2, DieIs DEF KillOrder, cockpit, account, hand
    <3> QED BY <1>t, <3>1 DEF Calmly, InHand
  <2>3. CASE SellByHand
    BY <2>3, <1>h DEF Calmly, Doubtful, SellByHand, rows, ledger, engine, memory, account, hand,
             cockpit, InHand
  <2>4. CASE CloseSession
    BY <2>4, <1>h DEF Calmly, Doubtful, CloseSession, rows, ledger, engine, memory, account, hand,
             cockpit, InHand
  <2>5. CASE NewDay
    <3>1. Night /\ UNCHANGED <<rows, ledger, jour, pc, cur, lot, seen>>
      BY <2>5, NightIs DEF NewDay, cockpit, hand
    <3>2. SameRows(k) /\ Followed(k)
      BY <3>1 DEF SameRows, Followed, rows, ledger, InHand
    <3>3. MayEnd(k)
      BY <1>d, <3>1 DEF Night, MayEnd, Of, Live
    <3> QED BY <1>g, <3>1, <3>2, <3>3 DEF Calmly
  <2>6. ASSUME NEW l \in Lots, RestOver(l)
        PROVE  LedgerOK(k)'
    BY <2>6, <1>h DEF Calmly, Doubtful, RestOver, rows, ledger, engine, memory, account, hand,
             cockpit, InHand
  <2> QED BY <1>7, <2>1, <2>2, <2>3, <2>4, <2>5, <2>6 DEF World
<1>8. CASE Crash
  <3>1. /\ UNCHANGED <<rows, ledger, jour, book, session>> /\ InHand' = 0 /\ pc' = "idle" /\ lot' = NoLot
        /\ (pc \in {"track", "tpSave"} => k # lot) /\ (Unsettled => k # lot)
    BY <1>8 DEF Crash, Empty, account, InHand
  <3>2. SameRows(k) /\ MayEnd(k)
    BY <1>m, <3>1 DEF SameRows, MayEnd, SameOrders, rows, ledger
  <3>3. Followed(k)
    <4>1. CASE pc \in {"track", "tpSave"}
      BY <1>d, <1>i, <1>j, <3>1, <4>1 DEF Followed, InHand, Of, NewPCs
    <4>2. CASE pc \notin {"track", "tpSave"}
      BY <3>1, <4>2 DEF Followed, InHand
    <4> QED BY <4>1, <4>2
  <3>4. CASE Unsettled
    BY <1>c, <1>g, <3>1, <3>2, <3>3, <3>4 DEF Doubtful
  <3>5. CASE ~Unsettled /\ pc # "finDone"
    BY <1>g, <3>1, <3>2, <3>3, <3>5 DEF Unsettled, Calmly, Doubtful
  <3>6. CASE ~Unsettled /\ pc = "finDone"
    <4>1. seen = 0
      BY <1>c, <3>6 DEF Unsettled
    <4>2. CASE k # lot
      BY <1>g, <3>1, <3>2, <3>3, <4>2 DEF Doubtful
    <4>3. CASE k = lot
      <5>1. book[cur].filled = 0 /\ cur \in Of(k)
        BY <1>b, <1>i, <3>6, <4>1, <4>3 DEF HandSure, FinPCs
      <5>2. cur \notin told
        BY <1>p, <5>1
      <5> QED BY <1>g, <3>1, <3>2, <3>3, <3>6, <5>2 DEF Doubtful
    <4> QED BY <4>2, <4>3
  <3> QED BY <3>4, <3>5, <3>6
<1>9. CASE UNCHANGED vars
  BY <1>9, <1>h DEF vars, Calmly, rows, ledger, engine, memory, account, hand, cockpit, InHand
<1> QED
  BY <1>1, <1>2, <1>3, <1>4, <1>5, <1>6, <1>7, <1>8, <1>9 DEF Next

\* Where the order in hand has a row, or has none for sure
Written == {"finReduce", "finClose", "finDone", "tpClose", "dayReduce", "track"}

\* Every step keeps what is known of the row of the order in hand.
LEMMA HandToldNext ==
  ASSUME Sure, LedgersOK, HandTold, Basic', [Next]_vars
  PROVE  HandTold'
<1> USE DEF Basic, Sure
<1>a. ASSUME pc' \notin Written PROVE HandTold'
  BY <1>a DEF HandTold, Written
<1>b. astray \cup twice \subseteq astray' \cup twice'
  BY AstrayGrows
<1>c. ASSUME UNCHANGED <<rows, ledger, pc, cur, lot, seen>> PROVE HandTold'
  BY <1>b, <1>c DEF HandTold, rows, ledger
<1>d. ASSUME lot' \in Lots \ (astray' \cup twice') => lot' = lot /\ cur' = cur /\ cur \in told', pc' # "track" PROVE HandTold'
  BY <1>d DEF HandTold

<1>1. CASE Following
  <2>1. CASE Begin
    BY <2>1, <1>a DEF Written, Begin
  <2>2. CASE Load
    BY <2>2, <1>a DEF Written, Load
  <2>3. CASE LoadFails
    BY <2>3, <1>a DEF Written, LoadFails
  <2>4. CASE Loaded
    BY <2>4, <1>a DEF Written, Loaded
  <2>5. ASSUME NEW n \in Orders, Resolve(n)
        PROVE  HandTold'
    BY <2>5, <1>c DEF Written, Resolve, rows, ledger, hand, account, cockpit
  <2> QED BY <1>1, <2>1, <2>2, <2>3, <2>4, <2>5 DEF Following
<1>2. CASE Polling
  <2>1. ASSUME NEW n \in Orders, PollWaits(n)
        PROVE  HandTold'
    BY <2>1, <1>c DEF Written, PollWaits, rows, ledger, hand, account, cockpit
  <2>2. ASSUME NEW n \in Orders, PollEnds(n)
        PROVE  HandTold'
    BY <2>2, <1>a DEF Written, PollEnds, Take
  <2>3. ASSUME NEW n \in Orders, PollCloses(n)
        PROVE  HandTold'
    BY <2>3, <1>a DEF Written, PollCloses, Take
  <2>4. CASE Cancel
    BY <2>4, <1>a DEF Written, Cancel
  <2>5. CASE CancelFails
    BY <2>5, <1>a DEF Written, CancelFails, Return
  <2>6. CASE PollsDone
    BY <2>6, <1>a DEF Written, PollsDone, Phase, Backs
  <2>7. CASE FinNothing
    <3>1. /\ pc = "finRecord" /\ pc' = "finDone" /\ UNCHANGED <<rows, ledger, cur, lot, seen>> /\ (seen = 0 \/ lot \notin Has)
      BY <2>7 DEF FinNothing, hand
    <3>2. ASSUME lot \in Lots \ (astray' \cup twice'), seen > 0, row[lot] = "open"
          PROVE  FALSE
      <4>1. pos[lot] = qty[lot] /\ qty[lot] \in 1 .. EntryQty[lot]
        BY <1>b, <3>2 DEF LotsOK, LotOK, Mirrored, TypeOK
      <4>2. EntryQty[lot] \in Nat /\ seen \in Nat
        BY <3>2, ExitAssumption DEF TypeOK
      <4> QED BY <3>1, <3>2, <4>1, <4>2 DEF Has
    <3> QED BY <3>1, <3>2 DEF HandTold, rows
  <2>8. CASE FinRecord
    <3>1. /\ pc' \in {"finReduce", "finClose"} /\ UNCHANGED <<cur, lot, seen>> /\ (told' = told \cup {cur} \/ lot \in twice')
      BY <2>8 DEF FinRecord, Record, hand
    <3> QED BY <1>d, <3>1
  <2>9. CASE FinReduce
    <3>1. pc = "finReduce" /\ pc' = "finDone" /\ UNCHANGED <<cur, lot, seen>> /\ told' = told
      BY <2>9 DEF FinReduce, hand, ledger
    <3> QED BY <1>b, <1>d, <3>1 DEF HandTold
  <2>10. CASE FinClose
    <3>1. pc = "finClose" /\ pc' = "finDone" /\ UNCHANGED <<cur, lot, seen>> /\ told' = told
      BY <2>10 DEF FinClose, hand, ledger
    <3> QED BY <1>b, <1>d, <3>1 DEF HandTold
  <2>11. CASE FinDone
    BY <2>11, <1>a DEF Written, FinDone, Return
  <2> QED BY <1>2, <2>1, <2>2, <2>3, <2>4, <2>5, <2>6, <2>7, <2>8, <2>9, <2>10, <2>11 DEF Polling
<1>3. CASE Profits
  <2>1. CASE TpRecord
    <3>1. /\ pc' = "tpClose" /\ UNCHANGED <<cur, lot, seen>> /\ (told' = told \cup {cur} \/ lot \in twice')
      BY <2>1 DEF TpRecord, Record, hand
    <3> QED BY <1>d, <3>1
  <2>2. CASE TpClose
    BY <2>2, <1>a DEF Written, TpClose, Return, CloseLot, Backs, TpPCs, ManPCs
  <2>3. CASE TpChecked
    BY <2>3, <1>a DEF Written, TpChecked, Phase
  <2>4. CASE DayRecord
    <3>1. /\ pc' = "dayReduce" /\ UNCHANGED <<cur, lot, seen>>
          /\ (told' = told \cup {cur} \/ lot \in twice' \/ (cur \in told /\ told' = told))
      BY <2>4 DEF DayRecord, Record, hand
    <3> QED BY <1>d, <3>1
  <2>5. CASE DayReduce
    BY <2>5, <1>a DEF Written, DayReduce, Return
  <2>6. CASE DayClear
    BY <2>6, <1>a DEF Written, DayClear, Return
  <2>7. CASE Expired
    BY <2>7, <1>a DEF Written, Expired
  <2>8. ASSUME NEW l \in Lots, TpCheck(l)
        PROVE  HandTold'
    BY <2>8, <1>a, <1>c DEF Written, TpCheck, Take, rows, ledger, hand
  <2>9. ASSUME NEW l \in Lots, Expire(l)
        PROVE  HandTold'
    BY <2>9, <1>a, <1>c DEF Written, Expire, Take, rows, ledger, hand
  <2> QED BY <1>3, <2>1, <2>2, <2>3, <2>4, <2>5, <2>6, <2>7, <2>8, <2>9 DEF Profits
<1>4. CASE Syncing
  <2>1. CASE SyncFails
    BY <2>1, <1>a DEF Written, SyncFails
  <2>2. CASE SyncVanished
    BY <2>2, <1>a DEF Written, SyncVanished, Phase
  <2>3. CASE SyncLots
    BY <2>3, <1>a DEF Written, SyncLots
  <2>4. CASE Vanished
    BY <2>4, <1>a DEF Written, Vanished
  <2>5. CASE ShrRecord
    BY <2>5, <1>a DEF Written, ShrRecord
  <2>6. CASE ShrReduce
    BY <2>6, <1>a DEF Written, ShrReduce, Return
  <2>7. CASE ManRecord
    BY <2>7, <1>a DEF Written, ManRecord
  <2>8. CASE ManClose
    BY <2>8, <1>a DEF Written, ManClose, Return, Backs, TpPCs, ManPCs
  <2>9. ASSUME NEW l \in Lots, SyncShrinks(l)
        PROVE  HandTold'
    BY <2>9, <1>a DEF Written, SyncShrinks, Take
  <2>10. ASSUME NEW l \in Lots, VanishTp(l)
        PROVE  HandTold'
    BY <2>10, <1>a DEF Written, VanishTp, Take
  <2>11. ASSUME NEW l \in Lots, VanishManual(l)
        PROVE  HandTold'
    BY <2>11, <1>a DEF Written, VanishManual, Take
  <2> QED BY <1>4, <2>1, <2>2, <2>3, <2>4, <2>5, <2>6, <2>7, <2>8, <2>9, <2>10, <2>11 DEF Syncing
<1>5. CASE Selling
  <2>1. CASE MakePlan
    BY <2>1, <1>a DEF Written, MakePlan
  <2>2. CASE SellCancel
    BY <2>2, <1>a DEF Written, SellCancel, Return
  <2>3. CASE SellCancelLost
    BY <2>3, <1>a DEF Written, SellCancelLost, Return
  <2>4. CASE ClearTp
    BY <2>4, <1>a DEF Written, ClearTp
  <2>5. CASE Journal
    BY <2>5, <1>a DEF Written, Journal
  <2>6. CASE SubmitAccepted
    <3>1. /\ pc = "submit" /\ pc' = "track" /\ UNCHANGED <<ledger, cur, lot, seen>> /\ cur \in Of(lot) /\ book[cur].filled = 0
      BY <2>6 DEF SubmitAccepted, hand, Handy, HandNew, NewPCs, Ordered, Of
    <3>2. lot \in Lots \ (astray' \cup twice') => Told(lot)
      BY <1>b DEF LedgersOK, LedgerOK
    <3>3. lot \in Lots \ (astray' \cup twice') => cur \notin told
      BY <3>1, <3>2 DEF Told
    <3> QED BY <3>1, <3>3 DEF HandTold, ledger
  <2>7. CASE SubmitRefused
    BY <2>7, <1>a DEF Written, SubmitRefused
  <2>8. CASE SubmitMaybe
    BY <2>8, <1>a DEF Written, SubmitMaybe
  <2>9. CASE Track
    BY <2>9, <1>a DEF Written, Track, Return
  <2>10. CASE Unjournal
    BY <2>10, <1>a DEF Written, Unjournal, Return
  <2>11. CASE SellFailed
    BY <2>11, <1>a DEF Written, SellFailed, Return
  <2>12. CASE SellsDone
    BY <2>12, <1>a DEF Written, SellsDone
  <2>13. ASSUME NEW l \in Lots, NEW q \in 1 .. EntryQty[l], Sell(l, q)
        PROVE  HandTold'
    BY <2>13, <1>a DEF Written, Sell, Take
  <2> QED BY <1>5, <2>1, <2>2, <2>3, <2>4, <2>5, <2>6, <2>7, <2>8, <2>9, <2>10, <2>11, <2>12,
             <2>13 DEF Selling
<1>6. CASE Delegating
  <2>1. CASE TpCancel
    BY <2>1, <1>a DEF Written, TpCancel, Return
  <2>2. CASE TpCancelLost
    BY <2>2, <1>a DEF Written, TpCancelLost, Return
  <2>3. CASE TpAccepted
    BY <2>3, <1>a DEF Written, TpAccepted
  <2>4. CASE TpRefused
    BY <2>4, <1>a DEF Written, TpRefused, Return
  <2>5. CASE TpMaybe
    BY <2>5, <1>a DEF Written, TpMaybe, Return
  <2>6. CASE TpSave
    BY <2>6, <1>a DEF Written, TpSave, Return
  <2>7. CASE TickDone
    BY <2>7, <1>a DEF Written, TickDone
  <2>8. ASSUME NEW l \in Lots, PlanTp(l)
        PROVE  HandTold'
    BY <2>8, <1>a DEF Written, PlanTp, Take
  <2>9. ASSUME NEW l \in Lots, ArmStop(l) \/ SetTimeExit(l)
        PROVE  HandTold'
    BY <2>9, <1>a DEF Written, ArmStop, SetTimeExit, BeforeTps
  <2> QED BY <1>6, <2>1, <2>2, <2>3, <2>4, <2>5, <2>6, <2>7, <2>8, <2>9 DEF Delegating
<1>7. CASE World
  <2>1. ASSUME NEW n \in Made, FillOrder(n)
        PROVE  HandTold'
    BY <2>1, <1>c DEF Written, FillOrder, rows, ledger, hand, account, cockpit
  <2>2. ASSUME NEW n \in Made, KillOrder(n)
        PROVE  HandTold'
    BY <2>2, <1>c DEF Written, KillOrder, rows, ledger, hand, account, cockpit
  <2>3. CASE SellByHand
    BY <2>3, <1>c DEF Written, SellByHand, rows, ledger, hand, account, cockpit
  <2>4. CASE CloseSession
    BY <2>4, <1>c DEF Written, CloseSession, rows, ledger, hand, account, cockpit
  <2>5. CASE NewDay
    BY <2>5, <1>c DEF Written, NewDay, rows, ledger, hand, account, cockpit
  <2>6. ASSUME NEW l \in Lots, RestOver(l)
        PROVE  HandTold'
    BY <2>6, <1>c DEF Written, RestOver, rows, ledger, hand, account, cockpit
  <2> QED BY <1>7, <2>1, <2>2, <2>3, <2>4, <2>5, <2>6 DEF World
<1>8. CASE Crash
  BY <1>8, <1>a DEF Crash, Written
<1>9. CASE UNCHANGED vars
  BY <1>9, <1>c DEF vars, rows, ledger, hand
<1> QED
  BY <1>1, <1>2, <1>3, <1>4, <1>5, <1>6, <1>7, <1>8, <1>9 DEF Next

\* The whole of it: types, lots, orders and rows, by which each step goes.
Kept == Sure /\ TpFree /\ LedgersOK /\ HandTold

\* It holds at the start: there is no row, and no order.
LEMMA KeptInit ==
  ASSUME Init
  PROVE  Kept
<1>1. Sure
  BY SureInit
<1>2. TpFree /\ HandTold
  BY DEF Init, TpFree, HandTold
<1>3. ASSUME NEW l \in Lots
      PROVE  LedgerOK(l)
  <2>1. Of(l) = {} /\ row[l] = "open" /\ sold[l] = 0 /\ manual[l] = 0 /\ tp[l] = 0 /\ qty[l] = EntryQty[l] /\ told = {}
        /\ lot = NoLot /\ pc = "idle"
    BY <1>3 DEF Init, Of, Made
  <2>2. FilledOf(l) = 0
    BY <2>1, SumEmpty DEF FilledOf
  <2>3. Pending(l) = {}
    BY <2>1 DEF Pending, Tracked
  <2>4. EntryQty[l] \in Nat /\ Writing(l) = 0 /\ TpDue(l) = 0
    BY <1>3, <2>1, ExitAssumption DEF Writing, TpDue
  <2>5. Rowed(l)
    BY <2>1, <2>2, <2>3 DEF Rowed
  <2>6. Added(l)
    BY <2>1, <2>4 DEF Added
  <2> QED BY <2>1, <2>5, <2>6 DEF LedgerOK, Ended, Told, TpPart
<1> QED BY <1>1, <1>2, <1>3 DEF Kept, LedgersOK

\* Every step keeps it.
LEMMA KeptNext ==
  ASSUME Kept, [Next]_vars
  PROVE  Kept'
<1>1. Sure' /\ Basic' /\ BookStep /\ IsBook'
  BY SureNext, BasicNext DEF Kept, Sure
<1>2. TpFree'
  BY TpFreeNext DEF Kept, Sure
<1>3. HandTold'
  BY <1>1, HandToldNext DEF Kept
<1>4. LedgersOK'
  <2>1. \A l \in Lots : l \notin astray' \cup twice' => LedgerOK(l)'
    BY <1>1, LedgerNext DEF Kept
  <2> QED BY <2>1 DEF LedgersOK
<1> QED BY <1>1, <1>2, <1>3, <1>4 DEF Kept

\* The ledger of a lot that ended holds what its orders sold, once, and what is missing
\* was sold by hand (finishSell, closeTPFill, closeManual, attributeShrink), unless a fill
\* or a row of it was lost: Exit.LedgerTrue.
THEOREM LedgerCorrect == Spec => []LedgerTrue
<1>1. Kept /\ [Next]_vars => Kept'
  BY KeptNext
<1>2. Kept => LedgerTrue
  BY DEF Kept, LedgersOK, LedgerOK, Ended, LedgerTrue
<1> QED BY KeptInit, <1>1, <1>2, PTL DEF Spec
=============================================================================
