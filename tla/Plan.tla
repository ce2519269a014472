-------------------------------- MODULE Plan --------------------------------
(***************************************************************************)
(* The plan of a tick: what the engine makes of the last snapshot of every *)
(* source and of the lots it holds (internal/reconcile, engine.planLocked),*)
(* with the sizes and the limits of the automatic allocation               *)
(* (internal/alloc, engine/alloc.go, internal/sizing, internal/book), and  *)
(* what the executor's tick then does to the lots, in its order: local     *)
(* exits, exits, stops, time exits, take-profit orders, entries.           *)
(*                                                                         *)
(* A tick is one step: publishers, the operator and the clock move between *)
(* ticks (what they do inside one is Control's subject), and an order is   *)
(* filled or refused within it (orders in flight are Entry's and Exit's).  *)
(* Money is in whole units, a share is the smallest lot, weights are       *)
(* twentieths, hold_frac counts quarters, and a price does not move: what  *)
(* is planned is what is paid.  Left out: acks, notes, orphans and counts. *)
(***************************************************************************)
EXTENDS Integers, Sequences, FiniteSets, Functions, FiniteSetsExt

CONSTANTS
  SourceOrder,   \* the sources [kid, scope], by kid and then by scope
  Intents,
  Targets,       \* the intents of a source, in the order of its targets[]
  Wants,         \* what its publisher may ask of an intent: quarters to hold, or None
  None,
  Exchange, Price, Weight, Due,  \* of an intent; Due: the day of its time exit
  Book,          \* of a source: hold, on, seed, pct, share, weight and maxQty
  Capitals,      \* what the account may say is entrusted
  OvernightPct, BorrowX, ReserveTrades,
  MinOrderValue, \* of a coin; a stock has none
  MaxOrders,     \* orders of a tick, 0: no cap
  Legacy,        \* intents that may be held from before sources were recorded
  Renumbered,    \* intents whose stop, time exit and take-profit change once
  Bars,          \* sets of intents that the guards of entries bar together: a snapshot that is old,
                 \* a halted book, a pause, a price far from the market's
  MaxDay         \* bound: days after the first

Sources == {SourceOrder[n] : n \in 1 .. Len(SourceOrder)}
Of(s) == {Targets[s][n] : n \in 1 .. Len(Targets[s])}

Fixed(s) == Book[s].seed > 0
NightBooks == {s \in Sources : Book[s].hold = "carry" /\ Book[s].on}

\* Books with a part of the entrusted money and books with a share of the rest do not mix, and
\* the parts of the night are within the night's limit
CheckPct ==
  LET parts == {s \in Sources : ~Fixed(s) /\ Book[s].pct > 0}
  IN  parts # {} => /\ \A s \in Sources : Fixed(s) \/ s \in parts
                    /\ SumFunction([s \in parts \cap NightBooks |-> Book[s].pct]) <= OvernightPct

\* The books that the daemon starts with
NewAlloc ==
  /\ OvernightPct \in 1 .. 100 /\ BorrowX \in Nat \ {0} /\ ReserveTrades \in Nat
  /\ \A s \in Sources : /\ Book[s].hold \in {"carry", "day"} /\ Book[s].on \in BOOLEAN
                        /\ {Book[s].seed, Book[s].maxQty} \subseteq Nat /\ Book[s].share \in Nat \ {0}
                        /\ Book[s].pct \in 0 .. 100 /\ Book[s].weight \in 0 .. 20
                        /\ Fixed(s) => Book[s].pct = 0
  /\ CheckPct

ASSUME PlanAssumption ==
  /\ SourceOrder \in Seq(Sources) /\ IsFiniteSet(Intents) /\ None \notin Nat
  /\ \A m, n \in 1 .. Len(SourceOrder) : SourceOrder[m] = SourceOrder[n] => m = n
  /\ \A s, t \in Sources : s.kid = t.kid /\ s.scope = t.scope => s = t
  /\ \A s \in Sources : Targets[s] \in Seq(Intents) /\ s.kid # ""
  /\ \A i \in Intents : /\ Wants[i] \subseteq (0 .. 4) \cup {None}
                        /\ Price[i] \in Nat \ {0} /\ Weight[i] \in 1 .. 20 /\ Due[i] \in Nat
                        /\ Exchange[i] \in {"KRX", "UPBIT"}
  /\ NewAlloc
  /\ Capitals \subseteq Nat \ {0} /\ {MinOrderValue, MaxOrders, MaxDay} \subseteq Nat

VARIABLES
  snap,      \* the last snapshot of a source: what it wants of each intent
  number,    \* the stop, time exit and take-profit that an intent's target carries: 0, then 1
  lot,       \* Engine.positions
  row,       \* the numbers of the lot in its row of the store
  terminal,  \* intents that are over
  lastW,     \* Engine.lastW, of the night books: the last weight a target was seen to ask for
  capital,   \* Plan.Capital of the allocation in force, 0: there is none
  sharesOf,  \* its Plan.Day
  saved,     \* capital.json: the last that was read, 0: no file
  day,
  (* history, read by no action *)
  bought,    \* entries made of an intent
  late,      \* ticks in a row, undisturbed, after which a lot is not what its snapshot asks
  keeps      \* the shares its publisher has never asked to sell

means == <<capital, sharesOf, saved>>
vars == <<snap, number, lot, row, terminal, lastW, means, day, bought, late, keeps>>

\* A partial exit, a take-profit order, a time exit and a stop each take a tick of their own
MaxLate == 3

\* tp: None until a take-profit order is placed
NoNumbers == [stop |-> 0, te |-> 0, tp |-> None]
NoLot == [qty |-> 0, entry |-> 0, kid |-> "", scope |-> "", stop |-> 0, te |-> 0, tp |-> None]

Held == {i \in Intents : lot[i].qty > 0}
Value(I) == SumFunction([i \in I |-> lot[i].qty * Price[i]])
AtMost(x, y) == IF x < y THEN x ELSE y
AtLeast(x, y) == IF x > y THEN x ELSE y

\* FoldLeft with every intermediate value computed once
Through(Op(_, _), first, seq) ==
  LET after[n \in 0 .. Len(seq)] ==
        IF n = 0 THEN first ELSE CHOOSE x \in {Op(p, seq[n]) : p \in {after[n - 1]}} : TRUE
  IN  after[Len(seq)]

-----------------------------------------------------------------------------
(* The allocation of a day.                                                *)

\* Whether a stock whose time exit is that of number `n` is kept over the night
OverNight(i, n) == Exchange[i] = "KRX" /\ Due[i] + n # day
NightTarget(i) == OverNight(i, number[i])
DayTarget(i) == Exchange[i] = "KRX" /\ ~NightTarget(i)
NightLots == {i \in Held : OverNight(i, lot[i].te)}

NightCap == (capital * OvernightPct) \div 100
Shared(hold) == {s \in Sources : /\ Book[s].on /\ ~Fixed(s) /\ Book[s].pct = 0
                                 /\ Book[s].hold = hold}
Pool(hold) == IF hold = "day" THEN capital ELSE NightCap

Base(s) ==
  IF Fixed(s) THEN Book[s].seed
  ELSE IF ~Book[s].on THEN 0
  ELSE IF Book[s].pct > 0 THEN (capital * Book[s].pct) \div 100
  ELSE (Pool(Book[s].hold) * Book[s].share)
                            \div SumFunction([b \in Shared(Book[s].hold) |-> Book[b].share])

Limit(s) == IF Fixed(s) THEN Book[s].seed ELSE BorrowX * Base(s)

\* The book of a lot: that of the source it was bought for
BookOf(i) == {s \in Sources : s.kid = lot[i].kid /\ s.scope = lot[i].scope}

-----------------------------------------------------------------------------
(* The limits across the sources: one Gate for a plan.                     *)

DefaultCarryWeight == 1
PerTrade(s, seen) ==
  LET w == IF Book[s].weight > 0 THEN Book[s].weight
           ELSE IF seen[s] > 0 THEN seen[s]
           ELSE DefaultCarryWeight
  IN  (Base(s) * w) \div 20

NewGate(seen) ==
  LET trade     == Max({PerTrade(s, seen) : s \in NightBooks} \cup {0})
      capLeft   == SumFunction([s \in NightBooks |->
                     AtLeast(0, Limit(s) - Value({i \in Held : s \in BookOf(i)}))])
      nightLeft == NightCap - Value(NightLots)
  IN  [free |-> capital - Value(Held), nightLeft |-> nightLeft,
       reserve |-> AtLeast(0, AtMost(ReserveTrades * trade, AtMost(nightLeft, capLeft)))]

MinValue(i) == IF Exchange[i] = "KRX" THEN 0 ELSE MinOrderValue

\* The most shares that `money` buys, none below the smallest order
Fit(money, i) ==
  LET q == money \div Price[i]
  IN  IF money <= 0 \/ q * Price[i] < MinValue(i) THEN 0 ELSE q

\* Mutant: what a source takes is not taken from what the next one may take
MutAdmit(g, i, qty) ==
  LET avail == g.free - IF DayTarget(i) THEN g.reserve ELSE 0
      q     == IF capital = 0 THEN qty ELSE IF NightTarget(i) /\ qty * Price[i] > g.nightLeft THEN 0
               ELSE IF qty * Price[i] > avail THEN Fit(avail, i) ELSE qty
  IN  [qty |-> q, gate |-> g]

\* Mutant: the reserve is a limit for the night's entries
MutAdmitReserve(g, i, qty) ==
  LET avail == g.free - IF NightTarget(i) THEN g.reserve ELSE 0
      q     == IF capital = 0 THEN qty ELSE IF NightTarget(i) /\ qty * Price[i] > g.nightLeft THEN 0
               ELSE IF qty * Price[i] > avail THEN Fit(avail, i) ELSE qty
  IN  [qty |-> q, gate |-> [g EXCEPT !.free = @ - q * Price[i]]]

\* A night entry over the night's limit is refused; short of money, an entry shrinks.  With no
\* allocation there is no gate, and only a fixed book has money
Admit(g, i, qty) ==
  LET cost  == qty * Price[i]
      avail == g.free - IF DayTarget(i) THEN g.reserve ELSE 0
      q     == IF capital = 0 THEN qty
               ELSE IF NightTarget(i) /\ cost > g.nightLeft THEN 0
               ELSE IF cost > avail THEN Fit(avail, i) ELSE qty
      spent == q * Price[i]
  IN  [qty |-> q,
       gate |-> [free      |-> g.free - spent,
                 nightLeft |-> g.nightLeft - IF NightTarget(i) THEN spent ELSE 0,
                 reserve   |-> IF NightTarget(i) THEN AtLeast(0, g.reserve - spent) ELSE g.reserve]]

-----------------------------------------------------------------------------
(* The plan of one source.                                                 *)

\* A lot without a kid belongs to the source of its scope when there is only one
Known == {s \in Sources : snap[s] # <<>>}
Owns(s, i) ==
  /\ lot[i].scope = s.scope
  /\ \/ lot[i].kid = s.kid
     \/ lot[i].kid = "" /\ {b \in Known : b.scope = s.scope} = {s}
HeldBy(s) == {i \in Held : Owns(s, i)}

\* Shares to sell so that `quarters` of the first purchase stay: 0 when there is nothing to do
Keep(entry, quarters) == (entry * quarters + 2) \div 4

\* Mutant: a share of what is left, not of the first purchase
MutReduce(i, quarters) == lot[i].qty - Keep(lot[i].qty, quarters)

Reduce(i, quarters) ==
  LET keep == Keep(lot[i].entry, quarters)
      sell == lot[i].qty - keep
  IN  IF quarters = 0 THEN lot[i].qty
      ELSE IF lot[i].entry = 0 THEN 0  \* an old lot: its first quantity is not known
      ELSE IF sell <= 0 THEN 0
      ELSE IF keep * Price[i] < MinValue(i) THEN lot[i].qty
      ELSE IF sell * Price[i] < MinValue(i) THEN 0
      ELSE sell

WeightOf(s, i) == IF Book[s].weight > 0 THEN Book[s].weight ELSE Weight[i]
AtMostOf(s, q) == IF Book[s].maxQty > 0 THEN AtMost(q, Book[s].maxQty) ELSE q

\* Shares of an entry, none below the smallest order
Size(s, i) ==
  LET q == AtMostOf(s, (Base(s) * WeightOf(s, i)) \div (20 * Price[i]))
  IN  IF q * Price[i] < MinValue(i) THEN 0 ELSE q

\* Whether entry of an intent of `s` is still a question of money
\* Mutant: a lot that is gone is bought again
MutEnterable(s, i, bar) == i \notin bar /\ Book[s].on

Enterable(s, i, bar) == i \notin terminal /\ i \notin bar /\ Book[s].on

Sell(p, i, qty) == IF qty = 0 THEN p ELSE [p EXCEPT !.exits = @ \cup {[id |-> i, qty |-> qty]}]

Buy(p, s, i) ==
  LET qty  == Size(s, i)
      fits == qty > 0 /\ qty * Price[i] <= Limit(s) - p.spent
      a    == Admit(p.gate, i, IF fits THEN qty ELSE 0)
  IN  IF a.qty = 0 THEN p
      ELSE [p EXCEPT !.gate = a.gate, !.spent = @ + a.qty * Price[i],
                     !.enters = Append(@, [id |-> i, qty |-> a.qty, src |-> s])]

\* The exits stay, the entries that find no room are dropped from the end
OrderCap(p) ==
  IF MaxOrders = 0 THEN p
  ELSE [p EXCEPT !.enters =
          SubSeq(@, 1, AtMost(Len(@), AtLeast(0, MaxOrders - Cardinality(p.exits))))]

PlanTarget(p, s, i, bar) ==
  LET want == snap[s][i]
  IN  IF want = None THEN p
      ELSE IF i \in HeldBy(s) THEN Sell(p, i, Reduce(i, want))
      ELSE IF want # 0 /\ Enterable(s, i, bar) THEN Buy(p, s, i)
      ELSE p

Build(g, s, bar) ==
  LET none == [gate |-> g, spent |-> Value(HeldBy(s)), exits |-> {}, enters |-> <<>>]
  IN  IF s \in Known
      THEN OrderCap(Through(LAMBDA p, i : PlanTarget(p, s, i, bar), none, Targets[s]))
      ELSE none

\* All sources, in order, with one gate
PlanAll(seen, bar) ==
  LET join(p, s) == LET b == Build(p.gate, s, bar)
                    IN  [gate |-> b.gate, spent |-> 0, exits |-> p.exits \cup b.exits,
                         enters |-> p.enters \o b.enters]
  IN  OrderCap(Through(join, [gate |-> NewGate(seen), spent |-> 0, exits |-> {}, enters |-> <<>>],
                       SourceOrder))

\* A liquidation asks no target
Liquidation == [exits |-> {[id |-> i, qty |-> lot[i].qty] : i \in Held}, enters |-> <<>>]

-----------------------------------------------------------------------------
(* The tick of the executor.                                               *)

\* The engine's last weight of a source: of the last target that wants its lot
Seen ==
  [s \in NightBooks |->
     LET open == IF s \in Known THEN {n \in 1 .. Len(Targets[s]) : snap[s][Targets[s][n]] \notin {None, 0}}
                 ELSE {}
     IN  IF open = {} \/ capital = 0 THEN lastW[s] ELSE Weight[Targets[s][Max(open)]]]

\* Mutant: a lot sold to the last share is not taken from the engine
MutSold(l, qty) == [l EXCEPT !.qty = @ - qty, !.tp = None]

\* Lots after an exit was tried: its take-profit order is cancelled first
Sold(l, qty) == IF qty = l.qty THEN NoLot ELSE [l EXCEPT !.qty = @ - qty, !.tp = None]

Governed == {i \in Held : \E s \in Known : i \in HeldBy(s) /\ i \in Of(s) /\ snap[s][i] \notin {None, 0}}

\* What the last snapshot of its source asks of a lot and the lot is not
Behind(i) ==
  \E s \in Known : /\ i \in HeldBy(s) \cap Of(s) /\ snap[s][i] # None
                   /\ \/ Reduce(i, snap[s][i]) > 0
                      \/ snap[s][i] # 0 /\ \E n \in {lot[i].stop, lot[i].te, lot[i].tp} : n # number[i]

\* What a wish leaves of a first purchase (nothing, rather than less than can be sold)
Stays(i, entry, want) ==
  LET keep == Keep(entry, want) IN IF keep * Price[i] < MinValue(i) THEN 0 ELSE keep

\* Each update of a lot starts from the plan's copy of it: the last one stays in the engine
\* Mutant: the update of a stop or of a time exit forgets the price of the order
MutUpdated(i, tps) ==
  IF i \in tps THEN [lot[i] EXCEPT !.tp = number[i]]
  ELSE [lot[i] EXCEPT !.tp = None, !.te = number[i],
                      !.stop = IF lot[i].te # number[i] THEN @ ELSE number[i]]

Updated(i, tps) ==
  LET n == number[i]
  IN  IF i \in tps THEN [lot[i] EXCEPT !.tp = n]
      ELSE IF lot[i].te # n THEN [lot[i] EXCEPT !.te = n]
      ELSE [lot[i] EXCEPT !.stop = n]

\* In the store a stop writes stop and order, a time exit itself, an order both of the former
Written(i, tps) ==
  LET n     == number[i]
      moved == lot[i].stop # n
  IN  [stop |-> IF i \in tps THEN lot[i].stop ELSE IF moved THEN n ELSE row[i].stop,
       te   |-> n,
       tp   |-> IF i \in tps THEN n ELSE IF moved THEN lot[i].tp ELSE row[i].tp]

\* From 08:59 on, exits are sent to the opening auction; a coin is traded at any time
Phases == {"closed", "opening", "continuous"}
CanEnter(i, phase) == Exchange[i] # "KRX" \/ phase = "continuous"
CanExit(i, phase) == Exchange[i] # "KRX" \/ phase # "closed"

\* `works`: the broker takes orders
Execute(p, phase, works, liquidate) ==
  LET qty(i)    == IF CanExit(i, phase) THEN SumFunction([e \in {x \in p.exits : x.id = i} |-> e.qty])
                   ELSE 0
      sold      == IF works THEN {i \in Held : qty(i) > 0} ELSE {}
      free      == IF liquidate THEN {} ELSE Governed \ {e.id : e \in p.exits}
      tps       == {i \in free : works /\ CanEnter(i, phase) /\ lot[i].tp # number[i]}
      moved     == {i \in free : lot[i].stop # number[i] \/ lot[i].te # number[i]} \cup tps
      entered   == IF works THEN {p.enters[n].id : n \in 1 .. Len(p.enters)} ELSE {}
      order(i)  == p.enters[Min({n \in 1 .. Len(p.enters) : p.enters[n].id = i})]
      over      == {i \in sold : qty(i) = lot[i].qty}
  IN  /\ lot' = [i \in Intents |->
           IF i \in entered THEN [qty |-> order(i).qty, entry |-> order(i).qty,
                                  kid |-> order(i).src.kid, scope |-> order(i).src.scope,
                                  stop |-> number[i], te |-> number[i], tp |-> None]
           ELSE IF i \in sold THEN Sold(lot[i], qty(i))
           ELSE IF i \in moved THEN Updated(i, tps)
           ELSE IF qty(i) > 0 THEN [lot[i] EXCEPT !.tp = None]
           ELSE lot[i]]
      /\ row' = [i \in Intents |->
           IF i \in entered THEN [stop |-> number[i], te |-> number[i], tp |-> None]
           ELSE IF i \in over THEN NoNumbers
           ELSE IF i \in moved THEN Written(i, tps)
           ELSE IF qty(i) > 0 THEN [row[i] EXCEPT !.tp = None]
           ELSE row[i]]
      /\ terminal' = terminal \cup over
      /\ lastW' = IF liquidate THEN lastW ELSE Seen
      /\ bought' = [i \in Intents |-> IF i \in entered THEN AtMost(2, bought[i] + 1) ELSE bought[i]]
      /\ keeps' = [i \in Intents |->
           IF i \in entered THEN Stays(i, order(i).qty, snap[order(i).src][i])
           ELSE IF liquidate THEN 0
           ELSE keeps[i]]
      /\ UNCHANGED <<snap, number, means, day>>
      /\ late' = [i \in Intents |-> IF phase = "continuous" /\ works /\ ~liquidate /\ Behind(i)'
                                    THEN AtMost(MaxLate + 1, late[i] + 1) ELSE 0]

Tick(phase, works, liquidate, bar) ==
  LET closed == {i \in Intents : ~CanEnter(i, phase)}
  IN  \E p \in {IF liquidate THEN Liquidation ELSE PlanAll(Seen, bar \cup closed)} :
        Execute(p, phase, works, liquidate)

\* Before the plan: the stop (a price) or the time exit sells a lot, whatever its target says
LocalExit(i, works) ==
  /\ i \in Held
  /\ lot' = [lot EXCEPT ![i] = IF works THEN NoLot ELSE [@ EXCEPT !.tp = None]]
  /\ row' = [row EXCEPT ![i] = IF works THEN NoNumbers ELSE [@ EXCEPT !.tp = None]]
  /\ terminal' = IF works THEN terminal \cup {i} ELSE terminal
  /\ keeps' = [keeps EXCEPT ![i] = 0]
  /\ late' = [late EXCEPT ![i] = 0]
  /\ UNCHANGED <<snap, number, lastW, means, day, bought>>

-----------------------------------------------------------------------------
(* The world.                                                              *)

LegacyQty == 2

\* At the start some lots may be there from before sources were recorded
Init ==
  /\ snap = [s \in Sources |-> <<>>] /\ number = [i \in Intents |-> 0]
  /\ \E old \in SUBSET Legacy : \E entry \in {0, LegacyQty} : \E scope \in {s.scope : s \in Sources} :
       /\ \A i \in old : \E s \in Sources : s.scope = scope /\ i \in Of(s)
       /\ lot = [i \in Intents |-> IF i \in old
                   THEN [NoLot EXCEPT !.qty = LegacyQty, !.entry = entry, !.scope = scope]
                   ELSE NoLot]
       /\ keeps = [i \in Intents |-> IF i \in old THEN LegacyQty ELSE 0]
  /\ row = [i \in Intents |-> NoNumbers]
  /\ terminal = {} /\ lastW = [s \in NightBooks |-> 0] /\ bought = [i \in Intents |-> 0]
  /\ late = [i \in Intents |-> 0]
  /\ \/ capital = 0 /\ saved = 0
     \/ capital \in Capitals /\ saved \in {0, capital}
  /\ day = 0 /\ sharesOf = 0

\* What stays of a lot when its publisher asks for `want`
Left(i, want) ==
  IF want = None \/ (want > 0 /\ lot[i].entry = 0) THEN keeps[i]
  ELSE AtMost(keeps[i], Stays(i, lot[i].entry, want))

\* A snapshot of a source replaces its last one
Publish(s) ==
  \E wants \in [Of(s) -> UNION {Wants[i] : i \in Of(s)}] :
  \E new \in SUBSET {i \in Renumbered \cap Of(s) : number[i] = 0} :
    /\ \A i \in Of(s) : wants[i] \in Wants[i]
    /\ snap' = [snap EXCEPT ![s] = wants]
    /\ number' = [i \in Intents |-> IF i \in new THEN 1 ELSE number[i]]
    /\ keeps' = [i \in Intents |-> IF i \in Of(s) /\ i \in Held /\ lot[i].scope = s.scope
                                   THEN Left(i, wants[i]) ELSE keeps[i]]
    /\ late' = [i \in Intents |-> 0]
    /\ UNCHANGED <<lot, row, terminal, lastW, means, day, bought>>

NewDay ==
  /\ day < MaxDay /\ day' = day + 1
  /\ UNCHANGED <<snap, number, lot, row, terminal, lastW, means, bought, late, keeps>>

\* What the account says, and the file if it can be written; when the account cannot be read,
\* what the file says, if there is one
Capital ==
  {[capital |-> c, saved |-> c] : c \in Capitals} \cup [capital : Capitals, saved : {saved}]
    \cup IF saved = 0 THEN {} ELSE {[capital |-> saved, saved |-> saved]}

\* Once a day, and again until it can: the shares of the day are not computed twice, and those
\* of the day before stay in force as long as neither the account nor the file can be read
ShareOut ==
  /\ capital = 0 \/ sharesOf # day
  /\ \E r \in Capital : capital' = r.capital /\ saved' = r.saved
  /\ sharesOf' = day
  /\ UNCHANGED <<snap, number, lot, row, terminal, lastW, day, bought, late, keeps>>

\* The lots with the numbers that the store has of them
Recorded == [i \in Intents |-> [lot[i] EXCEPT !.stop = row[i].stop, !.te = row[i].te, !.tp = row[i].tp]]

\* A tick that was not woken by a target looks at the account first and takes its lots from the store
Sync ==
  /\ lot' = Recorded
  /\ UNCHANGED <<snap, number, row, terminal, lastW, means, day, bought, late, keeps>>

Restart ==
  /\ snap' = [s \in Sources |-> <<>>] /\ lastW' = [s \in NightBooks |-> 0]
  /\ lot' = Recorded
  /\ \/ \E r \in Capital : capital' = r.capital /\ saved' = r.saved
     \/ saved = 0 /\ capital' = 0 /\ saved' = 0
  /\ sharesOf' = day
  /\ late' = [i \in Intents |-> 0]
  /\ UNCHANGED <<number, row, terminal, day, bought, keeps>>

Trade ==
  \E phase \in Phases : \E works, liquidate \in BOOLEAN : \E bar \in Bars :
    (bar # {} => phase = "continuous" /\ ~liquidate) /\ Tick(phase, works, liquidate, bar)

Next ==
  \/ \E s \in Sources : Publish(s)
  \/ NewDay \/ ShareOut \/ Sync \/ Restart \/ Trade
  \/ \E i \in Intents : \E works \in BOOLEAN : LocalExit(i, works)

Spec == Init /\ [][Next]_vars

-----------------------------------------------------------------------------
(* Properties.                                                             *)

TypeOK ==
  /\ \A s \in Sources : s \in Known => /\ DOMAIN snap[s] = Of(s)
                                       /\ \A i \in Of(s) : snap[s][i] \in Wants[i]
  /\ number \in [Intents -> {0, 1}]
  /\ \A i \in Intents :
       /\ lot[i].qty \in 0 .. AtLeast(lot[i].entry, LegacyQty) /\ lot[i].entry \in Nat
       /\ {lot[i].stop, lot[i].te, row[i].stop, row[i].te} \subseteq {0, 1}
       /\ {lot[i].tp, row[i].tp} \subseteq {None, 0, 1}
       /\ lot[i].qty = 0 => lot[i] = NoLot
  /\ terminal \subseteq Intents /\ {capital, saved} \subseteq Capitals \cup {0}
  /\ day \in 0 .. MaxDay /\ sharesOf \in 0 .. day

\* An intent is entered once, however often its target comes and whatever became of its lot
\* (with one key for a scope: the lot that an old key bought is not the new key's, engine.go:635)
EnteredOnce == \A i \in Intents : bought[i] <= 1

\* However often a snapshot with a hold_frac is repeated, no more is sold than was asked for:
\* the lot keeps the share of its first purchase that every target left it
KeptShare == \A i \in Intents : lot[i].qty >= keeps[i]

Newly == {i \in Intents : bought'[i] > bought[i]}
Cost(I) == SumFunction([i \in I |-> lot'[i].qty * Price[i]])

\* What a tick buys, for all sources together, fits beside what is held: in the entrusted money,
\* night lots in the night's limit, and each book in its own; while it is not known what is
\* entrusted, only a fixed book buys
WithinMeans ==
  [][Newly # {} =>
       /\ IF capital > 0 THEN Cost(Newly) <= capital - Value(Held)
          ELSE \A i \in Newly : \E s \in Sources : i \in Of(s) /\ Fixed(s)
       /\ \A i \in Newly : capital > 0 /\ NightTarget(i) =>
            Cost({j \in Newly : NightTarget(j)}) <= NightCap - Value(NightLots)
       /\ \A s \in Sources :
            LET its == {i \in Newly : lot'[i].kid = s.kid /\ lot'[i].scope = s.scope}
            IN  its # {} => Cost(its) <= Limit(s) - Value(HeldBy(s))]_vars

\* The stocks of the day leave the night books the money set aside for their next trades, in
\* which what those take in the same tick counts (a coin is bound by the entrusted money only)
ReserveKept ==
  [][LET dayCost   == Cost({i \in Newly : DayTarget(i)})
         nightCost == Cost({i \in Newly : NightTarget(i)})
     IN  capital > 0 /\ dayCost > 0 =>
           dayCost + AtLeast(NewGate(Seen).reserve, nightCost) <= capital - Value(Held)]_vars

\* An exit, a partial exit and new numbers reach every lot within four ticks in a row
\* with the market open and the broker taking orders, though updates of a lot undo each other
Obeyed == \A i \in Intents : late[i] <= MaxLate
=============================================================================
