-------------------------------- MODULE Exit --------------------------------
(***************************************************************************)
(* The sell side of the executor (internal/executor): exits, partial       *)
(* exits, take-profit orders left at the broker (TP), and what is sold     *)
(* behind the cockpit's back.  Several lots hold shares of ONE symbol, and *)
(* the account only knows their sum, next to shares that belong to the     *)
(* user; the broker sells whichever share is free.  So everything here is  *)
(* about whose shares were sold, and what the ledger says of it.           *)
(*                                                                         *)
(* As in Entry, one goroutine runs the executor and `pc` says where it     *)
(* stands; every write to the store and every broker call is a step, and   *)
(* the process may die between two of them.  Quantities are whole shares.  *)
(* Modelled: a broker that accepts orders and answers later (Submitter).   *)
(***************************************************************************)
EXTENDS Integers, Sequences, FiniteSets, Functions

CONSTANTS
  Lots,        \* lots (intents) holding the symbol at the start
  NoLot,
  EntryQty,    \* shares of each lot
  Outside,     \* shares of the user's own
  Dust,        \* remainders below this may be too small to sell (MinOrderValue), 0: none
  MaxOrders,   \* bound: sell orders of the cockpit over the whole run
  MaxDays,     \* bound: sessions after the first
  MaxSold,     \* bound: shares the user sells by hand
  MaxCrashes,  \* bound: times the process is killed
  MaxErrs      \* bound: failed store writes, failed and unanswered broker calls

ASSUME ExitAssumption ==
  /\ IsFiniteSet(Lots) /\ NoLot \notin Lots
  /\ EntryQty \in [Lots -> Nat \ {0}]
  /\ Outside \in Nat /\ Dust \in Nat
  /\ MaxOrders \in Nat /\ MaxDays \in Nat /\ MaxSold \in Nat
  /\ MaxCrashes \in Nat /\ MaxErrs \in Nat

\* Orders are numbered in the order the code gets to them; 0 is no order
Orders == 1 .. MaxOrders

VARIABLES
  (* the store *)
  row,      \* intents: "open" or "closed"
  qty,      \* intents.qty
  tp,       \* intents.tp_order_id
  jour,     \* working_orders of exits: "none", "pre" (Unconfirmed), "void" (a
            \* "pre" row that was closed), "open", "done"
  told,     \* orders.broker_order_id: the orders of the ledger's rows
  sold,     \* shares in the ledger's rows of the bot
  manual,   \* shares in its rows of sales outside the cockpit
  (* the exchange and the account *)
  book,     \* the cockpit's orders: lot, kind, size, day, state, filled
  byHand,   \* shares the user sold: in all, and those of today
  day, session,
  (* the engine, and the executor's memory: lost in a crash *)
  pos,      \* Engine.positions: shares of a lot, 0 when it has no position
  ptp,      \* their TpOrderID
  work,     \* Executor.work
  loaded,   \* Executor.loaded
  rest,     \* lots with a sellAfter in the future
  (* where the goroutine stands *)
  pc,
  back,     \* the phase to come back to
  todo,     \* orders still to resolve or to poll
  lots,     \* lots still to visit in this phase
  cur, lot, \* the order and the lot in hand
  seen,     \* a quantity read for them
  outcome,  \* of a failed submission: "short", "refused" or "maybe"
  plan,     \* the plan's snapshot of the positions: qty and tp of each lot
  spent,    \* `sold` of tick: lots sold in this tick
  placed,   \* orders accepted in this tick
  crashes, errs,
  (* history, read by no action *)
  astray,   \* lots of which a fill, an order or a quantity got lost
  twice,    \* lots of which a ledger row may be missing or written twice
  gone      \* orders the cockpit itself cancelled

rows     == <<row, qty, tp>>
ledger   == <<told, sold, manual>>
account  == <<byHand, day, session>>
engine   == <<pos, ptp>>
memory   == <<work, loaded, rest>>
hand     == <<cur, lot, seen, outcome>>
agenda   == <<back, todo, lots>>
tick     == <<plan, spent, placed>>
history  == <<astray, twice, gone>>
vars     == <<rows, jour, ledger, book, account, engine, memory, pc, hand, agenda, tick,
              crashes, errs, history>>

-----------------------------------------------------------------------------
(* What the code and the exchange read.                                    *)

NoPlan == [qty |-> [l \in Lots |-> 0], tp |-> [l \in Lots |-> 0]]

Made == DOMAIN book
Of(l) == {n \in Made : book[n].lot = l}
Live(n) == book[n].state = "live"
Filled == [n \in Made |-> book[n].filled]
FilledOf(l) == SumFunctionOnSet(Filled, Of(l))

Held == SumFunction(EntryQty) + Outside - byHand.all - SumFunction(Filled)
Locked == SumFunction([n \in Made |-> IF Live(n) THEN book[n].size - book[n].filled ELSE 0])
Free == Held - Locked

\* fetchFills: only the fills of today are listed
Reported(n) == IF book[n].day = day THEN book[n].filled ELSE 0
Over(n) == book[n].day = day /\ (~Live(n) \/ book[n].filled = book[n].size)

\* Executor.isWorking
Working(l) == \E n \in work : book[n].lot = l

\* A lot the engine has: all of them are positions of one map
Has == {l \in Lots : pos[l] > 0}

OpenLots == {l \in Lots : row[l] = "open"}

\* KnownOrderIDs: the ledger, working_orders, and the TPs of the intents
Known == told \cup {n \in Orders : jour[n] \in {"open", "done"}} \cup {tp[l] : l \in Lots}

\* foreignSells: today's sells that no known order explains
Foreign == byHand.today + SumFunction([n \in Made |-> IF n \in Known THEN 0 ELSE Reported(n)])

Fails == errs < MaxErrs /\ errs' = errs + 1
Works == UNCHANGED errs

\* A TP of l that filled in part is about to be forgotten: its shares are not taken
\* off the lot, whether the ledger has them or not
Slips(l, n) == IF n # 0 /\ book[n].filled > 0 THEN {l} ELSE {}

Empty == /\ cur' = 0 /\ lot' = NoLot /\ seen' = 0 /\ outcome' = "none"
Return(p) == pc' = p /\ Empty
Take(l, n, q, p) == pc' = p /\ lot' = l /\ cur' = n /\ seen' = q /\ UNCHANGED outcome

\* The start of a phase that visits lots
Phase(p, L) == pc' = p /\ lots' = L

-----------------------------------------------------------------------------
Init ==
  /\ row = [l \in Lots |-> "open"] /\ qty = EntryQty /\ tp = [l \in Lots |-> 0]
  /\ jour = [n \in Orders |-> "none"]
  /\ told = {} /\ sold = [l \in Lots |-> 0] /\ manual = [l \in Lots |-> 0]
  /\ book = <<>> /\ byHand = [all |-> 0, today |-> 0] /\ day = 0 /\ session = "open"
  /\ pos = EntryQty /\ ptp = [l \in Lots |-> 0]
  /\ work = {} /\ loaded = FALSE /\ rest = {}
  /\ pc = "idle" /\ back = "idle" /\ todo = {} /\ lots = {}
  /\ cur = 0 /\ lot = NoLot /\ seen = 0 /\ outcome = "none"
  /\ plan = NoPlan /\ spent = {} /\ placed = {}
  /\ crashes = 0 /\ errs = 0
  /\ astray = {} /\ twice = {} /\ gone = {}

\* A ledger row was written, what follows from it not yet in full
Unsettled ==
  \/ pc \in {"finReduce", "finClose", "tpClose", "manClose", "shrReduce"}
  \/ pc = "finDone" /\ seen > 0

\* Killed, and started again (Engine.Restore): memory is what the store says.
\* An accepted order whose number was not written yet is lost; a ledger row
\* whose intent was not settled yet will be written again.
Crash ==
  /\ crashes < MaxCrashes /\ crashes' = crashes + 1
  /\ pos' = [l \in Lots |-> IF row[l] = "open" THEN qty[l] ELSE 0]
  /\ ptp' = [l \in Lots |-> IF row[l] = "open" THEN tp[l] ELSE 0]
  /\ work' = {} /\ loaded' = FALSE /\ rest' = {}
  /\ pc' = "idle" /\ back' = "idle" /\ todo' = {} /\ lots' = {} /\ Empty
  /\ plan' = NoPlan /\ spent' = {} /\ placed' = {}
  /\ astray' = astray \cup (IF pc \in {"track", "tpSave"} THEN {lot} ELSE {})
  /\ twice' = twice \cup (IF Unsettled THEN {lot} ELSE {})
  /\ UNCHANGED <<rows, jour, ledger, book, account, errs, gone>>

-----------------------------------------------------------------------------
(* The world around the goroutine.                                         *)

cockpit == <<rows, jour, ledger, engine, memory, pc, hand, agenda, tick, crashes, errs>>

FillOrder(n) ==
  /\ Live(n) /\ session = "open"
  /\ book' = [book EXCEPT ![n].filled = @ + 1,
                          ![n].state = IF book[n].filled + 1 = book[n].size THEN "dead" ELSE @]
  /\ UNCHANGED <<cockpit, account, history>>

\* The session's end, or the user, ends an order
KillOrder(n) ==
  /\ Live(n) /\ book' = [book EXCEPT ![n].state = "dead"]
  /\ UNCHANGED <<cockpit, account, history>>

\* The user sells free shares of the symbol, in the broker's own program
SellByHand ==
  /\ session = "open" /\ byHand.all < MaxSold /\ Free > 0
  /\ byHand' = [all |-> byHand.all + 1, today |-> byHand.today + 1]
  /\ UNCHANGED <<cockpit, book, day, session, history>>

CloseSession ==
  /\ day < MaxDays /\ session = "open" /\ session' = "closed"
  /\ UNCHANGED <<cockpit, book, byHand, day, history>>

\* Orders were for the day, and so is the broker's list of fills: what was not
\* taken off its lot by now is out of reach
NewDay ==
  /\ session = "closed" /\ day' = day + 1 /\ session' = "open"
  /\ book' = [n \in Made |-> [book[n] EXCEPT !.state = IF @ = "live" THEN "dead" ELSE @]]
  /\ byHand' = [byHand EXCEPT !.today = 0]
  /\ astray' = astray \cup {l \in OpenLots : \E n \in Of(l) : book[n].filled > 0 /\ n \notin told \ {tp[l]}}
  /\ UNCHANGED <<cockpit, twice, gone>>

\* The time of sellAfter is over
RestOver(l) ==
  /\ l \in rest /\ rest' = rest \ {l}
  /\ UNCHANGED <<rows, jour, ledger, book, account, engine, work, loaded, pc, hand, agenda, tick,
                 crashes, errs, history>>

-----------------------------------------------------------------------------
(* The start of a tick: working orders first.                              *)

Begin ==
  /\ pc = "idle" /\ pc' = "load"
  /\ \/ back' = "tpcheck"
     \/ work # {} /\ back' = "idle"
  /\ UNCHANGED <<rows, jour, ledger, book, account, engine, memory, hand, todo, lots, tick,
                 crashes, errs, history>>

\* ensureLoaded
Load ==
  /\ pc = "load" /\ ~loaded /\ Works
  /\ loaded' = TRUE /\ work' = {n \in Orders : jour[n] = "open"}
  /\ todo' = {n \in Orders : jour[n] = "pre"} /\ pc' = "resolve"
  /\ UNCHANGED <<rows, jour, ledger, book, account, engine, rest, hand, back, lots, tick,
                 crashes, history>>

LoadFails ==
  /\ pc = "load" /\ ~loaded /\ Fails
  /\ todo' = work /\ pc' = "poll"
  /\ astray' = astray \cup {book[n].lot : n \in {m \in Made : jour[m] \in {"pre", "open"}}}
  /\ UNCHANGED <<rows, jour, ledger, book, account, engine, memory, hand, back, lots, tick,
                 crashes, twice, gone>>

Loaded ==
  /\ \/ pc = "load" /\ loaded
     \/ pc = "resolve" /\ todo = {}
  /\ todo' = work /\ pc' = "poll"
  /\ UNCHANGED <<rows, jour, ledger, book, account, engine, memory, hand, back, lots, tick,
                 crashes, errs, history>>

\* resolveUnconfirmed of an exit: the lot is kept, and not sold for a while
Resolve(n) ==
  /\ pc = "resolve" /\ n \in todo /\ todo' = todo \ {n}
  /\ rest' = rest \cup ({book[n].lot} \cap Has)
  /\ \/ Works /\ jour' = [jour EXCEPT ![n] = "void"]
     \/ Fails /\ UNCHANGED jour
  /\ UNCHANGED <<rows, ledger, book, account, engine, work, loaded, pc, hand, back, lots, tick,
                 crashes, history>>

-----------------------------------------------------------------------------
(* Polling an exit order (pollOne), and settling it (finishSell).          *)

\* An order without a fill may have no line in the broker's list
Unlisted(n) == ~Over(n) \/ book[n].filled = 0

\* Not over as far as the broker tells, or the query failed
PollWaits(n) ==
  /\ pc = "poll" /\ n \in todo /\ todo' = todo \ {n}
  /\ IF n \in work /\ (session = "closed" \/ ~Unlisted(n)) THEN Fails ELSE Works
  /\ UNCHANGED <<rows, jour, ledger, book, account, engine, memory, pc, hand, back, lots, tick,
                 crashes, history>>

\* Mutant: the ordered quantity is taken for the filled one
MutPollEndsWhole(n) ==
  /\ pc = "poll" /\ n \in todo \cap work /\ Over(n)
  /\ todo' = todo \ {n} /\ Take(book[n].lot, n, book[n].size, "finRecord")
  /\ UNCHANGED <<rows, jour, ledger, book, account, engine, memory, back, lots, tick,
                 crashes, errs, history>>

PollEnds(n) ==
  /\ pc = "poll" /\ n \in todo \cap work /\ Over(n)
  /\ todo' = todo \ {n} /\ Take(book[n].lot, n, book[n].filled, "finRecord")
  /\ UNCHANGED <<rows, jour, ledger, book, account, engine, memory, back, lots, tick,
                 crashes, errs, history>>

\* The session is over and the order is not: what is left of it is cancelled
PollCloses(n) ==
  /\ pc = "poll" /\ n \in todo \cap work /\ session = "closed" /\ Unlisted(n)
  /\ todo' = todo \ {n} /\ Take(book[n].lot, n, Reported(n), "cancel")
  /\ UNCHANGED <<rows, jour, ledger, book, account, engine, memory, back, lots, tick,
                 crashes, errs, history>>

\* cancelAndRecheck: cancelled, and the fill is read again, if that works
Cancel ==
  /\ pc = "cancel" /\ Live(cur)
  /\ book' = [book EXCEPT ![cur].state = "dead"] /\ gone' = gone \cup {cur}
  /\ \/ Works /\ seen' = Reported(cur) /\ UNCHANGED astray
     \/ /\ Fails /\ UNCHANGED seen
        /\ astray' = IF seen # book[cur].filled THEN astray \cup {lot} ELSE astray
  /\ pc' = "finRecord"
  /\ UNCHANGED <<rows, jour, ledger, account, engine, memory, cur, lot, outcome, agenda, tick,
                 crashes, twice>>

\* The broker refuses; when the fill read now says it is over, it is over
CancelFails ==
  /\ pc = "cancel" /\ IF Live(cur) THEN Fails ELSE Works
  /\ \/ Over(cur) /\ seen' = Reported(cur) /\ pc' = "finRecord" /\ UNCHANGED <<cur, lot, outcome>>
     \/ Unlisted(cur) /\ Return("poll")
  /\ UNCHANGED <<rows, jour, ledger, book, account, engine, memory, agenda, tick, crashes, history>>

PollsDone ==
  /\ pc = "poll" /\ todo = {}
  /\ Phase(back, IF back = "tpcheck" THEN Has ELSE IF back = "tps" THEN Lots ELSE {})
  /\ UNCHANGED <<rows, jour, ledger, book, account, engine, memory, hand, back, todo, tick,
                 crashes, errs, history>>

\* recordFill of q shares sold by order n; a failed write is reported only
Record(l, n, q) ==
  \/ Works /\ sold' = [sold EXCEPT ![l] = @ + q] /\ told' = told \cup {n} /\ UNCHANGED twice
  \/ Fails /\ UNCHANGED <<sold, told>> /\ twice' = twice \cup {l}

\* finishSell: nothing filled, or no such lot any more: no row, no change
FinNothing ==
  /\ pc = "finRecord" /\ (seen = 0 \/ lot \notin Has) /\ pc' = "finDone"
  /\ UNCHANGED <<rows, jour, ledger, book, account, engine, memory, hand, agenda, tick,
                 crashes, errs, history>>

\* finishSell: a remainder keeps the lot open, unless it is worth too little to
\* be sold, which the price decides
Remainder == pos[lot] - seen

\* Mutant: >= for >
MutKeepsEmpty == Remainder >= 0

Keeps == Remainder > 0
Drops == Remainder < Dust \/ ~Keeps

FinRecord ==
  /\ pc = "finRecord" /\ seen > 0 /\ lot \in Has /\ Record(lot, cur, seen)
  /\ (Keeps /\ pc' = "finReduce") \/ (Drops /\ pc' = "finClose")
  /\ UNCHANGED <<rows, jour, manual, book, account, engine, memory, hand, agenda, tick,
                 crashes, astray, gone>>

\* Mutant: the engine is told, the store is not
MutFinReduceEngine ==
  /\ pc = "finReduce" /\ pc' = "finDone"
  /\ pos' = [pos EXCEPT ![lot] = Remainder] /\ ptp' = [ptp EXCEPT ![lot] = 0]
  /\ UNCHANGED <<rows, jour, ledger, book, account, memory, hand, agenda, tick,
                 crashes, errs, history>>

\* ReduceIntent; the engine is told whether the write worked or not
FinReduce ==
  /\ pc = "finReduce" /\ pc' = "finDone"
  /\ \/ /\ Works /\ UNCHANGED astray
        /\ qty' = [qty EXCEPT ![lot] = Remainder] /\ tp' = [tp EXCEPT ![lot] = 0]
     \/ Fails /\ UNCHANGED <<qty, tp>> /\ astray' = astray \cup {lot}
  /\ pos' = [pos EXCEPT ![lot] = Remainder] /\ ptp' = [ptp EXCEPT ![lot] = 0]
  /\ UNCHANGED <<row, jour, ledger, book, account, memory, hand, agenda, tick,
                 crashes, twice, gone>>

\* CloseIntent, then MarkClosed; a failed write leaves the lot as it was
CloseLot(l) ==
  /\ row' = [row EXCEPT ![l] = "closed"]
  /\ pos' = [pos EXCEPT ![l] = 0] /\ ptp' = [ptp EXCEPT ![l] = 0]

FinClose ==
  /\ pc = "finClose" /\ pc' = "finDone"
  /\ \/ Works /\ CloseLot(lot) /\ UNCHANGED astray
     \/ Fails /\ UNCHANGED <<row, engine>> /\ astray' = astray \cup {lot}
  /\ UNCHANGED <<qty, tp, jour, ledger, book, account, memory, hand, agenda, tick,
                 crashes, twice, gone>>

\* FinishWorking: whatever came of the above, the order is followed no more.  A row
\* that could not be closed brings it back after a restart: its shares are then
\* taken off the lot again, whatever was placed for the lot meanwhile.
FinDone ==
  /\ pc = "finDone" /\ work' = work \ {cur} /\ Return("poll")
  /\ \/ /\ Works /\ UNCHANGED <<astray, twice>>
        /\ jour' = [jour EXCEPT ![cur] = IF @ = "open" THEN "done" ELSE @]
     \/ /\ Fails /\ UNCHANGED jour
        /\ twice' = twice \cup {lot}
        /\ astray' = astray \cup (IF seen > 0 THEN {lot} ELSE {})
  /\ UNCHANGED <<rows, ledger, book, account, engine, loaded, rest, agenda, tick, crashes, gone>>

-----------------------------------------------------------------------------
(* Take-profit orders: did they fill, and what is left of them at night.   *)

TpFull(l, n, q) == n # 0 /\ Reported(n) >= q

\* checkDelegatedTPs, closeIfTPFilled: a TP that filled the whole lot
TpCheck(l) ==
  /\ pc = "tpcheck" /\ l \in lots /\ lots' = lots \ {l}
  /\ \/ /\ TpFull(l, ptp[l], pos[l]) /\ ~Working(l)
        /\ Take(l, ptp[l], Reported(ptp[l]), "tpRecord")
     \/ UNCHANGED <<pc, hand>>      \* asked a moment ago, not full, or no answer
  /\ UNCHANGED <<rows, jour, ledger, book, account, engine, memory, back, todo, tick,
                 crashes, errs, history>>

\* closeTPFill
TpRecord ==
  /\ pc = "tpRecord" /\ Record(lot, cur, seen) /\ pc' = "tpClose"
  /\ UNCHANGED <<rows, jour, manual, book, account, engine, memory, hand, agenda, tick,
                 crashes, astray, gone>>

TpClose ==
  /\ pc = "tpClose" /\ Return(back)
  /\ \/ Works /\ CloseLot(lot) /\ UNCHANGED twice
     \/ Fails /\ UNCHANGED <<row, engine>> /\ twice' = twice \cup {lot}
  /\ UNCHANGED <<qty, tp, jour, ledger, book, account, memory, agenda, tick,
                 crashes, astray, gone>>

TpChecked ==
  /\ pc = "tpcheck" /\ lots = {} /\ Phase("expire", IF session = "closed" THEN Has ELSE {})
  /\ back' = "expire"
  /\ UNCHANGED <<rows, jour, ledger, book, account, engine, memory, hand, todo, tick,
                 crashes, errs, history>>

\* expireDayTPs: the session is over, so is its TP
Expire(l) ==
  /\ pc = "expire" /\ l \in lots /\ lots' = lots \ {l}
  /\ IF ptp[l] = 0 \/ Working(l) THEN UNCHANGED <<pc, hand, errs>>
     ELSE \/ Fails /\ UNCHANGED <<pc, hand>>
          \/ /\ Works
             /\ Take(l, ptp[l], Reported(ptp[l]),
                     IF TpFull(l, ptp[l], pos[l]) THEN "tpRecord"
                     ELSE IF Reported(ptp[l]) > 0 THEN "dayRecord" ELSE "dayClear")
  /\ UNCHANGED <<rows, jour, ledger, book, account, engine, memory, back, todo, tick,
                 crashes, history>>

\* reduceByDayTP: the row's id comes from the order's, so it is written once
DayRecord ==
  /\ pc = "dayRecord" /\ pc' = "dayReduce"
  /\ IF cur \in told THEN UNCHANGED <<sold, told, twice, errs>> ELSE Record(lot, cur, seen)
  /\ UNCHANGED <<rows, jour, manual, book, account, engine, memory, hand, agenda, tick,
                 crashes, astray, gone>>

DayReduce ==
  /\ pc = "dayReduce" /\ Return("expire")
  /\ \/ /\ Works
        /\ qty' = [qty EXCEPT ![lot] = Remainder] /\ tp' = [tp EXCEPT ![lot] = 0]
        /\ pos' = [pos EXCEPT ![lot] = Remainder] /\ ptp' = [ptp EXCEPT ![lot] = 0]
     \/ Fails /\ UNCHANGED <<qty, tp, engine>>
  /\ UNCHANGED <<row, jour, ledger, book, account, memory, agenda, tick, crashes, history>>

DayClear ==
  /\ pc = "dayClear" /\ Return("expire")
  /\ \/ Works /\ tp' = [tp EXCEPT ![lot] = 0] /\ ptp' = [ptp EXCEPT ![lot] = 0]
     \/ Fails /\ UNCHANGED <<tp, ptp>>
  /\ UNCHANGED <<row, qty, jour, ledger, book, account, pos, memory, agenda, tick, crashes, history>>

\* A periodic tick compares with the account next, a woken one plans at once
Expired ==
  /\ pc = "expire" /\ lots = {} /\ pc' \in {"sync", "plan"}
  /\ UNCHANGED <<rows, jour, ledger, book, account, engine, memory, hand, agenda, tick,
                 crashes, errs, history>>

-----------------------------------------------------------------------------
(* syncPositions: the account knows how many shares there are.             *)

\* Positions or OpenIntents failed: not "no shares"
SyncFails ==
  /\ pc = "sync" /\ Fails /\ pc' = "plan"
  /\ UNCHANGED <<rows, jour, ledger, book, account, engine, memory, hand, agenda, tick,
                 crashes, history>>

\* All shares are gone: every lot that is not being sold ends
SyncVanished ==
  /\ pc = "sync" /\ Held = 0 /\ Works
  /\ Phase("vanish", {l \in OpenLots : ~Working(l)}) /\ back' = "vanish"
  /\ UNCHANGED <<rows, jour, ledger, book, account, engine, memory, hand, todo, tick,
                 crashes, history>>

Expected == SumFunctionOnSet(qty, OpenLots)

\* attributeShrink: one lot, and the foreign sales are just what is missing
Explained(l) == OpenLots = {l} /\ ~Working(l) /\ Expected > Held /\ Foreign = Expected - Held

\* Some shares are there: the engine takes the lots from the store.  When they
\* are fewer than the lots hold, that is reported only, or could not be explained.
SyncLots ==
  /\ pc = "sync" /\ Held > 0 /\ pc' = "plan"
  /\ IF \E l \in Lots : Explained(l) THEN Fails ELSE Works
  /\ LET S == {l \in OpenLots : ~Working(l)} IN
       /\ pos' = [l \in Lots |-> IF l \in S THEN qty[l] ELSE pos[l]]
       /\ ptp' = [l \in Lots |-> IF l \in S THEN tp[l] ELSE ptp[l]]
  /\ UNCHANGED <<rows, jour, ledger, book, account, memory, hand, agenda, tick, crashes, history>>

SyncShrinks(l) ==
  /\ pc = "sync" /\ Held > 0 /\ Works /\ Explained(l)
  /\ Take(l, 0, Held, "shrRecord")
  /\ UNCHANGED <<rows, jour, ledger, book, account, engine, memory, agenda, tick,
                 crashes, history>>

\* A ledger row of q shares sold by someone else
RecordManual(l, q) ==
  \/ Works /\ manual' = [manual EXCEPT ![l] = @ + q] /\ UNCHANGED twice
  \/ Fails /\ UNCHANGED manual /\ twice' = twice \cup {l}

ShrRecord ==
  /\ pc = "shrRecord" /\ RecordManual(lot, qty[lot] - seen) /\ pc' = "shrReduce"
  /\ UNCHANGED <<rows, jour, told, sold, book, account, engine, memory, hand, agenda, tick,
                 crashes, astray, gone>>

ShrReduce ==
  /\ pc = "shrReduce" /\ Return("plan")
  /\ \/ /\ Works /\ UNCHANGED twice
        /\ qty' = [qty EXCEPT ![lot] = seen] /\ tp' = [tp EXCEPT ![lot] = 0]
        /\ pos' = [pos EXCEPT ![lot] = seen] /\ ptp' = [ptp EXCEPT ![lot] = tp[lot]]
     \/ Fails /\ UNCHANGED <<qty, tp, engine>> /\ twice' = twice \cup {lot}
  /\ astray' = astray \cup Slips(lot, tp[lot])
  /\ UNCHANGED <<row, jour, ledger, book, account, memory, agenda, tick, crashes, gone>>

\* A vanished lot ends as its TP says, if that filled ...
VanishTp(l) ==
  /\ pc = "vanish" /\ l \in lots /\ TpFull(l, tp[l], qty[l])
  /\ lots' = lots \ {l} /\ Take(l, tp[l], Reported(tp[l]), "tpRecord")
  /\ UNCHANGED <<rows, jour, ledger, book, account, engine, memory, back, todo, tick,
                 crashes, errs, history>>

\* ... and as sold by hand if not, or if the TP could not be asked for
VanishManual(l) ==
  /\ pc = "vanish" /\ l \in lots
  /\ IF \E k \in lots : TpFull(k, tp[k], qty[k]) THEN Fails ELSE Works
  /\ lots' = lots \ {l} /\ Take(l, tp[l], qty[l], "manRecord")
  /\ UNCHANGED <<rows, jour, ledger, book, account, engine, memory, back, todo, tick,
                 crashes, history>>

\* closeManual
ManRecord ==
  /\ pc = "manRecord" /\ RecordManual(lot, seen) /\ pc' = "manClose"
  /\ UNCHANGED <<rows, jour, told, sold, book, account, engine, memory, hand, agenda, tick,
                 crashes, astray, gone>>

ManClose ==
  /\ pc = "manClose" /\ Return(back)
  /\ \/ Works /\ CloseLot(lot) /\ UNCHANGED twice
     \/ Fails /\ UNCHANGED <<row, engine>> /\ twice' = twice \cup {lot}
  /\ astray' = astray \cup Slips(lot, cur)
  /\ UNCHANGED <<qty, tp, jour, ledger, book, account, memory, agenda, tick, crashes, gone>>

Vanished ==
  /\ pc = "vanish" /\ lots = {} /\ pc' = "plan"
  /\ UNCHANGED <<rows, jour, ledger, book, account, engine, memory, hand, agenda, tick,
                 crashes, errs, history>>

-----------------------------------------------------------------------------
(* The plan and the exits it lists (doSell), those of enforceLocalExits    *)
(* included: any lot, in part (hold_frac) or as a whole.                   *)

MakePlan ==
  /\ pc = "plan" /\ pc' = "sell" /\ back' = "sell"
  /\ plan' = [qty |-> pos, tp |-> ptp] /\ spent' = {}
  /\ UNCHANGED <<rows, jour, ledger, book, account, engine, memory, hand, todo, lots, placed,
                 crashes, errs, history>>

\* Mutant: a lot being sold is sold again
MutSellTwice(l, q) ==
  /\ pc = "sell" /\ session = "open" /\ l \in Has \ (spent \cup rest)
  /\ q <= pos[l] /\ Len(book) < MaxOrders
  /\ spent' = spent \cup {l}
  /\ Take(l, ptp[l], q, IF ptp[l] = 0 THEN "journal" ELSE "sellCancel")
  /\ UNCHANGED <<rows, jour, ledger, book, account, engine, memory, agenda, plan, placed,
                 crashes, errs, history>>

\* doSell up to its first effect: the TP holds the shares, so it goes first
Sell(l, q) ==
  /\ pc = "sell" /\ session = "open" /\ l \in Has \ (spent \cup rest) /\ ~Working(l)
  /\ q <= pos[l] /\ Len(book) < MaxOrders
  /\ spent' = spent \cup {l}
  /\ Take(l, ptp[l], q, IF ptp[l] = 0 THEN "journal" ELSE "sellCancel")
  /\ UNCHANGED <<rows, jour, ledger, book, account, engine, memory, agenda, plan, placed,
                 crashes, errs, history>>

\* CancelOrder of the TP; refused when it is over, or without an answer
SellCancel ==
  /\ pc = "sellCancel"
  /\ IF Live(cur)
       THEN /\ book' = [book EXCEPT ![cur].state = "dead"] /\ gone' = gone \cup {cur}
            /\ astray' = astray \cup Slips(lot, cur)
            /\ pc' = "clearTp" /\ UNCHANGED hand
       ELSE Return("sell") /\ UNCHANGED <<book, gone, astray>>
  /\ UNCHANGED <<rows, jour, ledger, account, engine, memory, agenda, tick,
                 crashes, errs, twice>>

SellCancelLost ==
  /\ pc = "sellCancel" /\ Fails /\ Return("sell")
  /\ UNCHANGED <<rows, jour, ledger, book, account, engine, memory, agenda, tick,
                 crashes, history>>

ClearTp ==
  /\ pc = "clearTp" /\ pc' = "journal"
  /\ \/ Works /\ tp' = [tp EXCEPT ![lot] = 0]
     \/ Fails /\ UNCHANGED tp
  /\ ptp' = [ptp EXCEPT ![lot] = 0]
  /\ UNCHANGED <<row, qty, jour, ledger, book, account, pos, memory, hand, agenda, tick,
                 crashes, history>>

\* A new order of the cockpit
NewOrder(l, kind, q, st) ==
  book' = Append(book, [lot |-> l, kind |-> kind, size |-> q, day |-> day, state |-> st, filled |-> 0])

\* journal: an exit goes out even when its row could not be written
Journal ==
  /\ pc = "journal" /\ pc' = "submit"
  /\ NewOrder(lot, "exit", seen, "unsent") /\ cur' = Len(book) + 1
  /\ \/ Works /\ jour' = [jour EXCEPT ![Len(book) + 1] = "pre"]
     \/ Fails /\ UNCHANGED jour
  /\ UNCHANGED <<rows, ledger, account, engine, memory, lot, seen, outcome, agenda, tick,
                 crashes, history>>

Accept(n) == book' = [book EXCEPT ![n].state = "live", ![n].day = day]

SubmitAccepted ==
  /\ pc = "submit" /\ session = "open" /\ Free >= seen
  /\ Accept(cur) /\ pc' = "track"
  /\ UNCHANGED <<rows, jour, ledger, account, engine, memory, hand, agenda, tick,
                 crashes, errs, history>>

\* ErrNotEnoughShare, or any other refusal
SubmitRefused ==
  /\ pc = "submit" /\ outcome' = (IF Free < seen THEN "short" ELSE "refused")
  /\ pc' = "unjournal"
  /\ UNCHANGED <<rows, jour, ledger, book, account, engine, memory, cur, lot, seen, agenda, tick,
                 crashes, errs, history>>

\* ErrMaybeSent: the exchange has the order or not
SubmitMaybe ==
  /\ pc = "submit" /\ Fails /\ outcome' = "maybe" /\ pc' = "unjournal"
  /\ \/ session = "open" /\ Free >= seen /\ Accept(cur) /\ astray' = astray \cup {lot}
     \/ UNCHANGED <<book, astray>>
  /\ UNCHANGED <<rows, jour, ledger, account, engine, memory, cur, lot, seen, agenda, tick,
                 crashes, twice, gone>>

\* track: the order is followed whether its row could be written or not
Track ==
  /\ pc = "track" /\ Return("sell")
  /\ \/ Works /\ jour' = [jour EXCEPT ![cur] = "open"] /\ UNCHANGED astray
     \/ Fails /\ UNCHANGED jour /\ astray' = astray \cup {lot}
  /\ work' = work \cup {cur} /\ placed' = placed \cup {cur}
  /\ UNCHANGED <<rows, ledger, book, account, engine, loaded, rest, agenda, plan, spent,
                 crashes, twice, gone>>

\* unjournal, then sellFailed: wait, unless the account has no share at all
Unjournal ==
  /\ pc = "unjournal"
  /\ \/ Works /\ jour' = [jour EXCEPT ![cur] = IF @ = "pre" THEN "void" ELSE @]
     \/ Fails /\ UNCHANGED jour
  /\ IF outcome = "short" THEN pc' = "askHeld" /\ UNCHANGED <<hand, rest>>
                          ELSE Return("sell") /\ rest' = rest \cup {lot}
  /\ UNCHANGED <<rows, ledger, book, account, engine, work, loaded, agenda, tick,
                 crashes, history>>

SellFailed ==
  /\ pc = "askHeld"
  /\ \/ /\ Held = 0 /\ Works /\ rest' = rest \ {lot}
        /\ pc' = "manRecord" /\ cur' = tp[lot] /\ seen' = pos[lot] /\ UNCHANGED <<lot, outcome>>
     \/ /\ IF Held = 0 THEN Fails ELSE Works
        /\ rest' = rest \cup {lot} /\ Return("sell")
  /\ UNCHANGED <<rows, jour, ledger, book, account, engine, work, loaded, agenda, tick,
                 crashes, history>>

\* The exits are out: pollPlaced asks once for each order of this tick
SellsDone ==
  /\ pc = "sell" /\ pc' = "poll" /\ back' = "tps"
  /\ todo' = placed /\ placed' = {}
  /\ UNCHANGED <<rows, jour, ledger, book, account, engine, memory, hand, lots, plan, spent,
                 crashes, errs, history>>

-----------------------------------------------------------------------------
(* The tick's three writers of the plan's snapshot: stops (armStop), time  *)
(* exits (setTimeExit), TPs (placeTP).  None touches a lot sold meanwhile. *)

\* The lots all three go over
Untouched(l) == plan.qty[l] > 0 /\ l \notin spent /\ ~Working(l)

\* Stops and time exits come before the first TP
BeforeTps == pc = "tps" /\ lots = Lots

\* The engine's lot is the snapshot again
SnapshotBack(l) == pos' = [pos EXCEPT ![l] = plan.qty[l]] /\ ptp' = [ptp EXCEPT ![l] = plan.tp[l]]

\* Mutant: the stop of a lot sold meanwhile is moved, too
MutArmStopSold(l) ==
  /\ BeforeTps /\ plan.qty[l] > 0 /\ ~Working(l)
  /\ \/ /\ Works /\ SnapshotBack(l)
        /\ qty' = [qty EXCEPT ![l] = plan.qty[l]] /\ tp' = [tp EXCEPT ![l] = plan.tp[l]]
     \/ Fails /\ UNCHANGED <<qty, tp, engine>>
  /\ UNCHANGED <<row, jour, ledger, book, account, memory, pc, hand, agenda, tick, crashes, history>>

\* A new stop: UpsertIntent writes the whole row from the snapshot, its quantity and
\* its TP with it
ArmStop(l) ==
  /\ BeforeTps /\ Untouched(l)
  /\ \/ /\ Works /\ SnapshotBack(l)
        /\ qty' = [qty EXCEPT ![l] = plan.qty[l]] /\ tp' = [tp EXCEPT ![l] = plan.tp[l]]
     \/ Fails /\ UNCHANGED <<qty, tp, engine>>
  /\ UNCHANGED <<row, jour, ledger, book, account, memory, pc, hand, agenda, tick, crashes, history>>

\* A new time exit: a column of its own in the store, but the whole lot in the engine
SetTimeExit(l) ==
  /\ BeforeTps /\ Untouched(l)
  /\ (Works /\ SnapshotBack(l)) \/ (Fails /\ UNCHANGED engine)
  /\ UNCHANGED <<rows, jour, ledger, book, account, memory, pc, hand, agenda, tick, crashes, history>>

PlanTp(l) ==
  /\ pc = "tps" /\ session = "open" /\ l \in lots /\ lots' = lots \ {l}
  /\ Untouched(l) /\ Len(book) < MaxOrders
  /\ Take(l, plan.tp[l], plan.qty[l], IF plan.tp[l] = 0 THEN "tpPlace" ELSE "tpCancel")
  /\ UNCHANGED <<rows, jour, ledger, book, account, engine, memory, back, todo, tick,
                 crashes, errs, history>>

\* The price of a TP changed: the old order goes first
TpCancel ==
  /\ pc = "tpCancel"
  /\ IF Live(cur)
       THEN /\ book' = [book EXCEPT ![cur].state = "dead"] /\ gone' = gone \cup {cur}
            /\ astray' = astray \cup Slips(lot, cur)
            /\ pc' = "tpPlace" /\ UNCHANGED hand
       ELSE Return("tps") /\ UNCHANGED <<book, gone, astray>>
  /\ UNCHANGED <<rows, jour, ledger, account, engine, memory, agenda, tick,
                 crashes, errs, twice>>

TpCancelLost ==
  /\ pc = "tpCancel" /\ Fails /\ Return("tps")
  /\ UNCHANGED <<rows, jour, ledger, book, account, engine, memory, agenda, tick,
                 crashes, history>>

TpAccepted ==
  /\ pc = "tpPlace" /\ session = "open" /\ Free >= seen
  /\ NewOrder(lot, "tp", seen, "live") /\ cur' = Len(book) + 1 /\ pc' = "tpSave"
  /\ UNCHANGED <<rows, jour, ledger, account, engine, memory, lot, seen, outcome, agenda, tick,
                 crashes, errs, history>>

\* PlaceTP refused: the TP field keeps the order just cancelled
TpRefused ==
  /\ pc = "tpPlace" /\ Return("tps")
  /\ UNCHANGED <<rows, jour, ledger, book, account, engine, memory, agenda, tick,
                 crashes, errs, history>>

\* No answer, and the exchange has it
TpMaybe ==
  /\ pc = "tpPlace" /\ session = "open" /\ Free >= seen /\ Fails
  /\ NewOrder(lot, "tp", seen, "live")
  /\ astray' = astray \cup {lot} /\ Return("tps")
  /\ UNCHANGED <<rows, jour, ledger, account, engine, memory, agenda, tick, crashes, twice, gone>>

\* UpsertIntent with the snapshot's quantity and the new order
TpSave ==
  /\ pc = "tpSave" /\ Return("tps")
  /\ \/ /\ Works /\ UNCHANGED astray
        /\ qty' = [qty EXCEPT ![lot] = seen] /\ tp' = [tp EXCEPT ![lot] = cur]
        /\ pos' = [pos EXCEPT ![lot] = seen] /\ ptp' = [ptp EXCEPT ![lot] = cur]
     \/ Fails /\ UNCHANGED <<qty, tp, engine>> /\ astray' = astray \cup {lot}
  /\ UNCHANGED <<row, jour, ledger, book, account, memory, agenda, tick, crashes, twice, gone>>

TickDone ==
  /\ pc = "tps" /\ pc' = "idle" /\ back' = "idle" /\ lots' = {} /\ plan' = NoPlan /\ spent' = {}
  /\ UNCHANGED <<rows, jour, ledger, book, account, engine, memory, hand, todo, placed,
                 crashes, errs, history>>

-----------------------------------------------------------------------------
Following == Begin \/ Load \/ LoadFails \/ Loaded \/ \E n \in Orders : Resolve(n)

Polling == \/ \E n \in Orders : PollWaits(n) \/ PollEnds(n) \/ PollCloses(n)
           \/ Cancel \/ CancelFails \/ PollsDone
           \/ FinNothing \/ FinRecord \/ FinReduce \/ FinClose \/ FinDone

Profits == \/ TpRecord \/ TpClose \/ TpChecked \/ DayRecord \/ DayReduce \/ DayClear \/ Expired
           \/ \E l \in Lots : TpCheck(l) \/ Expire(l)

Syncing == \/ SyncFails \/ SyncVanished \/ SyncLots \/ Vanished
           \/ ShrRecord \/ ShrReduce \/ ManRecord \/ ManClose
           \/ \E l \in Lots : SyncShrinks(l) \/ VanishTp(l) \/ VanishManual(l)

Selling == \/ MakePlan \/ SellCancel \/ SellCancelLost \/ ClearTp \/ Journal
           \/ SubmitAccepted \/ SubmitRefused \/ SubmitMaybe \/ Track
           \/ Unjournal \/ SellFailed \/ SellsDone
           \/ \E l \in Lots : \E q \in 1 .. EntryQty[l] : Sell(l, q)

Delegating == \/ TpCancel \/ TpCancelLost \/ TpAccepted \/ TpRefused \/ TpMaybe \/ TpSave \/ TickDone
              \/ \E l \in Lots : ArmStop(l) \/ SetTimeExit(l) \/ PlanTp(l)

World == \/ \E n \in Made : FillOrder(n) \/ KillOrder(n)
         \/ SellByHand \/ CloseSession \/ NewDay \/ \E l \in Lots : RestOver(l)

Next == Following \/ Polling \/ Profits \/ Syncing \/ Selling \/ Delegating \/ World \/ Crash

Spec == Init /\ [][Next]_vars

-----------------------------------------------------------------------------
(* Properties.                                                             *)

Upto(l) == 0 .. EntryQty[l]

Order == [lot : Lots, kind : {"exit", "tp"}, size : Nat, day : 0 .. MaxDays,
          state : {"unsent", "live", "dead"}, filled : Nat]

\* Types; an open lot always holds a share
TypeOK ==
  /\ row \in [Lots -> {"open", "closed"}]
  /\ qty \in [Lots -> Nat] /\ pos \in [Lots -> Nat] /\ plan.qty \in [Lots -> Nat]
  /\ \A l \in Lots : qty[l] \in 1 .. EntryQty[l] /\ pos[l] \in Upto(l) /\ plan.qty[l] \in Upto(l)
  /\ tp \in [Lots -> 0 .. MaxOrders] /\ ptp \in [Lots -> 0 .. MaxOrders]
  /\ plan.tp \in [Lots -> 0 .. MaxOrders]
  /\ sold \in [Lots -> Nat] /\ manual \in [Lots -> Nat]
  /\ jour \in [Orders -> {"none", "pre", "void", "open", "done"}]
  /\ book \in Seq(Order) /\ Len(book) <= MaxOrders
  /\ \A n \in Made : book[n].size \in 1 .. EntryQty[book[n].lot] /\ book[n].filled <= book[n].size
  /\ byHand \in [all : Nat, today : Nat] /\ day \in 0 .. MaxDays /\ session \in {"open", "closed"}
  /\ told \cup work \cup todo \cup placed \cup gone \subseteq Orders /\ loaded \in BOOLEAN
  /\ rest \cup lots \cup spent \cup astray \cup twice \subseteq Lots
  /\ lot \in Lots \cup {NoLot} /\ cur \in 0 .. MaxOrders /\ seen \in Nat
  /\ Held >= 0 /\ Free >= 0

\* The same shares are never offered twice: a lot has one live order at most, TP
\* or exit, unless an order's answer or number was lost (doSell, placeTP).
OfferedOnce ==
  \A l \in Lots \ astray : \A m, n \in Of(l) : Live(m) /\ Live(n) => m = n

\* Exits sell the lot's own shares, never a sibling's or the user's, unless a
\* fill of the lot was lost on the way.
OwnSharesKept == \A l \in Lots \ astray : FilledOf(l) <= EntryQty[l]

\* The same, plainly, as the protocol says it.
OwnShares == \A l \in Lots : FilledOf(l) <= EntryQty[l]

\* When a lot is closed the ledger holds what its orders sold, once, and what
\* is missing was sold by hand: no share is left behind.
LedgerTrue ==
  \A l \in Lots \ (astray \cup twice) :
    row[l] = "closed" => /\ sold[l] = FilledOf(l)
                         /\ EntryQty[l] - sold[l] - manual[l] < (IF Dust > 1 THEN Dust ELSE 1)

\* A cancelled TP is forgotten: at the end of a tick no lot counts on an order
\* the cockpit itself has cancelled.
NoDeadTP == pc = "idle" => \A l \in Lots : row[l] = "open" => tp[l] \notin gone

\* A lot never grows, and a closed one stays closed: what was sold in a tick is not
\* written back by the snapshot of its plan (armStop, setTimeExit, placeTP).
NeverGrows == [][\A l \in Lots : qty'[l] <= qty[l] /\ (row[l] = "closed" => row'[l] = "closed")]_vars

=============================================================================
