------------------------------- MODULE Paper --------------------------------
(***************************************************************************)
(* The paper account (internal/broker/paper) under the executor that       *)
(* trades on it: a broker in memory, several lots of one symbol, and the   *)
(* ledger from which a restart builds the account again                    *)
(* (executor/paper_restore.go, store.PaperCashFlow).                       *)
(*                                                                         *)
(* Every order is filled when it is sent, so no order is ever in flight;   *)
(* what can come between is a crash: after the broker's answer and before  *)
(* the ledger's row, after the row and before the lot.  Writes of the      *)
(* ledger succeed.  Costs and slippage are left out: an amount is booked   *)
(* in the ledger as it was taken from the account.                         *)
(***************************************************************************)
EXTENDS Integers, FiniteSets, FiniteSetsExt, Functions

CONSTANTS
  Intents,   \* each wants a lot of the one symbol
  Size,      \* shares of an entry
  Parts,     \* shares that a partial exit may sell
  Seed,      \* the cash of a new account
  Prices,    \* what a share may cost
  TpPrices,  \* the prices of take-profit orders
  MinOrder,  \* Broker.MinOrderValue: the smallest order, 0 where the exchange has none
  MaxSeq     \* bound: numbers of orders

ASSUME PaperAssumption ==
  /\ IsFiniteSet(Intents)
  /\ Size \in Nat \ {0} /\ Parts \subseteq 1 .. Size /\ Seed \in Nat /\ MaxSeq \in Nat
  /\ Prices \subseteq Nat \ {0} /\ TpPrices \subseteq Nat \ {0} /\ MinOrder \in Nat

VARIABLES
  cash, held, sellable, tps, seq,  \* paper.Broker: the account; tps: records [id, qty, price]
  lot,       \* Engine.positions: shares and take-profit order of an intent, and its price (TpArmed)
  row,       \* its row in the table of intents
  net, top,  \* what PaperCashFlow reads in the table of orders: the flow of cash, the last number
  pc,        \* the operation of the executor that is not done yet
  price,
  (* history, read by no action *)
  entered, left,  \* shares that the ledger says were bought and sold for an intent
  dust,      \* shares of a closed lot that were too few to sell, and that the account still has
  torn       \* intents for which a crash came between a row of the ledger and the lot

account == <<cash, held, sellable, tps, seq>>
ledger  == <<row, net, top, entered, left>>
history == <<dust, torn>>
vars    == <<account, lot, ledger, pc, price, history>>

NoOrder == 0
Bare(qty) == [qty |-> qty, tp |-> NoOrder, armed |-> 0]
NoLot   == Bare(0)
NoRow   == [state |-> "none", qty |-> 0, tp |-> NoOrder, armed |-> 0]
Idle    == [op |-> "idle"]

Orders == [id : 1 .. MaxSeq, qty : 1 .. Size, price : TpPrices]

\* Where the executor stands: bought or sold, booked in the table of orders, and what is next.
\* A lot keeps some shares after a sale; fills of take-profit orders wait to be booked
Operations ==
  {Idle}
    \cup [op : {"bought", "enter"}, i : Intents, qty : {Size}, paid : Nat]
    \cup [op : {"clear", "sell"}, i : Intents, qty : 1 .. Size]
    \cup [op : {"sold", "shrink"}, i : Intents, qty : 1 .. Size, paid : Nat, id : 1 .. MaxSeq,
          keeps : 0 .. Size, fills : SUBSET Orders]
    \cup [op : {"place"}, i : Intents, price : TpPrices]
    \cup [op : {"placed"}, i : Intents, price : TpPrices, id : 1 .. MaxSeq]
    \cup [op : {"fills"}, fills : SUBSET Orders]

Shares(orders) == SumFunction([t \in orders |-> t.qty])
Value(orders) == SumFunction([t \in orders |-> t.qty * t.price])
AtLeast(x, y) == IF x > y THEN x ELSE y
Open == {i \in Intents : row[i].state = "open"}

-----------------------------------------------------------------------------
(* The broker.                                                             *)

\* Broker.Buy and Broker.Sell forget what the orders lock
Bought(qty, p) ==
  /\ cash' = cash - qty * p /\ held' = held + qty /\ sellable' = held' /\ seq' = seq + 1
  /\ UNCHANGED tps

\* Mutant: a sale leaves what may be sold as it was
MutGiven(qty, p) ==
  /\ cash' = cash + qty * p /\ held' = held - qty /\ seq' = seq + 1
  /\ UNCHANGED <<sellable, tps>>

Given(qty, p) ==
  /\ cash' = cash + qty * p /\ held' = held - qty /\ sellable' = held' /\ seq' = seq + 1
  /\ UNCHANGED tps

\* A new order locks its own shares and forgets what the others lock
Placed(qty, p) ==
  /\ tps' = tps \cup {[id |-> seq + 1, qty |-> qty, price |-> p]} /\ seq' = seq + 1
  /\ sellable' = AtLeast(0, held - qty)
  /\ UNCHANGED <<cash, held>>

\* Mutant: the shares of a cancelled order stay locked
MutCancelled(id) == tps' = {t \in tps : t.id # id} /\ UNCHANGED <<cash, held, sellable, seq>>

\* An order that is not there is cancelled, too
Cancelled(id) ==
  /\ tps' = {t \in tps : t.id # id}
  /\ sellable' = IF tps' = tps THEN sellable ELSE held
  /\ UNCHANGED <<cash, held, seq>>

Reached == {t \in tps : t.price <= price}

\* SettleLimits: the orders whose price is reached are filled in any order, and one without
\* shares is dropped; the others stay, and what they lock is forgotten
Settled(filled) ==
  /\ filled \subseteq Reached /\ Shares(filled) <= held
  /\ \A t \in Reached \ filled : held - Shares(filled) < t.qty
  /\ cash' = cash + Value(filled)
  /\ held' = held - Shares(filled) /\ sellable' = IF filled = {} THEN sellable ELSE held'
  /\ tps' = tps \ Reached /\ UNCHANGED seq

-----------------------------------------------------------------------------
(* The executor: an operation begins when no other is under way.           *)

Begin(op) == pc = Idle /\ pc' = op

Buy(i) ==
  /\ row[i].state = "none" /\ Size * price <= cash /\ seq < MaxSeq
  /\ Begin([op |-> "bought", i |-> i, qty |-> Size, paid |-> Size * price])
  /\ Bought(Size, price)
  /\ UNCHANGED <<lot, ledger, price, history>>

\* recordFill of finishEnter
BookBuy ==
  /\ pc.op = "bought"
  /\ net' = net - pc.paid /\ top' = seq
  /\ entered' = [entered EXCEPT ![pc.i] = @ + pc.qty]
  /\ pc' = [pc EXCEPT !.op = "enter"]
  /\ UNCHANGED <<account, lot, row, left, price, history>>

\* UpsertIntent and UpsertPosition of finishEnter
Enter ==
  /\ pc.op = "enter"
  /\ row' = [row EXCEPT ![pc.i] = [state |-> "open", qty |-> pc.qty, tp |-> NoOrder, armed |-> 0]]
  /\ lot' = [lot EXCEPT ![pc.i] = Bare(pc.qty)]
  /\ pc' = Idle
  /\ UNCHANGED <<account, net, top, entered, left, price, history>>

\* doSell and placeTP cancel the order of the lot before they go on
Cancel(i, next) ==
  /\ lot[i].qty > 0 /\ lot[i].tp # NoOrder
  /\ Begin(next) /\ Cancelled(lot[i].tp)
  /\ UNCHANGED <<lot, ledger, price, history>>

\* The take-profit order of a row or of a lot, and its price
WithTP(r, id, p) == [r EXCEPT !.tp = id, !.armed = p]

\* ClearTP of doSell
ClearTP ==
  /\ pc.op = "clear"
  /\ row' = [row EXCEPT ![pc.i] = WithTP(@, NoOrder, 0)]
  /\ lot' = [lot EXCEPT ![pc.i] = WithTP(@, NoOrder, 0)]
  /\ pc' = [pc EXCEPT !.op = "sell"]
  /\ UNCHANGED <<account, net, top, entered, left, price, history>>

\* What a lot keeps after a sale: nothing, when it would be too little to be sold
Keeps(qty, sold) == IF (qty - sold) * price < MinOrder THEN 0 ELSE qty - sold

\* Broker.Sell of doSell, which may be refused
Sell(i, qty) ==
  /\ IF qty <= sellable
     THEN /\ seq < MaxSeq /\ Given(qty, price)
          /\ pc' = [op |-> "sold", i |-> i, qty |-> qty, paid |-> qty * price, id |-> seq + 1,
                    keeps |-> Keeps(lot[i].qty, qty), fills |-> {}]
     ELSE pc' = Idle /\ UNCHANGED account
  /\ UNCHANGED <<lot, ledger, price, history>>

Exit(i, qty) ==
  /\ 0 < qty /\ qty <= lot[i].qty
  /\ \/ Cancel(i, [op |-> "clear", i |-> i, qty |-> qty])
     \/ lot[i].tp = NoOrder /\ pc = Idle /\ Sell(i, qty)

SellCleared == pc.op = "sell" /\ Sell(pc.i, pc.qty)

\* recordFill of finishSell and of settleLimits
BookSell ==
  /\ pc.op = "sold"
  /\ net' = net + pc.paid /\ top' = AtLeast(top, pc.id)
  /\ left' = [left EXCEPT ![pc.i] = @ + pc.qty]
  /\ pc' = [pc EXCEPT !.op = "shrink"]
  /\ UNCHANGED <<account, lot, row, entered, price, history>>

\* Mutant: a lot is over with its first sale
MutRestOver(r, keeps) == [r EXCEPT !.state = "closed"]

\* ReduceIntent and CloseIntent: a closed row keeps the number of its order
Rest(r, keeps) ==
  IF keeps = 0 THEN [r EXCEPT !.state = "closed"]
  ELSE [WithTP(r, NoOrder, 0) EXCEPT !.qty = keeps]

\* Fills are booked one after the other
Booking(fills) == IF fills = {} THEN Idle ELSE [op |-> "fills", fills |-> fills]

\* A lot that keeps no shares ends, though the account may still have some of it
Shrink ==
  /\ pc.op = "shrink"
  /\ row' = [row EXCEPT ![pc.i] = Rest(@, pc.keeps)]
  /\ lot' = [lot EXCEPT ![pc.i] = Bare(pc.keeps)]
  /\ dust' = [dust EXCEPT ![pc.i] = IF pc.keeps = 0 THEN row[pc.i].qty - pc.qty ELSE @]
  /\ pc' = Booking(pc.fills)
  /\ UNCHANGED <<account, net, top, entered, left, price, torn>>

\* An order is placed where there is none, or none at that price
PlaceTP(i, p) ==
  /\ lot[i].qty > 0 /\ lot[i].armed # p
  /\ \/ Cancel(i, [op |-> "place", i |-> i, price |-> p])
     \/ /\ lot[i].tp = NoOrder /\ seq < MaxSeq /\ lot[i].qty <= held
        /\ Begin([op |-> "placed", i |-> i, price |-> p, id |-> seq + 1]) /\ Placed(lot[i].qty, p)
        /\ UNCHANGED <<lot, ledger, price, history>>

\* Broker.PlaceTP after the old order was cancelled
PlaceAgain ==
  /\ pc.op = "place"
  /\ IF lot[pc.i].qty <= held
     THEN /\ seq < MaxSeq /\ Placed(lot[pc.i].qty, pc.price)
          /\ pc' = [op |-> "placed", i |-> pc.i, price |-> pc.price, id |-> seq + 1]
     ELSE UNCHANGED account /\ pc' = Idle
  /\ UNCHANGED <<lot, ledger, price, history>>

\* UpsertIntent and UpsertPosition of placeTP
Armed ==
  /\ pc.op = "placed"
  /\ row' = [row EXCEPT ![pc.i] = WithTP(@, pc.id, pc.price)]
  /\ lot' = [lot EXCEPT ![pc.i] = WithTP(@, pc.id, pc.price)]
  /\ pc' = Idle
  /\ UNCHANGED <<account, net, top, entered, left, price, history>>

\* settleLimits asks the broker
Settle ==
  /\ Reached # {}
  /\ \E filled \in SUBSET tps : Settled(filled) /\ Begin(Booking(filled))
  /\ UNCHANGED <<lot, ledger, price, history>>

\* A filled order ends its lot whatever its shares; a fill that no open lot knows is only reported
NextFill ==
  /\ pc.op = "fills"
  /\ \E f \in pc.fills :
       LET rest == pc.fills \ {f}
       IN  pc' \in IF \E i \in Open : row[i].tp = f.id
                   THEN {[op |-> "sold", i |-> i, qty |-> f.qty, paid |-> f.qty * f.price, id |-> f.id,
                          keeps |-> 0, fills |-> rest] : i \in {j \in Open : row[j].tp = f.id}}
                   ELSE {Booking(rest)}
  /\ UNCHANGED <<account, lot, ledger, price, history>>

-----------------------------------------------------------------------------
(* Crash and restart: PaperState and Broker.Restore.  The dust is lost.    *)

RestoredTps ==
  {[id |-> row[i].tp, qty |-> row[i].qty, price |-> row[i].armed] :
     i \in {j \in Open : row[j].tp # NoOrder /\ row[j].armed > 0}}
RestoredHeld == SumFunction([i \in Open |-> row[i].qty])

\* Mutant: the numbers of the orders that are placed and not filled are not counted
MutLastNumber == top

LastNumber == Max({top} \cup {row[i].tp : i \in Intents})

LotOf(r) == [qty |-> r.qty, tp |-> r.tp, armed |-> r.armed]

\* Bound: a crash comes between the ledger and the lot once for each intent
Tears == pc.op \in {"enter", "shrink"}

Restart ==
  /\ Tears => pc.i \notin torn
  /\ cash' = Seed + net /\ held' = RestoredHeld /\ tps' = RestoredTps
  /\ sellable' = AtLeast(0, RestoredHeld - Shares(RestoredTps))
  /\ seq' = LastNumber
  /\ lot' = [i \in Intents |-> IF i \in Open THEN LotOf(row[i]) ELSE NoLot]
  /\ dust' = [i \in Intents |-> 0]
  /\ torn' = IF Tears THEN torn \cup {pc.i} ELSE torn
  /\ pc' = Idle
  /\ UNCHANGED <<ledger, price>>

Move == price' \in Prices \ {price} /\ UNCHANGED <<account, lot, ledger, pc, history>>

-----------------------------------------------------------------------------
Init ==
  /\ cash = Seed /\ held = 0 /\ sellable = 0 /\ tps = {} /\ seq = 0
  /\ lot = [i \in Intents |-> NoLot] /\ row = [i \in Intents |-> NoRow]
  /\ net = 0 /\ top = 0 /\ pc = Idle /\ price \in Prices
  /\ entered = [i \in Intents |-> 0] /\ left = [i \in Intents |-> 0]
  /\ dust = [i \in Intents |-> 0] /\ torn = {}

Work ==
  \/ BookBuy \/ Enter \/ ClearTP \/ SellCleared \/ BookSell \/ Shrink
  \/ PlaceAgain \/ Armed \/ NextFill

Next ==
  \/ \E i \in Intents :
       \/ Buy(i) \/ \E p \in TpPrices : PlaceTP(i, p)
       \/ \E qty \in Parts \cup {lot[i].qty} : Exit(i, qty)
  \/ Work \/ Settle \/ Restart \/ Move

Spec == Init /\ [][Next]_vars

-----------------------------------------------------------------------------
(* Properties.                                                             *)

TypeOK ==
  /\ cash \in Nat /\ held \in Nat /\ sellable \in 0 .. held /\ seq \in 0 .. MaxSeq
  /\ tps \subseteq Orders /\ \A t \in tps : t.id <= seq
  /\ lot \in [Intents -> [qty : 0 .. Size, tp : 0 .. MaxSeq, armed : TpPrices \cup {0}]]
  /\ row \in [Intents -> [state : {"none", "open", "closed"}, qty : 0 .. Size, tp : 0 .. MaxSeq,
                          armed : TpPrices \cup {0}]]
  /\ net \in Int /\ top \in 0 .. MaxSeq /\ pc \in Operations /\ price \in Prices
  /\ entered \in [Intents -> Nat] /\ left \in [Intents -> Nat] /\ dust \in [Intents -> 0 .. Size]
  /\ torn \subseteq Intents

\* Too few shares to be sold: at some price, less than the smallest order
IsDust(qty) == qty = 0 \/ \E p \in Prices : qty * p < MinOrder

\* Between operations the account that a restart would build is the account as it stands, to the
\* last order at its price, but for the dust of closed lots, which a restart forgets.  No number of
\* an order in it or in the ledger is given again (the lots "vanish" otherwise: they are closed as
\* sold elsewhere)
Restored ==
  pc = Idle => /\ cash = Seed + net /\ held = RestoredHeld + SumFunction(dust) /\ tps = RestoredTps
               /\ \A i \in Intents : IsDust(dust[i]) /\ (dust[i] > 0 => row[i].state = "closed")
               /\ top <= seq /\ \A t \in tps : t.id <= seq
               /\ \A i \in Intents : lot[i].qty = IF i \in Open THEN row[i].qty ELSE 0

\* Orders, cancellations, sales and settlements overwrite what the orders of other lots lock.  Even
\* so a lot is never refused its exit, and an order, one that outlived a settlement too, never
\* finds its shares sold
Closable ==
  /\ pc = Idle => \A i \in Open : IF lot[i].tp = NoOrder THEN lot[i].qty <= sellable ELSE lot[i].qty <= held
  /\ Shares(tps) <= held

\* The ledger never says that more was sold for an intent than was bought.  Between operations what
\* it says is left is the lot, and of a closed lot nothing but dust.  Intents are excepted for
\* which a crash came between the two: those are bought or sold again
SoldOnce ==
  \A i \in Intents \ torn :
    /\ left[i] <= entered[i]
    /\ pc = Idle => IF i \in Open THEN entered[i] - left[i] = row[i].qty
                                 ELSE IsDust(entered[i] - left[i])
=============================================================================
