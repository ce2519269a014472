---------------------------- MODULE PaperProofs ----------------------------
(***************************************************************************)
(* Proofs about Paper, for any set of intents, any sizes and prices and    *)
(* any bound of the numbers: the types, Restored, Closable and SoldOnce.   *)
(*                                                                         *)
(* The argument: at any moment, also in the middle of an operation, the    *)
(* account differs from the ledger by what the operation has in hand, by   *)
(* the fills that are not booked and by the dust of closed lots, and by    *)
(* nothing else (Ordered, Paid, Stocked).  The orders of the account and   *)
(* the fills are those of different lots (Numbered), so that the orders    *)
(* together have no more shares than the account, whichever of them were   *)
(* filled (Covered).  That is why no overwritten lock ever matters         *)
(* (Sellable).  One lemma a step, one step of it a conjunct of IInv.       *)
(***************************************************************************)
EXTENDS Paper, SumProofs

\* Fills may wait to be booked
Settling == pc.op \in {"fills", "sold", "shrink"}
Pending == IF Settling THEN pc.fills ELSE {}

\* The lot whose order the operation has taken out of the account
Taken == IF pc.op \in {"clear", "place", "placed", "sold", "shrink"} THEN {pc.i} ELSE {}

Locking == {i \in Open : row[i].tp # NoOrder}
OrdersOf(S) == {[id |-> row[i].tp, qty |-> row[i].qty, price |-> row[i].armed] : i \in S}
Standing == OrdersOf(Locking \ Taken)

\* The operation fits the row of its intent
Fitting ==
  /\ pc.op \in {"bought", "enter"} => row[pc.i].state = "none"
  /\ pc.op \in {"clear", "sell", "sold", "shrink", "place", "placed"} => pc.i \in Open
  /\ pc.op \in {"clear", "sell", "sold", "shrink"} => pc.qty <= row[pc.i].qty
  /\ pc.op = "sell" => row[pc.i].tp = NoOrder
  /\ pc.op \in {"sold", "shrink"} =>
       /\ pc.id <= seq
       /\ \/ pc.keeps = row[pc.i].qty - pc.qty
          \/ pc.keeps = 0 /\ IsDust(row[pc.i].qty - pc.qty)
  /\ pc.op = "placed" => pc.id <= seq /\ \A i \in Intents : row[i].tp # pc.id

\* The engine's lots are the open rows
Mirrored ==
  /\ \A i \in Intents : lot[i] = IF i \in Open THEN LotOf(row[i]) ELSE NoLot
  /\ \A i \in Open : row[i].qty > 0 /\ (row[i].tp # NoOrder => row[i].armed # 0)

\* No number is given again, and no two lots have one order
Numbered ==
  /\ top <= seq /\ \A i \in Intents : row[i].tp <= seq
  /\ \A i, j \in Locking : row[i].tp = row[j].tp => i = j

\* The orders of the account, and those that were filled and are not booked
Placing == IF pc.op = "placed" THEN {[id |-> pc.id, qty |-> row[pc.i].qty, price |-> pc.price]} ELSE {}
Ordered == tps \cup Pending = Standing \cup Placing /\ tps \cap Pending = {}

\* What the account has and the ledger has not yet: the shares and the money of the operation
\* under way
InHand == IF pc.op \in {"bought", "enter"} THEN pc.qty
          ELSE IF pc.op \in {"sold", "shrink"} THEN -pc.qty ELSE 0
Unbooked == IF pc.op = "bought" THEN -pc.paid ELSE IF pc.op = "sold" THEN pc.paid ELSE 0

\* What it has of lots that are closed
Stray == SumFunction(dust)
Dusty == \A i \in Intents : dust[i] # 0 => row[i].state = "closed" /\ IsDust(dust[i])

\* The cash and the shares of the account are those of the ledger, but for that and for the
\* fills that are not booked
Paid == cash = Seed + net + Value(Pending) + Unbooked /\ Seed + net >= 0
Stocked == held = RestoredHeld + Stray - Shares(Pending) + InHand

\* A lot without an order may be sold
Sellable ==
  IF pc.op \in {"idle", "placed"}
  THEN \A i \in Open \ Taken : row[i].tp = NoOrder => row[i].qty <= sellable
  ELSE sellable = held

\* What the ledger says is left of an intent is its lot, and what is not written yet; of a closed
\* one it is dust
Counted ==
  \A i \in Intents \ torn :
    /\ left[i] <= entered[i]
    /\ i \in Open => entered[i] - left[i] = row[i].qty - (IF pc.op = "shrink" /\ pc.i = i THEN pc.qty ELSE 0)
    /\ row[i].state = "none" => entered[i] - left[i] = IF pc.op = "enter" /\ pc.i = i THEN pc.qty ELSE 0
    /\ row[i].state = "closed" => IsDust(entered[i] - left[i])

IInv ==
  /\ TypeOK /\ Fitting /\ Mirrored /\ Numbered /\ Ordered
  /\ Paid /\ Stocked /\ Dusty /\ Sellable /\ Counted

-----------------------------------------------------------------------------
(* The sums of the model, as operators of the orders and of the table.     *)

Rows == [Intents -> [state : {"none", "open", "closed"}, qty : 0 .. Size, tp : 0 .. MaxSeq, armed : TpPrices \cup {0}]]
Opened(r) == {i \in Intents : r[i].state = "open"}
HeldOf(r) == SumFunction([i \in Opened(r) |-> r[i].qty])
OrdersIn(r, S) == {[id |-> r[i].tp, qty |-> r[i].qty, price |-> r[i].armed] : i \in S}

\* Restored shares and orders, of any table.
LEMMA HeldIs == RestoredHeld = HeldOf(row) /\ RestoredHeld' = HeldOf(row')
BY DEF RestoredHeld, HeldOf, Open, Opened

\* Orders sum over any function that knows their shares.
LEMMA SharesIs ==
  ASSUME NEW S, IsFiniteSet(S), NEW f, \A t \in S : f[t] = t.qty
  PROVE  Shares(S) = SumFunctionOnSet(f, S)
<1> DEFINE g == [t \in S |-> t.qty]
<1>1. Shares(S) = SumFunctionOnSet(g, S)
  BY DEF Shares, SumFunction
<1>2. \A t \in S : g[t] = f[t]
  OBVIOUS
<1> HIDE DEF g
<1> QED
  BY <1>1, <1>2, SumSame

\* No orders, no shares.
LEMMA SharesEmpty == Shares({}) = 0
<1>1. IsFiniteSet({})
  BY FS_EmptySet
<1>2. Shares({}) = SumFunctionOnSet(<<>>, {})
  BY <1>1, SharesIs
<1> QED
  BY <1>2, SumEmpty

\* Some of the orders have no more shares than all, and no fewer than none.
LEMMA SharesPart ==
  ASSUME NEW S \in SUBSET Orders, IsFiniteSet(S), NEW R \in SUBSET S
  PROVE  Shares(S) \in Nat /\ Shares(R) \in Nat /\ Shares(R) <= Shares(S)
<1> DEFINE f == [t \in S |-> t.qty]
<1>1. \A t \in S : f[t] \in Nat
  BY PaperAssumption DEF Orders
<1>2. IsFiniteSet(R)
  BY FS_Subset
<1>3. Shares(S) = SumFunctionOnSet(f, S) /\ Shares(R) = SumFunctionOnSet(f, R)
  BY <1>2, SharesIs
<1> HIDE DEF f
<1> QED
  BY <1>1, <1>3, SumPart

\* One order and the others.
LEMMA SharesTake ==
  ASSUME NEW S \in SUBSET Orders, IsFiniteSet(S), NEW t \in S
  PROVE  /\ Shares(S) = t.qty + Shares(S \ {t})
         /\ t.qty \in 1 .. Size /\ Shares(S) \in Nat /\ Shares(S \ {t}) \in Nat /\ t.qty <= Shares(S)
<1> DEFINE f == [u \in S |-> u.qty]
<1>1. \A u \in S : f[u] \in Int
  BY PaperAssumption DEF Orders
<1>2. IsFiniteSet(S \ {t})
  BY FS_Subset
<1>3. Shares(S) = SumFunctionOnSet(f, S) /\ Shares(S \ {t}) = SumFunctionOnSet(f, S \ {t})
  BY <1>2, SharesIs
<1>4. f[t] = t.qty
  OBVIOUS
<1>5. t.qty \in 1 .. Size
  BY DEF Orders
<1> HIDE DEF f
<1>6. Shares(S) = t.qty + Shares(S \ {t})
  BY <1>1, <1>3, <1>4, SumTake
<1>7. Shares(S) \in Nat /\ Shares(S \ {t}) \in Nat
  BY SharesPart
<1> QED
  BY <1>5, <1>6, <1>7, PaperAssumption

\* The shares of a part of the orders, and of the rest.
LEMMA SharesSplit ==
  ASSUME NEW S \in SUBSET Orders, IsFiniteSet(S), NEW R \in SUBSET S
  PROVE  Shares(S) = Shares(R) + Shares(S \ R)
<1> DEFINE f == [u \in S |-> u.qty]
<1>1. \A u \in S : f[u] \in Int
  BY PaperAssumption DEF Orders
<1>2. IsFiniteSet(R) /\ IsFiniteSet(S \ R)
  BY FS_Subset
<1>3. Shares(S) = SumFunctionOnSet(f, S) /\ Shares(R) = SumFunctionOnSet(f, R)
      /\ Shares(S \ R) = SumFunctionOnSet(f, S \ R)
  BY <1>2, SharesIs
<1> HIDE DEF f
<1> QED
  BY <1>1, <1>3, SumSplit

\* A product of numbers is one.
LEMMA TimesNat ==
  ASSUME NEW x \in Nat, NEW y \in Nat
  PROVE  x * y \in Nat
BY SMT

\* No orders, no value; one order and the others.
LEMMA ValueIs ==
  /\ Value({}) = 0
  /\ \A S \in SUBSET Orders : IsFiniteSet(S) =>
       /\ Value(S) \in Nat
       /\ \A t \in S : Value(S) = t.qty * t.price + Value(S \ {t}) /\ t.qty * t.price \in Nat
<1> DEFINE V(S) == [t \in S |-> t.qty * t.price]
<1>1. \A S : Value(S) = SumFunctionOnSet(V(S), S)
  BY DEF Value, SumFunction
<1>2. Value({}) = 0
  BY <1>1, SumEmpty
<1>3. ASSUME NEW S \in SUBSET Orders, IsFiniteSet(S)
      PROVE  /\ Value(S) \in Nat
             /\ \A t \in S : Value(S) = t.qty * t.price + Value(S \ {t}) /\ t.qty * t.price \in Nat
  <2> DEFINE f == V(S)
  <2>1. ASSUME NEW t \in S
        PROVE  f[t] = t.qty * t.price /\ f[t] \in Nat
    <3> HIDE DEF f
    <3>1. t \in Orders
      BY <1>3
    <3>2. t.qty \in 1 .. Size /\ t.price \in TpPrices
      BY <3>1 DEF Orders
    <3>3. t.qty \in Nat
      BY <3>2, PaperAssumption
    <3>5. t.price \in Nat
      BY <3>2, PaperAssumption, Zenon
    <3>4. f[t] = t.qty * t.price
      BY DEF f
    <3> QED BY <3>3, <3>4, <3>5, TimesNat
  <2>2. Value(S) = SumFunctionOnSet(f, S)
    BY <1>1
  <2>3. ASSUME NEW t \in S
        PROVE  Value(S \ {t}) = SumFunctionOnSet(f, S \ {t})
    <3> DEFINE R == S \ {t}
               g == V(R)
    <3>1. IsFiniteSet(R)
      BY <1>3, FS_Subset
    <3>2. \A u \in R : g[u] = f[u]
      OBVIOUS
    <3>3. Value(R) = SumFunctionOnSet(g, R)
      BY <1>1
    <3> HIDE DEF f, g, R
    <3>4. Value(R) = SumFunctionOnSet(f, R)
      BY <3>1, <3>2, <3>3, SumSame
    <3> QED BY <3>4 DEF R
  <2> HIDE DEF f
  <2>4. \A t \in S : f[t] \in Int
    BY <2>1
  <2>5. Value(S) \in Nat
    BY <1>3, <2>1, <2>2, SumPart
  <2>6. ASSUME NEW t \in S
        PROVE  SumFunctionOnSet(f, S) = f[t] + SumFunctionOnSet(f, S \ {t})
    BY <1>3, <2>4, SumTake
  <2>7. ASSUME NEW t \in S
        PROVE  Value(S) = t.qty * t.price + Value(S \ {t}) /\ t.qty * t.price \in Nat
    <3>1. SumFunctionOnSet(f, S) = f[t] + SumFunctionOnSet(f, S \ {t})
      BY <2>6
    <3>2. Value(S \ {t}) = SumFunctionOnSet(f, S \ {t})
      BY <2>3
    <3>3. f[t] = t.qty * t.price /\ f[t] \in Nat
      BY <2>1
    <3> QED BY <2>2, <3>1, <3>2, <3>3
  <2> QED BY <2>5, <2>7
<1> QED
  BY <1>2, <1>3

\* The lots sum over any function that knows their shares.
LEMMA HeldSum ==
  ASSUME NEW r \in Rows, NEW f, \A i \in Opened(r) : f[i] = r[i].qty
  PROVE  HeldOf(r) = SumFunctionOnSet(f, Opened(r)) /\ IsFiniteSet(Opened(r))
<1> DEFINE g == [i \in Opened(r) |-> r[i].qty]
<1>1. HeldOf(r) = SumFunctionOnSet(g, Opened(r))
  BY DEF HeldOf, SumFunction
<1>2. IsFiniteSet(Opened(r))
  BY PaperAssumption, FS_Subset DEF Opened
<1>3. \A i \in Opened(r) : g[i] = f[i]
  OBVIOUS
<1> HIDE DEF g
<1> QED
  BY <1>1, <1>2, <1>3, SumSame

\* The lots together are no fewer shares than any one of them.
LEMMA HeldType ==
  ASSUME NEW r \in Rows
  PROVE  HeldOf(r) \in Nat /\ \A i \in Opened(r) : r[i].qty <= HeldOf(r)
<1> DEFINE f == [i \in Intents |-> r[i].qty]
<1>1. \A i \in Opened(r) : f[i] \in Nat /\ f[i] = r[i].qty
  BY PaperAssumption DEF Rows, Opened
<1> HIDE DEF f
<1>2. HeldOf(r) = SumFunctionOnSet(f, Opened(r)) /\ IsFiniteSet(Opened(r))
  BY <1>1, HeldSum
<1>3. HeldOf(r) \in Nat
  BY <1>1, <1>2, SumPart
<1>4. ASSUME NEW i \in Opened(r)
      PROVE  r[i].qty <= HeldOf(r)
  <2>1. HeldOf(r) = f[i] + SumFunctionOnSet(f, Opened(r) \ {i})
    BY <1>1, <1>2, <1>4, SumTake
  <2>2. SumFunctionOnSet(f, Opened(r) \ {i}) \in Nat
    BY <1>1, <1>2, SumPart
  <2> QED
    BY <1>1, <1>4, <2>1, <2>2
<1> QED
  BY <1>3, <1>4

\* A row that changes changes what is held by its own shares.
LEMMA HeldChange ==
  ASSUME NEW r \in Rows, NEW s \in Rows, NEW i \in Intents, \A j \in Intents \ {i} : s[j] = r[j]
  PROVE  HeldOf(s) = HeldOf(r) - (IF i \in Opened(r) THEN r[i].qty ELSE 0)
                               + (IF i \in Opened(s) THEN s[i].qty ELSE 0)
<1> DEFINE f == [j \in Intents |-> r[j].qty]
           g == [j \in Intents |-> s[j].qty]
           R == Opened(r) \ {i}
<1>1. \A j \in Intents : f[j] \in Nat /\ f[j] = r[j].qty /\ g[j] \in Nat /\ g[j] = s[j].qty
  BY PaperAssumption DEF Rows
<1>2. Opened(s) \ {i} = R /\ R \subseteq Intents /\ Opened(r) \subseteq Intents /\ Opened(s) \subseteq Intents
  BY DEF Opened
<1>3. \A j \in R : f[j] = g[j]
  BY <1>1, <1>2
<1> HIDE DEF f, g
<1>4. /\ HeldOf(r) = SumFunctionOnSet(f, Opened(r)) /\ IsFiniteSet(Opened(r))
      /\ HeldOf(s) = SumFunctionOnSet(g, Opened(s)) /\ IsFiniteSet(Opened(s))
  BY <1>1, <1>2, HeldSum
<1>5. IsFiniteSet(R)
  BY <1>4, FS_Subset
<1> DEFINE X == SumFunctionOnSet(f, R)
<1>6. X = SumFunctionOnSet(g, R) /\ X \in Int
  BY <1>1, <1>2, <1>3, <1>5, SumSame, SumType
<1>7. HeldOf(r) = X + (IF i \in Opened(r) THEN r[i].qty ELSE 0)
  <2>1. CASE i \in Opened(r)
    BY <1>1, <1>2, <1>4, <1>6, <2>1, SumTake
  <2>2. CASE i \notin Opened(r)
    <3>1. R = Opened(r)
      BY <2>2
    <3> QED BY <1>4, <1>6, <2>2, <3>1
  <2> QED BY <2>1, <2>2
<1>8. HeldOf(s) = X + (IF i \in Opened(s) THEN s[i].qty ELSE 0)
  <2>1. CASE i \in Opened(s)
    BY <1>1, <1>2, <1>4, <1>6, <2>1, SumTake
  <2>2. CASE i \notin Opened(s)
    <3>1. R = Opened(s)
      BY <1>2, <2>2
    <3> QED BY <1>4, <1>6, <2>2, <3>1
  <2> QED BY <2>1, <2>2
<1> HIDE DEF X
<1> QED
  BY <1>1, <1>6, <1>7, <1>8

\* The orders of some lots, of which no two share a number, have the shares of
\* those lots.
LEMMA OrdersOfLots ==
  ASSUME NEW r \in Rows, NEW S \in SUBSET Opened(r),
         \A i \in S : r[i].qty > 0 /\ r[i].tp # NoOrder /\ r[i].armed # 0,
         \A i, j \in S : r[i].tp = r[j].tp => i = j
  PROVE  /\ OrdersIn(r, S) \in SUBSET Orders /\ IsFiniteSet(OrdersIn(r, S))
         /\ Shares(OrdersIn(r, S)) = SumFunctionOnSet([i \in Intents |-> r[i].qty], S)
         /\ Shares(OrdersIn(r, S)) \in Nat
         /\ \A i \in Opened(r) \ S : Shares(OrdersIn(r, S)) + r[i].qty <= HeldOf(r)
         /\ Shares(OrdersIn(r, S)) <= HeldOf(r)
<1> DEFINE e == [i \in S |-> [id |-> r[i].tp, qty |-> r[i].qty, price |-> r[i].armed]]
           f == [i \in Intents |-> r[i].qty]
           O == OrdersIn(r, S)
           g == [t \in O |-> t.qty]
<1>1. S \subseteq Intents /\ Opened(r) \subseteq Intents
  BY DEF Opened
<1>2. /\ \A i, j \in S : e[i] = e[j] => i = j
      /\ \A i \in S : e[i] \in Orders /\ e[i].qty = f[i] /\ f[i] \in Int
      /\ {e[i] : i \in S} = O
  <2>1. \A i \in S : e[i].id = r[i].tp /\ e[i].qty = r[i].qty
    OBVIOUS
  <2>2. \A i \in S : r[i].tp \in 1 .. MaxSeq /\ r[i].qty \in 1 .. Size /\ r[i].armed \in TpPrices
                    /\ f[i] = r[i].qty
    BY <1>1, PaperAssumption DEF Rows, NoOrder
  <2>3. {e[i] : i \in S} = O
    BY DEF OrdersIn
  <2> QED BY <2>1, <2>2, <2>3, PaperAssumption DEF Orders
<1>3. IsFiniteSet(S) /\ IsFiniteSet(Opened(r))
  BY <1>1, PaperAssumption, FS_Subset
<1>4. IsFiniteSet(O)
  <2>1. e \in Surjection(S, O)
    BY <1>2 DEF Surjection
  <2> HIDE DEF e, O
  <2> QED BY <1>3, <2>1, FS_Surjection
<1>5. O \in SUBSET Orders /\ \A i \in S : e[i] \in O
  BY <1>2
<1>6. \A i \in S : g[e[i]] = f[i]
  BY <1>2, <1>5
<1>7. Shares(O) = SumFunctionOnSet(g, O)
  <2> HIDE DEF O
  <2> QED BY <1>4, SharesIs
<1> HIDE DEF e, f, O, g
<1>8. SumFunctionOnSet(g, O) = SumFunctionOnSet(f, S)
  BY <1>2, <1>3, <1>6, SumRenamed
<1>9. \A i \in Opened(r) : f[i] \in Nat /\ f[i] = r[i].qty
  BY <1>1, PaperAssumption DEF Rows, f
<1>10. HeldOf(r) = SumFunctionOnSet(f, Opened(r))
  BY <1>9, HeldSum
<1>11. ASSUME NEW i \in Opened(r) \ S
       PROVE  SumFunctionOnSet(f, S) + r[i].qty <= HeldOf(r)
  <2>1. HeldOf(r) = f[i] + SumFunctionOnSet(f, Opened(r) \ {i})
    BY <1>3, <1>9, <1>10, <1>11, SumTake
  <2>2. /\ SumFunctionOnSet(f, Opened(r) \ {i}) \in Nat
        /\ SumFunctionOnSet(f, S) \in Nat
        /\ SumFunctionOnSet(f, S) <= SumFunctionOnSet(f, Opened(r) \ {i})
    <3>1. S \in SUBSET (Opened(r) \ {i}) /\ IsFiniteSet(Opened(r) \ {i})
      BY <1>3, <1>11, FS_Subset
    <3> QED BY <3>1, <1>9, SumPart
  <2> QED
    BY <1>9, <1>11, <2>1, <2>2
<1>12. SumFunctionOnSet(f, S) \in Nat /\ SumFunctionOnSet(f, S) <= HeldOf(r)
  BY <1>3, <1>9, <1>10, SumPart
<1> QED
  BY <1>4, <1>5, <1>7, <1>8, <1>11, <1>12 DEF O, f

-----------------------------------------------------------------------------
(* What the invariant says, put for use.                                   *)

\* The fields of the operation under way.
LEMMA Shape ==
  ASSUME pc \in Operations
  PROVE  /\ pc.op \in {"idle", "bought", "enter", "clear", "sell", "sold", "shrink", "place", "placed", "fills"}
         /\ pc.op = "idle" <=> pc = Idle
         /\ pc.op \in {"bought", "enter"} =>
              pc \in [op : {"bought", "enter"}, i : Intents, qty : {Size}, paid : Nat]
         /\ pc.op \in {"clear", "sell"} => pc \in [op : {"clear", "sell"}, i : Intents, qty : 1 .. Size]
         /\ pc.op \in {"sold", "shrink"} =>
              pc \in [op : {"sold", "shrink"}, i : Intents, qty : 1 .. Size, paid : Nat, id : 1 .. MaxSeq,
                      keeps : 0 .. Size, fills : SUBSET Orders]
         /\ pc.op = "place" => pc \in [op : {"place"}, i : Intents, price : TpPrices]
         /\ pc.op = "placed" => pc \in [op : {"placed"}, i : Intents, price : TpPrices, id : 1 .. MaxSeq]
         /\ pc.op = "fills" => pc \in [op : {"fills"}, fills : SUBSET Orders]
BY DEF Operations, Idle

\* The table has its type, and its operators are those of the lemmas above.
LEMMA Table ==
  ASSUME TypeOK
  PROVE  /\ row \in Rows /\ Open = Opened(row) /\ RestoredHeld = HeldOf(row)
         /\ Standing = OrdersIn(row, Locking \ Taken)
         /\ Locking \subseteq Opened(row) /\ Locking \subseteq Intents
BY HeldIs DEF TypeOK, Rows, Open, Opened, Standing, OrdersOf, OrdersIn, Locking

\* The dust is a number of shares.
LEMMA StrayType ==
  ASSUME TypeOK
  PROVE  Stray \in Nat
<1>1. IsFiniteSet(Intents) /\ \A i \in Intents : dust[i] \in Nat
  BY PaperAssumption DEF TypeOK
<1>2. Stray = SumFunctionOnSet(dust, Intents)
  BY DEF Stray, SumFunction, TypeOK
<1> QED
  BY <1>1, <1>2, SumPart

\* While no fill waits, none is due.
LEMMA NothingDue ==
  /\ Pending = {} => Shares(Pending) = 0 /\ Value(Pending) = 0
  /\ Pending' = {} => Shares(Pending') = 0 /\ Value(Pending') = 0
BY SharesEmpty, ValueIs

\* The orders of the account and the fills have no more shares than the account
\* and the operation, whatever it has sold or is about to place.
LEMMA Covered ==
  ASSUME IInv
  PROVE  /\ Standing \in SUBSET Orders /\ IsFiniteSet(Standing) /\ Shares(Standing) \in Nat
         /\ Pending \in SUBSET Orders /\ IsFiniteSet(Pending)
         /\ Shares(Pending) \in Nat /\ Value(Pending) \in Nat
         /\ IsFiniteSet(tps) /\ Shares(tps) \in Nat /\ Shares(tps) <= held
<1> DEFINE S == Locking \ Taken
<1>1. /\ row \in Rows /\ S \in SUBSET Opened(row)
      /\ \A i \in S : row[i].qty > 0 /\ row[i].tp # NoOrder /\ row[i].armed # 0
      /\ \A i, j \in S : row[i].tp = row[j].tp => i = j
  BY Table DEF IInv, Mirrored, Numbered, Locking
<1>2. /\ Standing = OrdersIn(row, S) /\ Open = Opened(row) /\ RestoredHeld = HeldOf(row)
  BY Table DEF IInv
<1>3. \A i \in Open : i \in Taken \/ row[i].tp = NoOrder => i \in Opened(row) \ S
  BY <1>2 DEF Locking
<1> HIDE DEF S
<1>4. /\ Standing \in SUBSET Orders /\ IsFiniteSet(Standing) /\ Shares(Standing) \in Nat
      /\ Shares(Standing) <= RestoredHeld
      /\ \A i \in Open : i \in Taken \/ row[i].tp = NoOrder => Shares(Standing) + row[i].qty <= RestoredHeld
  BY <1>1, <1>2, <1>3, OrdersOfLots
<1>5. held \in Nat /\ tps \in SUBSET Orders /\ pc \in Operations /\ RestoredHeld \in Nat
      /\ \A i \in Open : row[i].qty \in Nat
  BY <1>1, <1>2, HeldType, PaperAssumption DEF IInv, TypeOK, Rows, Opened
<1>6. Stray \in Nat /\ held = RestoredHeld + Stray - Shares(Pending) + InHand
      /\ tps \cup Pending = Standing \cup Placing /\ tps \cap Pending = {}
  BY StrayType DEF IInv, Stocked, Ordered
<1>7. CASE pc.op = "placed"
  <2> DEFINE t == [id |-> pc.id, qty |-> row[pc.i].qty, price |-> pc.price]
  <2>1. Pending = {} /\ tps = Standing \cup {t} /\ pc.i \in Open /\ pc.i \in Taken /\ InHand = 0
    BY <1>6, <1>7 DEF IInv, Fitting, Taken, Pending, Settling, Placing, InHand
  <2>2. \A u \in Standing : u.id # pc.id
    BY <1>7 DEF IInv, Fitting, Standing, OrdersOf, Locking, Open
  <2>3. t \notin Standing /\ t \in tps /\ tps \ {t} = Standing
    BY <2>1, <2>2
  <2>4. t.qty = row[pc.i].qty
    OBVIOUS
  <2> HIDE DEF t
  <2>5. IsFiniteSet(tps)
    BY <1>4, <2>1, FS_AddElement
  <2>6. Shares(tps) = t.qty + Shares(Standing) /\ Shares(tps) \in Nat
    BY <1>5, <2>3, <2>5, SharesTake
  <2>7. held = RestoredHeld + Stray - 0 + 0
    BY <1>6, <2>1, NothingDue
  <2>8. Shares(tps) <= held
    BY <1>4, <1>5, <1>6, <2>1, <2>4, <2>6, <2>7
  <2>9. /\ Pending \in SUBSET Orders /\ IsFiniteSet(Pending)
        /\ Shares(Pending) = 0 /\ Value(Pending) = 0
    BY <2>1, NothingDue, FS_EmptySet
  <2> QED BY <1>4, <2>5, <2>6, <2>8, <2>9
<1>8. CASE pc.op # "placed"
  <2>1. tps \in SUBSET Standing /\ Pending = Standing \ tps
    BY <1>6, <1>8 DEF Placing
  <2>2. /\ IsFiniteSet(tps) /\ Pending \in SUBSET Orders /\ IsFiniteSet(Pending)
        /\ Shares(tps) \in Nat /\ Shares(Pending) \in Nat
        /\ Shares(Standing) = Shares(tps) + Shares(Pending)
    <3>1. IsFiniteSet(tps) /\ Pending \in SUBSET Standing /\ Pending \in SUBSET Orders /\ IsFiniteSet(Pending)
      BY <1>4, <2>1, FS_Subset
    <3>2. Shares(Standing) = Shares(tps) + Shares(Pending)
      BY <1>4, <2>1, SharesSplit
    <3>3. Shares(tps) \in Nat /\ Shares(Pending) \in Nat
      BY <1>4, <2>1, <3>1, SharesPart
    <3> QED BY <3>1, <3>2, <3>3
  <2>3. Value(Pending) \in Nat
    BY <2>2, ValueIs
  <2>4. Shares(tps) <= held
    <3>1. CASE pc.op \in {"sold", "shrink"}
      <4>1. pc.i \in Open /\ pc.i \in Taken /\ InHand = -pc.qty /\ pc.qty <= row[pc.i].qty /\ pc.qty \in Nat
        BY <1>5, <3>1, Shape, PaperAssumption DEF IInv, Fitting, Taken, InHand
      <4>2. Shares(Standing) + row[pc.i].qty <= RestoredHeld /\ row[pc.i].qty \in Nat
        BY <1>4, <1>5, <4>1
      <4> HIDE DEF IInv
      <4> QED BY <1>5, <1>6, <2>2, <4>1, <4>2
    <3>2. CASE pc.op \notin {"sold", "shrink"}
      <4>1. InHand \in Nat
        BY <1>5, <3>2, Shape, PaperAssumption DEF InHand
      <4> QED BY <1>4, <1>5, <1>6, <2>2, <4>1
    <3> QED BY <3>1, <3>2
  <2> QED BY <1>4, <2>2, <2>3, <2>4
<1> QED
  BY <1>7, <1>8

-----------------------------------------------------------------------------
(* Every step keeps the invariant.                                         *)

\* A step that writes no row writes no lot and no number: what speaks of the
\* table alone is kept.
LEMMA SameTable ==
  ASSUME IInv, UNCHANGED <<row, lot>>
  PROVE  /\ Open' = Open /\ Locking' = Locking /\ RestoredHeld' = RestoredHeld
         /\ Mirrored' /\ (UNCHANGED dust => Dusty' /\ Stray' = Stray)
BY DEF IInv, Open, Locking, RestoredHeld, Mirrored, Dusty, Stray

\* The lot of an intent, read from its row.
LEMMA LotIs ==
  ASSUME IInv, NEW i \in Intents
  PROVE  /\ lot[i].qty = IF i \in Open THEN row[i].qty ELSE 0
         /\ lot[i].tp = IF i \in Open THEN row[i].tp ELSE NoOrder
         /\ i \in Open => row[i].qty > 0 /\ lot[i].armed = row[i].armed
<1>1. lot[i] = IF i \in Open THEN LotOf(row[i]) ELSE NoLot
  BY DEF IInv, Mirrored
<1>2. i \in Open => row[i].qty > 0
  BY DEF IInv, Mirrored
<1>3. CASE i \in Open
  <2>1. lot[i] = LotOf(row[i])
    BY <1>1, <1>3
  <2> QED BY <1>2, <1>3, <2>1 DEF LotOf
<1>4. CASE i \notin Open
  <2>1. lot[i] = [qty |-> 0, tp |-> NoOrder, armed |-> 0]
    BY <1>1, <1>4 DEF NoLot, Bare
  <2> QED BY <1>4, <2>1
<1> QED
  BY <1>3, <1>4

\* Broker.Buy: what is bought is not booked yet.
LEMMA BuyKeeps ==
  ASSUME IInv, NEW i \in Intents, Buy(i)
  PROVE  IInv'
<1> DEFINE cost == Size * price
<1>1. pc = Idle /\ pc.op = "idle" /\ row[i].state = "none" /\ cost <= cash /\ seq < MaxSeq
  BY DEF Buy, Begin, Idle
<1>2. pc' = [op |-> "bought", i |-> i, qty |-> Size, paid |-> cost]
  BY DEF Buy, Begin
<1>3. cash' = cash - cost /\ held' = held + Size /\ sellable' = held' /\ seq' = seq + 1
  BY DEF Buy, Bought
<1>4. UNCHANGED <<tps, lot, row, net, top, entered, left, price, dust, torn>>
  BY DEF Buy, Bought, ledger, history
<1>5. TypeOK /\ Size \in Nat /\ MaxSeq \in Nat /\ Seed \in Nat /\ cost \in Nat
  BY PaperAssumption, SMT DEF IInv, TypeOK
<1> HIDE DEF cost
<1>6. /\ pc'.op = "bought" /\ pc'.i = i /\ Taken' = {} /\ Taken = {} /\ Pending = {} /\ Pending' = {} /\ Placing = {} /\ Placing' = {}
      /\ InHand = 0 /\ InHand' = Size /\ Unbooked = 0 /\ Unbooked' = -cost
  BY <1>1, <1>2 DEF Taken, Pending, Settling, Placing, InHand, Unbooked
<1>7. /\ Open' = Open /\ Locking' = Locking /\ RestoredHeld' = RestoredHeld /\ Mirrored'
      /\ Dusty' /\ Stray' = Stray /\ Standing' = Standing
  BY <1>4, <1>6, SameTable DEF Standing, OrdersOf
<1>8. TypeOK'
  <2>1. pc' \in Operations
    BY <1>2, <1>5 DEF Operations
  <2>2. cash' \in Nat /\ held' \in Nat /\ sellable' \in 0 .. held' /\ seq' \in 0 .. MaxSeq
    BY <1>1, <1>3, <1>5 DEF TypeOK
  <2>3. \A t \in tps' : t.id <= seq'
    BY <1>3, <1>4, <1>5 DEF TypeOK, Orders
  <2> QED BY <1>4, <1>5, <2>1, <2>2, <2>3 DEF TypeOK
<1>9. Fitting'
  BY <1>1, <1>4, <1>6 DEF Fitting
<1>10. Numbered'
  BY <1>3, <1>4, <1>5, <1>7 DEF IInv, Numbered, TypeOK
<1>11. Ordered'
  BY <1>1, <1>4, <1>6, <1>7 DEF IInv, Ordered
<1>12. Paid'
  BY <1>3, <1>4, <1>5, <1>6, NothingDue DEF IInv, Paid, TypeOK
<1>13. Stocked'
  BY <1>3, <1>5, <1>6, <1>7, NothingDue, Table, HeldType, StrayType DEF IInv, Stocked
<1>14. Sellable'
  BY <1>3, <1>6 DEF Sellable
<1>15. Counted'
  BY <1>1, <1>4, <1>6, <1>7 DEF IInv, Counted
<1> QED
  BY <1>7, <1>8, <1>9, <1>10, <1>11, <1>12, <1>13, <1>14, <1>15 DEF IInv

\* recordFill of a purchase.
LEMMA BookBuyKeeps ==
  ASSUME IInv, BookBuy
  PROVE  IInv'
<1>1. pc.op = "bought" /\ pc.i \in Intents /\ pc.qty = Size /\ pc.paid \in Nat /\ TypeOK
  BY Shape DEF IInv, TypeOK, BookBuy
<1>2. pc' = [op |-> "enter", i |-> pc.i, qty |-> pc.qty, paid |-> pc.paid]
  BY <1>1, Shape DEF TypeOK, BookBuy
<1>3. net' = net - pc.paid /\ top' = seq /\ entered' = [entered EXCEPT ![pc.i] = @ + pc.qty]
  BY DEF BookBuy
<1>4. UNCHANGED <<cash, held, sellable, seq, tps, lot, row, left, price, dust, torn>>
  BY DEF BookBuy, account, history
<1>5. Size \in Nat /\ MaxSeq \in Nat /\ Seed \in Nat
  BY PaperAssumption
<1>6. /\ pc'.op = "enter" /\ pc'.i = pc.i /\ pc'.qty = Size
      /\ Taken' = {} /\ Taken = {} /\ Pending = {} /\ Pending' = {} /\ Placing = {} /\ Placing' = {}
      /\ InHand = Size /\ InHand' = Size /\ Unbooked = -pc.paid /\ Unbooked' = 0
  BY <1>1, <1>2 DEF Taken, Pending, Settling, Placing, InHand, Unbooked
<1>7. /\ Open' = Open /\ Locking' = Locking /\ RestoredHeld' = RestoredHeld /\ Mirrored'
      /\ Dusty' /\ Stray' = Stray /\ Standing' = Standing
  BY <1>4, <1>6, SameTable DEF Standing, OrdersOf
<1>8. TypeOK'
  <2>1. pc' \in Operations
    BY <1>1, <1>2, <1>5 DEF Operations
  <2>2. net' \in Int /\ top' \in 0 .. MaxSeq /\ entered' \in [Intents -> Nat]
    BY <1>1, <1>3, <1>5 DEF TypeOK
  <2> QED BY <1>1, <1>4, <2>1, <2>2 DEF TypeOK
<1>9. Fitting'
  BY <1>1, <1>4, <1>6 DEF IInv, Fitting
<1>10. Numbered'
  BY <1>1, <1>3, <1>4, <1>5, <1>7 DEF IInv, Numbered, TypeOK
<1>11. Ordered'
  BY <1>1, <1>4, <1>6, <1>7 DEF IInv, Ordered
<1>12. Paid'
  BY <1>1, <1>3, <1>4, <1>5, <1>6, NothingDue DEF IInv, Paid, TypeOK
<1>13. Stocked'
  BY <1>4, <1>6, <1>7, NothingDue DEF IInv, Stocked
<1>14. Sellable'
  BY <1>1, <1>4, <1>6 DEF IInv, Sellable
<1>15. Counted'
  <2>1. pc.i \notin Open
    BY <1>1 DEF IInv, Fitting, Open
  <2>2. row[pc.i].state = "none"
    BY <1>1 DEF IInv, Fitting
  <2>3. entered'[pc.i] = entered[pc.i] + Size /\ \A j \in Intents \ {pc.i} : entered'[j] = entered[j]
    BY <1>1, <1>3 DEF TypeOK
  <2>4. \A j \in Intents : entered[j] \in Nat /\ left[j] \in Nat
    BY <1>1 DEF TypeOK
  <2>5. ASSUME NEW j \in Intents \ torn
        PROVE  /\ left[j] <= entered[j]
               /\ j \in Open => entered[j] - left[j] = row[j].qty - 0
               /\ row[j].state = "none" => entered[j] - left[j] = 0
               /\ row[j].state = "closed" => IsDust(entered[j] - left[j])
    BY <1>1 DEF IInv, Counted
  <2>6. pc.i \notin torn => left[pc.i] <= entered'[pc.i] /\ entered'[pc.i] - left[pc.i] = Size
    <3>1. pc.i \notin torn => left[pc.i] <= entered[pc.i] /\ entered[pc.i] - left[pc.i] = 0
      BY <1>1, <2>2, <2>5
    <3> QED BY <1>1, <1>5, <2>3, <2>4, <3>1
  <2>7. ASSUME NEW j \in Intents \ torn
        PROVE  /\ left[j] <= entered'[j]
               /\ j \in Open => entered'[j] - left[j] = row[j].qty - 0
               /\ row[j].state = "none" => entered'[j] - left[j] = IF pc.i = j THEN Size ELSE 0
               /\ row[j].state = "closed" => IsDust(entered'[j] - left[j])
    <3>1. CASE j = pc.i
      BY <2>1, <2>2, <2>6, <3>1
    <3>2. CASE j # pc.i
      <4>1. entered'[j] = entered[j]
        BY <2>3, <3>2
      <4> QED BY <2>5, <3>2, <4>1
    <3> QED BY <3>1, <3>2
  <2> QED BY <1>4, <1>6, <1>7, <2>7 DEF Counted
<1> QED
  BY <1>7, <1>8, <1>9, <1>10, <1>11, <1>12, <1>13, <1>14, <1>15 DEF IInv

\* finishEnter: the row and the lot.
LEMMA EnterKeeps ==
  ASSUME IInv, Enter
  PROVE  IInv'
<1> DEFINE i == pc.i
<1>1. pc.op = "enter" /\ i \in Intents /\ pc.qty = Size /\ TypeOK /\ row[i].state = "none"
  BY Shape DEF IInv, TypeOK, Enter, Fitting
<1>2. /\ row' = [row EXCEPT ![i] = [state |-> "open", qty |-> Size, tp |-> NoOrder, armed |-> 0]]
      /\ lot' = [lot EXCEPT ![i] = Bare(Size)]
  BY <1>1 DEF Enter
<1>3. pc' = Idle /\ pc'.op = "idle"
  BY DEF Enter, Idle
<1>4. UNCHANGED <<cash, held, sellable, seq, tps, net, top, entered, left, price, dust, torn>>
  BY DEF Enter, account, history
<1>5. Size \in Nat /\ Size > 0 /\ MaxSeq \in Nat /\ Seed \in Nat /\ NoOrder = 0
  BY PaperAssumption DEF NoOrder
<1>6. /\ Taken' = {} /\ Taken = {} /\ Pending = {} /\ Pending' = {} /\ Placing = {} /\ Placing' = {}
      /\ InHand = Size /\ InHand' = 0 /\ Unbooked = 0 /\ Unbooked' = 0
  BY <1>1, <1>3 DEF Taken, Pending, Settling, Placing, InHand, Unbooked
<1> HIDE DEF i
<1>7. /\ row' \in Rows /\ lot' \in [Intents -> [qty : 0 .. Size, tp : 0 .. MaxSeq, armed : TpPrices \cup {0}]]
      /\ row'[i] = [state |-> "open", qty |-> Size, tp |-> NoOrder, armed |-> 0]
      /\ lot'[i] = LotOf(row'[i])
      /\ \A j \in Intents \ {i} : row'[j] = row[j] /\ lot'[j] = lot[j]
  <2>1. row' \in Rows /\ lot' \in [Intents -> [qty : 0 .. Size, tp : 0 .. MaxSeq, armed : TpPrices \cup {0}]]
    BY <1>1, <1>2, <1>5 DEF TypeOK, Rows, Bare
  <2>2. /\ row'[i] = [state |-> "open", qty |-> Size, tp |-> NoOrder, armed |-> 0]
        /\ \A j \in Intents \ {i} : row'[j] = row[j] /\ lot'[j] = lot[j]
        /\ lot'[i] = [qty |-> Size, tp |-> NoOrder, armed |-> 0]
    BY <1>1, <1>2 DEF TypeOK, Bare
  <2> QED BY <2>1, <2>2 DEF LotOf
<1>8. Open' = Open \cup {i} /\ i \notin Open /\ Locking' = Locking /\ i \notin Locking
  BY <1>1, <1>7 DEF Open, Locking
<1>9. RestoredHeld' = RestoredHeld + Size /\ RestoredHeld \in Nat
  <2>1. Opened(row') = Open' /\ Opened(row) = Open /\ row \in Rows /\ row'[i].qty = Size
    BY <1>1, <1>7, Table DEF Open, Opened
  <2>2. HeldOf(row') = HeldOf(row) - 0 + Size
    BY <1>1, <1>7, <1>8, <2>1, HeldChange
  <2>3. HeldOf(row) \in Nat
    BY <2>1, HeldType
  <2> QED BY <1>5, <2>2, <2>3, HeldIs
<1>10. Standing' = Standing
  BY <1>6, <1>7, <1>8 DEF Standing, OrdersOf, Locking, Open
<1>11. TypeOK'
  BY <1>1, <1>3, <1>4, <1>7 DEF TypeOK, Operations, Rows
<1>12. Fitting'
  BY <1>3 DEF Fitting
<1>13. Mirrored'
  <2>1. ASSUME NEW j \in Intents
        PROVE  /\ lot'[j] = IF j \in Open' THEN LotOf(row'[j]) ELSE NoLot
               /\ j \in Open' => row'[j].qty > 0 /\ (row'[j].tp # NoOrder => row'[j].armed # 0)
    <3>1. CASE j = i
      BY <1>5, <1>7, <1>8, <3>1
    <3>2. CASE j # i
      BY <1>7, <1>8, <3>2 DEF IInv, Mirrored
    <3> QED BY <3>1, <3>2
  <2>2. Open' \subseteq Intents
    BY DEF Open
  <2> QED BY <2>1, <2>2 DEF Mirrored
<1>14. Numbered'
  <2>1. \A j \in Locking : row'[j] = row[j]
    BY <1>7, <1>8 DEF Locking, Open
  <2>2. \A j \in Intents : row'[j].tp <= seq
    <3>1. row'[i].tp <= seq
      BY <1>1, <1>5, <1>7 DEF TypeOK
    <3>2. \A j \in Intents \ {i} : row'[j].tp <= seq
      BY <1>7 DEF IInv, Numbered
    <3> QED BY <3>1, <3>2
  <2> QED BY <1>4, <1>8, <2>1, <2>2 DEF IInv, Numbered
<1>15. Ordered'
  BY <1>1, <1>3, <1>4, <1>6, <1>10 DEF IInv, Ordered
<1>16. Paid'
  BY <1>4, <1>6, NothingDue DEF IInv, Paid
<1>20. Dusty' /\ Stray' = Stray /\ Stray \in Nat
  <2>1. \A j \in Intents : dust[j] # 0 => j # i
    BY <1>1 DEF IInv, Dusty
  <2> QED BY <1>1, <1>4, <1>7, <2>1, StrayType DEF IInv, Dusty, Stray
<1>17. Stocked'
  BY <1>4, <1>5, <1>6, <1>9, <1>20, NothingDue DEF IInv, Stocked
<1>18. Sellable'
  <2>1. held' >= RestoredHeld' /\ held' \in Nat /\ RestoredHeld' \in Nat
    BY <1>1, <1>4, <1>5, <1>6, <1>9, <1>17, <1>20, NothingDue DEF Stocked, TypeOK
  <2>2. sellable' = held'
    BY <1>1, <1>4 DEF IInv, Sellable
  <2>3. \A j \in Opened(row') : row'[j].qty <= HeldOf(row')
    BY <1>7, HeldType
  <2>4. \A j \in Open' : row'[j].qty <= RestoredHeld' /\ row'[j].qty \in Nat
    BY <1>5, <1>7, <2>3, HeldIs DEF Open, Opened, Rows
  <2> QED BY <1>3, <2>1, <2>2, <2>4 DEF Sellable
<1>19. Counted'
  <2>1. ASSUME NEW j \in Intents \ torn, j # i
        PROVE  /\ left[j] <= entered[j]
               /\ j \in Open' => entered[j] - left[j] = row'[j].qty - 0
               /\ row'[j].state = "none" => entered[j] - left[j] = 0
               /\ row'[j].state = "closed" => IsDust(entered[j] - left[j])
    BY <1>1, <1>7, <1>8, <2>1 DEF IInv, Counted, i
  <2>2. i \notin torn => left[i] <= entered[i] /\ entered[i] - left[i] = Size
    BY <1>1 DEF IInv, Counted, i
  <2> QED BY <1>1, <1>3, <1>4, <1>5, <1>7, <2>1, <2>2 DEF Counted
<1> QED
  BY <1>11, <1>12, <1>13, <1>14, <1>15, <1>16, <1>17, <1>18, <1>19, <1>20 DEF IInv

\* doSell and placeTP cancel the order of the lot, which is then free.
LEMMA CancelKeeps ==
  ASSUME IInv, NEW i \in Intents, NEW next \in Operations, Cancel(i, next),
         next.op \in {"clear", "place"}, next.i = i, next.op = "clear" => next.qty <= lot[i].qty
  PROVE  IInv'
<1>1. pc = Idle /\ pc.op = "idle" /\ pc' = next /\ lot[i].qty > 0 /\ lot[i].tp # NoOrder
  BY DEF Cancel, Begin, Idle
<1>2. tps' = {t \in tps : t.id # lot[i].tp} /\ sellable' = IF tps' = tps THEN sellable ELSE held
  BY DEF Cancel, Cancelled
<1>3. UNCHANGED <<cash, held, seq, lot, row, net, top, entered, left, price, dust, torn>>
  BY DEF Cancel, Cancelled, ledger, history
<1>4. i \in Open /\ i \in Locking /\ lot[i].qty = row[i].qty /\ lot[i].tp = row[i].tp
  <2>1. i \in Open
    BY <1>1, LotIs
  <2> QED BY <1>1, <2>1, LotIs DEF Locking
<1>5. /\ Taken = {} /\ Taken' = {i} /\ Pending = {} /\ Pending' = {} /\ Placing = {} /\ Placing' = {}
      /\ InHand = 0 /\ InHand' = 0 /\ Unbooked = 0 /\ Unbooked' = 0
  BY <1>1 DEF Taken, Pending, Settling, Placing, InHand, Unbooked
<1>6. Open' = Open /\ Locking' = Locking /\ RestoredHeld' = RestoredHeld /\ Mirrored'
      /\ Dusty' /\ Stray' = Stray
  BY <1>3, SameTable
<1>7. tps = OrdersOf(Locking)
  <2>1. Locking \ Taken = Locking
    BY <1>5
  <2> QED BY <1>1, <1>5, <2>1 DEF IInv, Ordered, Standing
<1>8. tps' = Standing' /\ tps' # tps
  <2>1. \A j \in Locking : row[j].tp = row[i].tp => j = i
    BY <1>4 DEF IInv, Numbered
  <2>2. Standing' = {[id |-> row[j].tp, qty |-> row[j].qty, price |-> row[j].armed] : j \in Locking \ {i}}
    BY <1>3, <1>5, <1>6 DEF Standing, OrdersOf
  <2>3. tps' = {[id |-> row[j].tp, qty |-> row[j].qty, price |-> row[j].armed] : j \in Locking \ {i}}
    BY <1>2, <1>4, <1>7, <2>1 DEF OrdersOf
  <2>4. [id |-> row[i].tp, qty |-> row[i].qty, price |-> row[i].armed] \in tps /\ [id |-> row[i].tp, qty |-> row[i].qty, price |-> row[i].armed] \notin tps'
    BY <1>2, <1>4, <1>7 DEF OrdersOf
  <2> QED BY <2>2, <2>3, <2>4
<1>9. TypeOK'
  <2>1. TypeOK /\ tps' \subseteq tps /\ sellable' \in 0 .. held /\ pc' \in Operations
    BY <1>1, <1>2 DEF IInv, TypeOK
  <2> QED BY <1>3, <2>1 DEF TypeOK
<1>10. Fitting'
  BY <1>1, <1>3, <1>4, <1>6 DEF Fitting
<1>11. Numbered'
  BY <1>3, <1>6 DEF IInv, Numbered
<1>12. Ordered'
  BY <1>1, <1>5, <1>8 DEF Ordered
<1>13. Paid' /\ Stocked'
  BY <1>3, <1>5, <1>6, NothingDue DEF IInv, Paid, Stocked
<1>14. Sellable'
  BY <1>1, <1>2, <1>3, <1>8 DEF Sellable
<1>15. Counted'
  BY <1>1, <1>3, <1>6 DEF IInv, Counted
<1> QED
  BY <1>6, <1>9, <1>10, <1>11, <1>12, <1>13, <1>14, <1>15 DEF IInv

\* The table in which one row is another.
LEMMA RowSet ==
  ASSUME NEW f, NEW g, NEW T, f \in [Intents -> T], NEW i \in Intents, NEW r \in T, g = [f EXCEPT ![i] = r]
  PROVE  g \in [Intents -> T] /\ g[i] = r /\ \A j \in Intents \ {i} : g[j] = f[j]
OBVIOUS

\* ClearTP: the table forgets the order that was cancelled.
LEMMA ClearTPKeeps ==
  ASSUME IInv, ClearTP
  PROVE  IInv'
<1> DEFINE i == pc.i
<1>1. pc.op = "clear" /\ i \in Intents /\ i \in Open /\ pc.qty \in 1 .. Size /\ pc.qty <= row[i].qty /\ TypeOK
  BY Shape DEF IInv, TypeOK, ClearTP, Fitting
<1>2. /\ row' = [row EXCEPT ![i] = WithTP(@, NoOrder, 0)]
      /\ lot' = [lot EXCEPT ![i] = WithTP(@, NoOrder, 0)]
  BY DEF ClearTP
<1>3. pc' = [op |-> "sell", i |-> i, qty |-> pc.qty]
  BY <1>1, Shape DEF TypeOK, ClearTP
<1>4. UNCHANGED <<cash, held, sellable, seq, tps, net, top, entered, left, price, dust, torn>>
  BY DEF ClearTP, account, history
<1>5. Size \in Nat /\ MaxSeq \in Nat /\ NoOrder = 0
  BY PaperAssumption DEF NoOrder
<1>6. /\ Taken' = {} /\ Taken = {i} /\ Pending = {} /\ Pending' = {} /\ Placing = {} /\ Placing' = {}
      /\ InHand = 0 /\ InHand' = 0 /\ Unbooked = 0 /\ Unbooked' = 0 /\ pc'.op = "sell" /\ pc'.i = i
  BY <1>1, <1>3 DEF Taken, Pending, Settling, Placing, InHand, Unbooked
<1> HIDE DEF i
<1>7. /\ row' \in Rows /\ lot' \in [Intents -> [qty : 0 .. Size, tp : 0 .. MaxSeq, armed : TpPrices \cup {0}]]
      /\ row'[i].state = row[i].state /\ row'[i].qty = row[i].qty /\ row'[i].tp = NoOrder /\ row'[i].armed = 0
      /\ lot'[i].qty = lot[i].qty /\ lot'[i].tp = NoOrder /\ lot'[i].armed = 0
      /\ \A j \in Intents \ {i} : row'[j] = row[j] /\ lot'[j] = lot[j]
  <2> DEFINE A == TpPrices \cup {0}
  <2>1. row \in Rows /\ lot \in [Intents -> [qty : 0 .. Size, tp : 0 .. MaxSeq, armed : A]]
    BY <1>1 DEF TypeOK, Rows
  <2>2. NoOrder \in 0 .. MaxSeq /\ 0 \in A
    BY <1>1, <1>5
  <2> HIDE DEF A
  <2> DEFINE Q == 0 .. Size
             T == 0 .. MaxSeq
             S == {"none", "open", "closed"}
             R == [state : S, qty : Q, tp : T, armed : A]
             L == [qty : Q, tp : T, armed : A]
             x == WithTP(row[i], NoOrder, 0)
             y == WithTP(lot[i], NoOrder, 0)
  <2>3. row \in [Intents -> R] /\ lot \in [Intents -> L] /\ row[i] \in R /\ lot[i] \in L
    BY <1>1, <2>1 DEF Rows, A
  <2>4. row' = [row EXCEPT ![i] = x] /\ lot' = [lot EXCEPT ![i] = y]
    BY <1>2
  <2>5. NoOrder \in T /\ 0 \in A
    BY <2>2
  <2> HIDE DEF Q, T, S
  <2>6. /\ x \in R /\ x.state = row[i].state /\ x.qty = row[i].qty /\ x.tp = NoOrder /\ x.armed = 0
        /\ y \in L /\ y.qty = lot[i].qty /\ y.tp = NoOrder /\ y.armed = 0
    BY <2>3, <2>5 DEF WithTP
  <2> HIDE DEF R, L, x, y
  <2>7. row' \in [Intents -> R] /\ row'[i] = x /\ \A j \in Intents \ {i} : row'[j] = row[j]
    BY <1>1, <2>3, <2>4, <2>6, RowSet
  <2>8. lot' \in [Intents -> L] /\ lot'[i] = y /\ \A j \in Intents \ {i} : lot'[j] = lot[j]
    BY <1>1, <2>3, <2>4, <2>6, RowSet
  <2>9. row' \in Rows /\ lot' \in [Intents -> [qty : 0 .. Size, tp : 0 .. MaxSeq, armed : TpPrices \cup {0}]]
    BY <2>7, <2>8 DEF Rows, R, L, S, Q, T, A
  <2> QED BY <2>6, <2>7, <2>8, <2>9
<1>8. Open' = Open /\ Locking' = Locking \ {i}
  BY <1>1, <1>7 DEF Open, Locking
<1>9. RestoredHeld' = RestoredHeld
  <2>1. Opened(row') = Open' /\ Opened(row) = Open /\ row \in Rows
    BY <1>1, Table DEF Open, Opened
  <2>2. HeldOf(row') = HeldOf(row) - row[i].qty + row[i].qty
    BY <1>1, <1>7, <1>8, <2>1, HeldChange
  <2>3. HeldOf(row) \in Nat /\ row[i].qty \in Nat
    BY <1>1, <1>5, <2>1, HeldType DEF Rows
  <2> QED BY <2>2, <2>3, HeldIs
<1>10. Standing' = Standing
  BY <1>6, <1>7, <1>8 DEF Standing, OrdersOf, Locking, Open
<1>11. TypeOK'
  <2>1. pc' \in Operations
    BY <1>1, <1>3 DEF Operations
  <2> QED BY <1>1, <1>4, <1>7, <2>1 DEF TypeOK, Rows
<1>12. Fitting'
  <2>1. pc'.qty <= row'[i].qty
    BY <1>1, <1>3, <1>7
  <2> QED BY <1>1, <1>6, <1>7, <1>8, <2>1 DEF Fitting
<1>13. Mirrored'
  <2>1. \A j \in Intents \ {i} :
          /\ lot'[j] = IF j \in Open' THEN LotOf(row'[j]) ELSE NoLot
          /\ j \in Open' => row'[j].qty > 0 /\ (row'[j].tp # NoOrder => row'[j].armed # 0)
    BY <1>7, <1>8 DEF IInv, Mirrored
  <2>2. lot[i].qty = row[i].qty /\ row[i].qty > 0
    BY <1>1, LotIs
  <2>3. lot'[i] = LotOf(row'[i])
    BY <1>1, <1>7, <2>2 DEF LotOf
  <2>4. Open' \subseteq Intents
    BY DEF Open
  <2> QED BY <1>1, <1>7, <1>8, <2>1, <2>2, <2>3, <2>4 DEF Mirrored
<1>14. Numbered'
  <2>1. \A j \in Locking' : row'[j] = row[j] /\ j \in Locking
    BY <1>7, <1>8 DEF Locking, Open
  <2>2. \A j \in Intents : row'[j].tp <= seq
    <3>1. row'[i].tp <= seq
      BY <1>1, <1>5, <1>7 DEF TypeOK
    <3>2. \A j \in Intents \ {i} : row'[j].tp <= seq
      BY <1>7 DEF IInv, Numbered
    <3> QED BY <3>1, <3>2
  <2> QED BY <1>4, <2>1, <2>2 DEF IInv, Numbered
<1>15. Ordered'
  BY <1>1, <1>4, <1>6, <1>10 DEF IInv, Ordered
<1>19. Dusty' /\ Stray' = Stray
  <2>1. \A j \in Intents : row'[j].state = row[j].state
    BY <1>7
  <2> QED BY <1>4, <2>1 DEF IInv, Dusty, Stray
<1>16. Paid' /\ Stocked'
  BY <1>4, <1>6, <1>9, <1>19, NothingDue DEF IInv, Paid, Stocked
<1>17. Sellable'
  BY <1>1, <1>4, <1>6 DEF IInv, Sellable
<1>18. Counted'
  <2>1. \A j \in Intents : row'[j].qty = row[j].qty /\ row'[j].state = row[j].state
    BY <1>7
  <2> QED BY <1>1, <1>4, <1>6, <1>8, <2>1 DEF IInv, Counted
<1> QED
  BY <1>11, <1>12, <1>13, <1>14, <1>15, <1>16, <1>17, <1>18, <1>19 DEF IInv

\* placeTP: the table and the lot get the number of the new order.
LEMMA ArmedKeeps ==
  ASSUME IInv, Armed
  PROVE  IInv'
<1> DEFINE i == pc.i
           n == pc.id
           p == pc.price
<1>1. /\ pc.op = "placed" /\ i \in Intents /\ i \in Open /\ n \in 1 .. MaxSeq /\ n <= seq /\ TypeOK
      /\ p \in TpPrices /\ p # 0
      /\ \A j \in Intents : row[j].tp # n
  BY Shape, PaperAssumption DEF IInv, TypeOK, Armed, Fitting
<1>2. row' = [row EXCEPT ![i] = WithTP(@, n, p)] /\ lot' = [lot EXCEPT ![i] = WithTP(@, n, p)]
  BY DEF Armed
<1>3. pc' = Idle /\ pc'.op = "idle"
  BY DEF Armed, Idle
<1>4. UNCHANGED <<cash, held, sellable, seq, tps, net, top, entered, left, price, dust, torn>>
  BY DEF Armed, account, history
<1>5. Size \in Nat /\ MaxSeq \in Nat /\ NoOrder = 0
  BY PaperAssumption DEF NoOrder
<1>6. /\ Taken' = {} /\ Taken = {i} /\ Pending = {} /\ Pending' = {} /\ Placing' = {}
      /\ InHand = 0 /\ InHand' = 0 /\ Unbooked = 0 /\ Unbooked' = 0
  BY <1>1, <1>3 DEF Taken, Pending, Settling, Placing, InHand, Unbooked
<1>0. tps = Standing \cup {[id |-> n, qty |-> row[i].qty, price |-> p]}
  BY <1>1, <1>6 DEF IInv, Ordered, Placing
<1> HIDE DEF i, n, p
<1>7. /\ row' \in Rows /\ lot' \in [Intents -> [qty : 0 .. Size, tp : 0 .. MaxSeq, armed : TpPrices \cup {0}]]
      /\ row'[i].state = row[i].state /\ row'[i].qty = row[i].qty /\ row'[i].tp = n /\ row'[i].armed = p
      /\ lot'[i].qty = lot[i].qty /\ lot'[i].tp = n /\ lot'[i].armed = p
      /\ \A j \in Intents \ {i} : row'[j] = row[j] /\ lot'[j] = lot[j]
  <2> DEFINE A == TpPrices \cup {0}
  <2>1. row \in Rows /\ lot \in [Intents -> [qty : 0 .. Size, tp : 0 .. MaxSeq, armed : A]]
    BY <1>1 DEF TypeOK, Rows
  <2>2. n \in 0 .. MaxSeq /\ p \in A
    BY <1>1, <1>5
  <2> HIDE DEF A
  <2> DEFINE Q == 0 .. Size
             T == 0 .. MaxSeq
             S == {"none", "open", "closed"}
             R == [state : S, qty : Q, tp : T, armed : A]
             L == [qty : Q, tp : T, armed : A]
             x == WithTP(row[i], n, p)
             y == WithTP(lot[i], n, p)
  <2>3. row \in [Intents -> R] /\ lot \in [Intents -> L] /\ row[i] \in R /\ lot[i] \in L
    BY <1>1, <2>1 DEF Rows, A
  <2>4. row' = [row EXCEPT ![i] = x] /\ lot' = [lot EXCEPT ![i] = y]
    BY <1>2
  <2>5. n \in T /\ p \in A
    BY <2>2
  <2> HIDE DEF Q, T, S
  <2>6. /\ x \in R /\ x.state = row[i].state /\ x.qty = row[i].qty /\ x.tp = n /\ x.armed = p
        /\ y \in L /\ y.qty = lot[i].qty /\ y.tp = n /\ y.armed = p
    BY <2>3, <2>5 DEF WithTP
  <2> HIDE DEF R, L, x, y
  <2>7. row' \in [Intents -> R] /\ row'[i] = x /\ \A j \in Intents \ {i} : row'[j] = row[j]
    BY <1>1, <2>3, <2>4, <2>6, RowSet
  <2>8. lot' \in [Intents -> L] /\ lot'[i] = y /\ \A j \in Intents \ {i} : lot'[j] = lot[j]
    BY <1>1, <2>3, <2>4, <2>6, RowSet
  <2>9. row' \in Rows /\ lot' \in [Intents -> [qty : 0 .. Size, tp : 0 .. MaxSeq, armed : TpPrices \cup {0}]]
    BY <2>7, <2>8 DEF Rows, R, L, S, Q, T, A
  <2> QED BY <2>6, <2>7, <2>8, <2>9
<1>8. Open' = Open /\ Locking' = Locking \cup {i}
  BY <1>1, <1>5, <1>7 DEF Open, Locking
<1>9. RestoredHeld' = RestoredHeld
  <2>1. Opened(row') = Open' /\ Opened(row) = Open /\ row \in Rows
    BY <1>1, Table DEF Open, Opened
  <2>2. HeldOf(row') = HeldOf(row) - row[i].qty + row[i].qty
    BY <1>1, <1>7, <1>8, <2>1, HeldChange
  <2>3. HeldOf(row) \in Nat /\ row[i].qty \in Nat
    BY <1>1, <1>5, <2>1, HeldType DEF Rows
  <2> QED BY <2>2, <2>3, HeldIs
<1>10. Standing' = tps
  <2>1. Standing' = {[id |-> row'[j].tp, qty |-> row'[j].qty, price |-> row'[j].armed] : j \in (Locking \ {i}) \cup {i}}
    BY <1>6, <1>8 DEF Standing, OrdersOf
  <2>2. Standing = {[id |-> row'[j].tp, qty |-> row'[j].qty, price |-> row'[j].armed] : j \in Locking \ {i}}
    BY <1>6, <1>7 DEF Standing, OrdersOf, Locking, Open
  <2> QED BY <1>0, <1>7, <2>1, <2>2
<1>11. TypeOK'
  BY <1>1, <1>3, <1>4, <1>7 DEF TypeOK, Operations, Rows
<1>12. Fitting'
  BY <1>3 DEF Fitting
<1>13. Mirrored'
  <2>1. \A j \in Intents \ {i} :
          /\ lot'[j] = IF j \in Open' THEN LotOf(row'[j]) ELSE NoLot
          /\ j \in Open' => row'[j].qty > 0 /\ (row'[j].tp # NoOrder => row'[j].armed # 0)
    BY <1>7, <1>8 DEF IInv, Mirrored
  <2>2. lot[i].qty = row[i].qty /\ row[i].qty > 0
    BY <1>1, LotIs
  <2>3. lot'[i] = LotOf(row'[i])
    BY <1>1, <1>7, <2>2 DEF LotOf
  <2>4. Open' \subseteq Intents
    BY DEF Open
  <2> QED BY <1>1, <1>7, <1>8, <2>1, <2>2, <2>3, <2>4 DEF Mirrored
<1>14. Numbered'
  <2>1. \A j \in Intents : row'[j].tp <= seq
    BY <1>1, <1>7 DEF IInv, Numbered
  <2>2. \A j \in Intents \ {i} : row'[j].tp # n /\ row'[j].tp = row[j].tp
    BY <1>1, <1>7
  <2>3. Locking \subseteq Intents
    BY DEF Locking, Open
  <2>4. \A j, k \in Locking' : row'[j].tp = row'[k].tp => j = k
    BY <1>7, <1>8, <2>2, <2>3 DEF IInv, Numbered
  <2> QED BY <1>4, <2>1, <2>4 DEF IInv, Numbered
<1>15. Ordered'
  BY <1>4, <1>6, <1>10 DEF Ordered
<1>19. Dusty' /\ Stray' = Stray
  <2>1. \A j \in Intents : row'[j].state = row[j].state
    BY <1>7
  <2> QED BY <1>4, <2>1 DEF IInv, Dusty, Stray
<1>16. Paid' /\ Stocked'
  BY <1>4, <1>6, <1>9, <1>19, NothingDue DEF IInv, Paid, Stocked
<1>17. Sellable'
  <2>1. \A j \in Open \ {i} : row[j].tp = NoOrder => row[j].qty <= sellable
    BY <1>1, <1>6 DEF IInv, Sellable
  <2>2. \A j \in Open' : row'[j].tp = NoOrder => j # i /\ row'[j] = row[j] /\ j \in Open
    BY <1>1, <1>5, <1>7, <1>8 DEF Open
  <2> QED BY <1>3, <1>4, <2>1, <2>2 DEF Sellable
<1>18. Counted'
  <2>1. \A j \in Intents : row'[j].qty = row[j].qty /\ row'[j].state = row[j].state
    BY <1>7
  <2> QED BY <1>1, <1>3, <1>4, <1>8, <2>1 DEF IInv, Counted
<1> QED
  BY <1>11, <1>12, <1>13, <1>14, <1>15, <1>16, <1>17, <1>18, <1>19 DEF IInv

\* Two lots together are no more shares than are held.
LEMMA HeldTwo ==
  ASSUME NEW r \in Rows, NEW i \in Opened(r), NEW j \in Opened(r), i # j
  PROVE  r[i].qty + r[j].qty <= HeldOf(r)
<1> DEFINE f == [k \in Intents |-> r[k].qty]
           O == Opened(r)
<1>1. \A k \in O : f[k] \in Nat /\ f[k] = r[k].qty
  BY PaperAssumption DEF Rows, Opened
<1> HIDE DEF f
<1>2. HeldOf(r) = SumFunctionOnSet(f, O) /\ IsFiniteSet(O)
  BY <1>1, HeldSum
<1> HIDE DEF O
<1>3. i \in O /\ j \in O
  BY DEF O
<1>4. HeldOf(r) = f[i] + SumFunctionOnSet(f, O \ {i})
  BY <1>1, <1>2, <1>3, SumTake
<1>5. IsFiniteSet(O \ {i}) /\ j \in O \ {i} /\ IsFiniteSet((O \ {i}) \ {j})
  BY <1>2, <1>3, FS_Subset
<1>6. SumFunctionOnSet(f, O \ {i}) = f[j] + SumFunctionOnSet(f, (O \ {i}) \ {j})
  BY <1>1, <1>5, SumTake
<1>7. SumFunctionOnSet(f, (O \ {i}) \ {j}) \in Nat
  BY <1>1, <1>5, SumPart
<1> QED
  BY <1>1, <1>3, <1>4, <1>6, <1>7

\* Broker.Sell of a lot without an order: filled, and not booked yet.  The
\* refusal of the code leaves the account as it was.
LEMMA SellKeeps ==
  ASSUME IInv, NEW i \in Open, NEW q \in 1 .. Size, q <= row[i].qty, row[i].tp = NoOrder,
         pc.op \in {"idle", "sell"}, Sell(i, q)
  PROVE  IInv'
<1> DEFINE gain == q * price
           k == Keeps(row[i].qty, q)
<1>1. TypeOK /\ i \in Intents /\ Size \in Nat /\ MaxSeq \in Nat /\ q \in Nat /\ gain \in Nat
  BY PaperAssumption, SMT DEF IInv, TypeOK, Open
<1>2. UNCHANGED <<tps, lot, row, net, top, entered, left, price, dust, torn>>
  BY DEF Sell, Given, account, ledger, history
<1>3. Taken = {} /\ Pending = {} /\ Placing = {} /\ Stray \in Nat /\ InHand = 0 /\ Unbooked = 0
  BY StrayType DEF IInv, Taken, Pending, Settling, Placing, InHand, Unbooked
<1>4. i \notin Locking /\ Open' = Open /\ Locking' = Locking /\ RestoredHeld' = RestoredHeld /\ Mirrored'
      /\ Dusty' /\ Stray' = Stray
  BY <1>2, SameTable DEF Locking
<1>5. held = RestoredHeld + Stray /\ RestoredHeld \in Nat
  BY <1>1, <1>3, NothingDue, Table, HeldType DEF IInv, Stocked
<1>6. CASE q <= sellable
  <2>1. cash' = cash + gain /\ held' = held - q /\ sellable' = held' /\ seq' = seq + 1 /\ seq < MaxSeq
    BY <1>6 DEF Sell, Given
  <2>2. pc' = [op |-> "sold", i |-> i, qty |-> q, paid |-> gain, id |-> seq + 1,
               keeps |-> k, fills |-> {}]
    <3>1. lot[i].qty = row[i].qty
      BY <1>1, LotIs
    <3> QED BY <1>6, <3>1 DEF Sell
  <2>0. /\ k \in 0 .. Size
        /\ \/ k = row[i].qty - q
           \/ k = 0 /\ IsDust(row[i].qty - q)
    <3>1. row[i].qty \in 0 .. Size /\ price \in Prices
      BY <1>1 DEF TypeOK
    <3> QED BY <1>1, <3>1 DEF Keeps, IsDust
  <2> HIDE DEF gain, k
  <2>3. /\ pc'.op = "sold" /\ pc'.i = i /\ pc'.qty = q /\ pc'.id = seq + 1 /\ pc'.keeps = k
        /\ Taken' = {i} /\ Pending' = {} /\ Placing' = {} /\ InHand' = -q /\ Unbooked' = gain
    BY <2>2 DEF Taken, Pending, Settling, Placing, InHand, Unbooked
  <2>4. Standing' = Standing
    <3>1. Locking' \ Taken' = Locking \ Taken
      BY <1>3, <1>4, <2>3
    <3> QED BY <1>2, <3>1 DEF Standing, OrdersOf
  <2>5. TypeOK'
    <3>1. pc' \in Operations
      <4>1. seq + 1 \in 1 .. MaxSeq
        BY <1>1, <2>1 DEF TypeOK
      <4> QED BY <1>1, <2>0, <2>2, <4>1 DEF Operations
    <3>2. cash' \in Nat /\ held' \in Nat /\ sellable' \in 0 .. held' /\ seq' \in 0 .. MaxSeq
      BY <1>1, <1>6, <2>1 DEF TypeOK
    <3>3. \A t \in tps' : t.id <= seq'
      BY <1>1, <1>2, <2>1 DEF TypeOK, Orders
    <3> QED BY <1>1, <1>2, <3>1, <3>2, <3>3 DEF TypeOK
  <2>6. Fitting'
    <3>1. pc'.id <= seq' /\ pc'.qty <= row'[i].qty
      BY <1>1, <1>2, <2>1, <2>3 DEF TypeOK
    <3>2. \/ pc'.keeps = row'[i].qty - pc'.qty
          \/ pc'.keeps = 0 /\ IsDust(row'[i].qty - pc'.qty)
      BY <1>2, <2>0, <2>3
    <3> QED BY <1>4, <2>3, <3>1, <3>2 DEF Fitting
  <2>7. Numbered'
    <3>1. \A j \in Intents : row'[j].tp <= seq'
      BY <1>1, <1>2, <2>1 DEF IInv, Numbered, TypeOK
    <3>2. top' <= seq'
      BY <1>1, <1>2, <2>1 DEF IInv, Numbered, TypeOK
    <3>3. \A j, n \in Locking' : row'[j].tp = row'[n].tp => j = n
      BY <1>2, <1>4 DEF IInv, Numbered
    <3> QED BY <3>1, <3>2, <3>3 DEF Numbered
  <2>8. Ordered'
    BY <1>2, <1>3, <2>3, <2>4 DEF IInv, Ordered
  <2>9. Paid'
    <3>1. cash = Seed + net /\ Seed + net >= 0 /\ Seed \in Nat /\ net \in Int
      <4>1. cash = Seed + net + Value(Pending) + Unbooked /\ Seed + net >= 0
        BY DEF IInv, Paid
      <4>2. Value(Pending) = 0
        BY <1>3, ValueIs
      <4>3. Seed \in Nat /\ net \in Int
        BY <1>1, PaperAssumption DEF TypeOK
      <4> QED BY <1>3, <4>1, <4>2, <4>3
    <3>2. Value(Pending') = 0
      BY <2>3, ValueIs
    <3>3. cash' = Seed + net' + Value(Pending') + Unbooked' /\ Seed + net' >= 0
      BY <1>1, <1>2, <2>1, <2>3, <3>1, <3>2
    <3> QED BY <3>3 DEF Paid
  <2>10. Stocked'
    BY <1>1, <1>3, <1>4, <1>5, <2>1, <2>3, NothingDue DEF Stocked
  <2>11. Sellable'
    BY <2>1, <2>3 DEF Sellable
  <2>12. Counted'
    BY <1>2, <1>4, <2>3 DEF IInv, Counted
  <2> QED
    BY <1>4, <2>5, <2>6, <2>7, <2>8, <2>9, <2>10, <2>11, <2>12 DEF IInv
<1>7. CASE ~(q <= sellable)
  <2>1. pc' = Idle /\ pc'.op = "idle" /\ UNCHANGED <<cash, held, sellable, seq, tps>>
    BY <1>7 DEF Sell, account, history, Idle
  <2>2. Taken' = {} /\ Pending' = {} /\ Placing' = {} /\ InHand' = 0 /\ Unbooked' = 0
    BY <2>1 DEF Taken, Pending, Settling, Placing, InHand, Unbooked
  <2>3. Standing' = Standing
    BY <1>2, <1>3, <1>4, <2>2 DEF Standing, OrdersOf
  <2>4. TypeOK'
    BY <1>1, <1>2, <2>1 DEF TypeOK, Operations
  <2>5. Fitting'
    BY <2>1 DEF Fitting
  <2>6. Numbered'
    BY <1>2, <1>4, <2>1 DEF IInv, Numbered
  <2>7. Ordered'
    BY <1>3, <2>1, <2>2, <2>3 DEF IInv, Ordered
  <2>8. Paid' /\ Stocked'
    BY <1>2, <1>3, <1>4, <2>1, <2>2, NothingDue DEF IInv, Paid, Stocked
  <2>9. Sellable'
    <3>1. CASE pc.op = "idle"
      BY <1>2, <1>3, <1>4, <2>1, <2>2, <3>1 DEF IInv, Sellable
    <3>2. CASE pc.op = "sell"
      <4>1. sellable = RestoredHeld + Stray
        BY <1>5, <3>2 DEF IInv, Sellable
      <4>2. \A j \in Open : row[j].qty <= RestoredHeld + Stray
        <5>1. \A j \in Open : row[j].qty <= RestoredHeld /\ row[j].qty \in Nat
          BY <1>1, Table, HeldType, PaperAssumption DEF TypeOK, Open
        <5> QED BY <1>3, <1>5, <5>1
      <4> QED BY <1>2, <1>4, <2>1, <4>1, <4>2 DEF Sellable
    <3> QED BY <3>1, <3>2
  <2>10. Counted'
    BY <1>2, <1>4, <2>1 DEF IInv, Counted
  <2> QED
    BY <1>4, <2>4, <2>5, <2>6, <2>7, <2>8, <2>9, <2>10 DEF IInv
<1> QED
  BY <1>6, <1>7

\* recordFill of a sale.
LEMMA BookSellKeeps ==
  ASSUME IInv, BookSell
  PROVE  IInv'
<1> DEFINE i == pc.i
<1>1. /\ pc.op = "sold" /\ i \in Intents /\ i \in Open /\ pc.qty \in 1 .. Size /\ pc.paid \in Nat
      /\ pc.id \in 1 .. MaxSeq /\ pc.id <= seq /\ pc.keeps \in 0 .. Size /\ pc.fills \in SUBSET Orders /\ TypeOK
      /\ pc.qty <= row[i].qty
  BY Shape DEF IInv, TypeOK, BookSell, Fitting
<1>2. pc' = [op |-> "shrink", i |-> i, qty |-> pc.qty, paid |-> pc.paid, id |-> pc.id,
             keeps |-> pc.keeps, fills |-> pc.fills]
  BY <1>1, Shape DEF TypeOK, BookSell
<1>3. net' = net + pc.paid /\ top' = AtLeast(top, pc.id) /\ left' = [left EXCEPT ![i] = @ + pc.qty]
  BY DEF BookSell
<1>4. UNCHANGED <<cash, held, sellable, seq, tps, lot, row, entered, price, dust, torn>>
  BY DEF BookSell, account, history
<1>5. Size \in Nat /\ MaxSeq \in Nat /\ Seed \in Nat
  BY PaperAssumption
<1>6. /\ pc'.op = "shrink" /\ pc'.i = i /\ pc'.qty = pc.qty /\ pc'.id = pc.id
      /\ pc'.keeps = pc.keeps
      /\ Taken' = {i} /\ Taken = {i} /\ Pending' = Pending /\ Placing' = Placing
      /\ InHand = -pc.qty /\ InHand' = -pc.qty /\ Unbooked = pc.paid /\ Unbooked' = 0
  BY <1>1, <1>2 DEF Taken, Pending, Settling, Placing, InHand, Unbooked
<1>7. /\ Open' = Open /\ Locking' = Locking /\ RestoredHeld' = RestoredHeld /\ Mirrored'
      /\ Dusty' /\ Stray' = Stray /\ Standing' = Standing
  BY <1>4, <1>6, SameTable DEF Standing, OrdersOf
<1>8. TypeOK'
  <2>1. pc' \in Operations
    BY <1>1, <1>2 DEF Operations
  <2>2. net' \in Int /\ top' \in 0 .. MaxSeq /\ left' \in [Intents -> Nat]
    BY <1>1, <1>3, <1>5 DEF TypeOK, AtLeast
  <2> QED BY <1>1, <1>4, <2>1, <2>2 DEF TypeOK
<1>9. Fitting'
  BY <1>1, <1>4, <1>6, <1>7 DEF IInv, Fitting
<1>10. Numbered'
  BY <1>1, <1>3, <1>4, <1>7 DEF IInv, Numbered, AtLeast
<1>11. Ordered'
  BY <1>1, <1>4, <1>6, <1>7 DEF IInv, Ordered
<1>12. Value(Pending) \in Nat /\ Value(Pending') = Value(Pending) /\ Shares(Pending') = Shares(Pending)
  BY <1>6, Covered
<1>13. Paid'
  <2> DEFINE d == Value(Pending)
  <2>1. Value(Pending') = d /\ d \in Nat
    BY <1>12
  <2>2. cash = Seed + net + d + pc.paid /\ Seed + net >= 0
    BY <1>6 DEF IInv, Paid
  <2> HIDE DEF d
  <2>3. cash' = Seed + net' + d + 0 /\ Seed + net' >= 0
    BY <1>1, <1>3, <1>4, <1>5, <2>1, <2>2 DEF TypeOK
  <2> QED BY <1>6, <2>1, <2>3 DEF Paid
<1>14. Stocked'
  BY <1>4, <1>6, <1>7, <1>12 DEF IInv, Stocked
<1>15. Sellable'
  BY <1>1, <1>4, <1>6 DEF IInv, Sellable
<1>16. Counted'
  <2>1. \A j \in Intents : entered[j] \in Nat /\ left[j] \in Nat /\ row[j].qty \in Nat
    BY <1>1, <1>5 DEF TypeOK
  <2>2. left'[i] = left[i] + pc.qty /\ \A j \in Intents \ {i} : left'[j] = left[j]
    BY <1>1, <1>3 DEF TypeOK
  <2>3. i \notin torn => left'[i] <= entered[i] /\ entered[i] - left'[i] = row[i].qty - pc.qty
    <3>1. i \notin torn => left[i] <= entered[i] /\ entered[i] - left[i] = row[i].qty - 0
      BY <1>1 DEF IInv, Counted
    <3> QED BY <1>1, <2>1, <2>2, <3>1
  <2>4. ASSUME NEW j \in Intents \ torn, j # i
        PROVE  /\ left[j] <= entered[j]
               /\ j \in Open => entered[j] - left[j] = row[j].qty - 0
               /\ row[j].state = "none" => entered[j] - left[j] = 0
               /\ row[j].state = "closed" => IsDust(entered[j] - left[j])
    BY <1>1, <2>4 DEF IInv, Counted
  <2>5. row[i].state = "open"
    BY <1>1 DEF Open
  <2> QED BY <1>4, <1>6, <1>7, <2>2, <2>3, <2>4, <2>5 DEF Counted
<1> QED
  BY <1>7, <1>8, <1>9, <1>10, <1>11, <1>13, <1>14, <1>15, <1>16 DEF IInv

\* ReduceIntent: what is left of a row.
LEMMA RestIs ==
  ASSUME NEW r \in [state : {"none", "open", "closed"}, qty : 0 .. Size, tp : 0 .. MaxSeq,
                    armed : TpPrices \cup {0}],
         NEW k \in Nat \ {0}
  PROVE  Rest(r, k) = [state |-> r.state, qty |-> k, tp |-> NoOrder, armed |-> 0]
<1> DEFINE S == {"none", "open", "closed"}
           h == WithTP(r, NoOrder, 0)
           e == [h EXCEPT !.qty = k]
<1>1. Rest(r, k) = e
  BY DEF Rest
<1>2. r \in [state : S, qty : Int, tp : Int, armed : Int] /\ k \in Int /\ NoOrder \in Int
  <2>1. TpPrices \cup {0} \subseteq Int
    BY PaperAssumption
  <2>2. r.armed \in Int
    BY <2>1
  <2>3. r = [state |-> r.state, qty |-> r.qty, tp |-> r.tp, armed |-> r.armed]
        /\ r.state \in S /\ r.qty \in Int /\ r.tp \in Int
    BY PaperAssumption
  <2> HIDE DEF S
  <2> QED BY <2>2, <2>3 DEF NoOrder
<1> HIDE DEF S
<1>6. /\ h \in [state : S, qty : Int, tp : Int, armed : Int]
      /\ h.state = r.state /\ h.tp = NoOrder /\ h.armed = 0
  <2> DEFINE T == Int
  <2>1. r \in [state : S, qty : T, tp : T, armed : T] /\ NoOrder \in T /\ 0 \in T
    BY <1>2
  <2> HIDE DEF T
  <2>2. /\ h \in [state : S, qty : T, tp : T, armed : T]
        /\ h.state = r.state /\ h.tp = NoOrder /\ h.armed = 0
    BY <2>1 DEF WithTP
  <2> QED BY <2>2 DEF T
<1> HIDE DEF h
<1>3. e \in [state : S, qty : Int, tp : Int, armed : Int]
  BY <1>2, <1>6
<1>4. e.state = r.state /\ e.qty = k /\ e.tp = NoOrder /\ e.armed = 0
  BY <1>2, <1>6
<1> HIDE DEF e
<1>5. e = [state |-> r.state, qty |-> k, tp |-> NoOrder, armed |-> 0]
  BY <1>3, <1>4
<1> QED
  BY <1>1, <1>5

\* The dust of a lot that had none.
LEMMA StrayChange ==
  ASSUME TypeOK, NEW i \in Intents, NEW x \in Nat, dust' = [dust EXCEPT ![i] = x], dust[i] = 0
  PROVE  Stray' = Stray + x /\ Stray \in Nat
<1>1. IsFiniteSet(Intents) /\ \A j \in Intents : dust[j] \in Int /\ dust'[j] \in Int
  BY PaperAssumption DEF TypeOK
<1>2. dust'[i] = x /\ \A j \in Intents \ {i} : dust'[j] = dust[j]
  BY DEF TypeOK
<1>3. Stray = SumFunctionOnSet(dust, Intents) /\ Stray' = SumFunctionOnSet(dust', Intents)
  BY DEF Stray, SumFunction, TypeOK
<1>4. SumFunctionOnSet(dust', Intents) = SumFunctionOnSet(dust, Intents) - dust[i] + dust'[i]
  <2> DEFINE f == dust
             g == dust'
  <2>1. \A j \in Intents : f[j] \in Int /\ g[j] \in Int
    BY <1>1
  <2>2. \A j \in Intents \ {i} : g[j] = f[j]
    BY <1>2
  <2> HIDE DEF f, g
  <2>3. SumFunctionOnSet(g, Intents) = SumFunctionOnSet(f, Intents) - f[i] + g[i]
    BY <1>1, <2>1, <2>2, SumChange
  <2> QED BY <2>3 DEF f, g
<1>5. Stray \in Nat
  BY StrayType
<1> QED
  BY <1>2, <1>3, <1>4, <1>5

\* CloseIntent and ReduceIntent: the row and the lot after a sale.
LEMMA ShrinkKeeps ==
  ASSUME IInv, Shrink
  PROVE  IInv'
<1> DEFINE i == pc.i
           q == pc.qty
           k == pc.keeps
           d == row[i].qty - q
<1>1. /\ pc.op = "shrink" /\ i \in Intents /\ i \in Open /\ q \in 1 .. Size /\ q <= row[i].qty
      /\ k \in 0 .. Size /\ pc.fills \in SUBSET Orders /\ TypeOK
      /\ k = d \/ (k = 0 /\ IsDust(d))
  BY Shape DEF IInv, TypeOK, Shrink, Fitting
<1>2. /\ row' = [row EXCEPT ![i] = Rest(@, k)]
      /\ lot' = [lot EXCEPT ![i] = Bare(k)]
      /\ dust' = [dust EXCEPT ![i] = IF k = 0 THEN d ELSE @]
  BY DEF Shrink
<1>3. pc' = IF pc.fills = {} THEN Idle ELSE [op |-> "fills", fills |-> pc.fills]
  BY DEF Shrink, Booking
<1>4. UNCHANGED <<cash, held, sellable, seq, tps, net, top, entered, left, price, torn>>
  BY DEF Shrink, account
<1>5. Size \in Nat /\ MaxSeq \in Nat /\ NoOrder = 0 /\ q \in Nat /\ q > 0 /\ k \in Nat
  BY <1>1, PaperAssumption DEF NoOrder
<1>6. /\ pc'.op \in {"fills", "idle"} /\ (pc'.op = "idle" => Pending' = {})
      /\ Pending' = Pending /\ Placing = {} /\ Placing' = {}
      /\ Taken' = {} /\ Taken = {i} /\ InHand = -q /\ InHand' = 0 /\ Unbooked = 0 /\ Unbooked' = 0
  <2>1. CASE pc.fills = {}
    <3>1. pc' = Idle /\ pc'.op = "idle"
      BY <1>3, <2>1 DEF Idle
    <3> QED BY <1>1, <2>1, <3>1 DEF Taken, Pending, Settling, Placing, InHand, Unbooked
  <2>2. CASE pc.fills # {}
    <3>1. pc'.op = "fills" /\ pc'.fills = pc.fills
      BY <1>3, <2>2
    <3> QED BY <1>1, <2>2, <3>1 DEF Taken, Pending, Settling, Placing, InHand, Unbooked
  <2> QED BY <2>1, <2>2
<1>7. /\ row[i].qty \in 1 .. Size /\ row[i].state = "open" /\ row[i].tp \in 0 .. MaxSeq /\ d \in Nat
      /\ d <= Size
  BY <1>1, <1>5, LotIs DEF TypeOK, Open
<1>0. IsDust(d) \/ k > 0
  BY <1>1, <1>5, <1>7 DEF IsDust
<1> HIDE DEF i, q, k, d
<1>8. \A j \in Intents \ {i} : row'[j] = row[j] /\ lot'[j] = lot[j]
  BY <1>1, <1>2 DEF TypeOK
<1> DEFINE keptOf == IF i \in Open' THEN row'[i].qty ELSE 0
<1>9. /\ row' \in Rows /\ lot' \in [Intents -> [qty : 0 .. Size, tp : 0 .. MaxSeq, armed : TpPrices \cup {0}]]
      /\ lot'[i] = IF i \in Open' THEN LotOf(row'[i]) ELSE NoLot
      /\ i \in Open' => row'[i].qty > 0 /\ row'[i].tp = NoOrder
      /\ i \in Open' <=> k # 0
      /\ row'[i].state = IF k = 0 THEN "closed" ELSE "open"
      /\ keptOf = k
      /\ row'[i].tp \in {NoOrder, row[i].tp}
  <2>1. CASE k = 0
    <3>1. /\ row' = [row EXCEPT ![i] = [@ EXCEPT !.state = "closed"]]
          /\ lot' = [lot EXCEPT ![i] = NoLot]
      BY <1>1, <1>2, <2>1 DEF Rest, TypeOK, NoLot
    <3>2. row' \in Rows /\ lot' \in [Intents -> [qty : 0 .. Size, tp : 0 .. MaxSeq, armed : TpPrices \cup {0}]]
      BY <1>1, <1>5, <3>1 DEF TypeOK, Rows, NoLot, Bare
    <3>3. row'[i].state = "closed" /\ row'[i].tp = row[i].tp /\ lot'[i] = NoLot
      BY <1>1, <3>1 DEF TypeOK
    <3>4. i \notin Open'
      BY <3>3 DEF Open
    <3> QED BY <1>5, <1>7, <2>1, <3>2, <3>3, <3>4
  <2>2. CASE k # 0
    <3>1. Rest(row[i], k) = [state |-> "open", qty |-> k, tp |-> NoOrder, armed |-> 0]
      BY <1>1, <1>5, <1>7, <2>2, RestIs DEF TypeOK
    <3>2. k \in 1 .. Size
      BY <1>1, <1>5, <2>2
    <3>3. /\ row' = [row EXCEPT ![i] = [state |-> "open", qty |-> k, tp |-> NoOrder, armed |-> 0]]
          /\ lot' = [lot EXCEPT ![i] = [qty |-> k, tp |-> NoOrder, armed |-> 0]]
      BY <1>1, <1>2, <3>1 DEF Bare
    <3>4. row' \in Rows /\ lot' \in [Intents -> [qty : 0 .. Size, tp : 0 .. MaxSeq, armed : TpPrices \cup {0}]]
      <4>1. k \in 0 .. Size /\ NoOrder \in 0 .. MaxSeq
        BY <1>5, <3>2
      <4> QED BY <1>1, <3>3, <4>1 DEF TypeOK, Rows
    <3>5. /\ row'[i] = [state |-> "open", qty |-> k, tp |-> NoOrder, armed |-> 0]
          /\ lot'[i] = [qty |-> k, tp |-> NoOrder, armed |-> 0]
      BY <1>1, <3>3 DEF TypeOK
    <3>6. i \in Open'
      BY <1>1, <3>5 DEF Open
    <3>7. lot'[i] = LotOf(row'[i])
      BY <3>5 DEF LotOf
    <3> QED BY <1>5, <2>2, <3>2, <3>4, <3>5, <3>6, <3>7
  <2> QED BY <2>1, <2>2
<1> HIDE DEF keptOf
<1>10. Open' \ {i} = Open \ {i} /\ Open' \subseteq Open /\ Locking' = Locking \ {i}
  BY <1>1, <1>8, <1>9 DEF Open, Locking
<1>11. RestoredHeld' = RestoredHeld - row[i].qty + k /\ RestoredHeld \in Nat
  <2>1. Opened(row') = Open' /\ Opened(row) = Open /\ row \in Rows
    BY <1>1, Table DEF Open, Opened
  <2>2. HeldOf(row') = HeldOf(row) - row[i].qty + (IF i \in Opened(row') THEN row'[i].qty ELSE 0)
    BY <1>1, <1>8, <1>9, <2>1, HeldChange
  <2>3. HeldOf(row) \in Nat
    BY <2>1, HeldType
  <2>4. (IF i \in Opened(row') THEN row'[i].qty ELSE 0) = k
    BY <1>9, <2>1 DEF keptOf
  <2> QED BY <2>2, <2>3, <2>4, HeldIs
<1>12. Standing' = Standing
  <2>1. Standing' = {[id |-> row'[j].tp, qty |-> row'[j].qty, price |-> row'[j].armed] : j \in Locking \ {i}}
    BY <1>6, <1>10 DEF Standing, OrdersOf
  <2> QED BY <1>6, <1>8, <2>1 DEF Standing, OrdersOf, Locking, Open
<1>23. dust[i] = 0
  BY <1>1, <1>7 DEF IInv, Dusty, TypeOK
<1>24. /\ Stray' + k = Stray + d /\ Stray \in Nat /\ Stray' \in Nat
       /\ dust' \in [Intents -> 0 .. Size]
       /\ \A j \in Intents \ {i} : dust'[j] = dust[j]
       /\ dust'[i] # 0 => k = 0 /\ dust'[i] = d
  <2>1. CASE k = 0
    <3>1. dust' = [dust EXCEPT ![i] = d]
      BY <1>2, <2>1
    <3>2. Stray' = Stray + d /\ Stray \in Nat
      BY <1>1, <1>7, <1>23, <3>1, StrayChange
    <3>3. d \in 0 .. Size
      BY <1>5, <1>7
    <3>4. /\ dust' \in [Intents -> 0 .. Size]
          /\ \A j \in Intents \ {i} : dust'[j] = dust[j]
          /\ dust'[i] = d
      BY <1>1, <3>1, <3>3 DEF TypeOK
    <3> QED BY <1>7, <2>1, <3>2, <3>4
  <2>2. CASE k # 0
    <3>1. dust' = dust /\ k = d
      BY <1>1, <1>2, <2>2 DEF TypeOK, i, k, d
    <3>2. Stray' = Stray /\ Stray \in Nat
      BY <1>1, <3>1, StrayType DEF Stray
    <3> QED BY <1>1, <1>5, <1>23, <3>1, <3>2 DEF TypeOK
  <2> QED BY <2>1, <2>2
<1>13. TypeOK'
  <2>1. pc' \in Operations
    BY <1>1, <1>3 DEF Operations
  <2> QED BY <1>1, <1>4, <1>9, <1>24, <2>1 DEF TypeOK, Rows
<1>14. Fitting'
  BY <1>6 DEF Fitting
<1>15. Mirrored'
  <2>1. \A j \in Intents \ {i} :
          /\ lot'[j] = IF j \in Open' THEN LotOf(row'[j]) ELSE NoLot
          /\ j \in Open' => row'[j].qty > 0 /\ (row'[j].tp # NoOrder => row'[j].armed # 0)
    BY <1>8, <1>10 DEF IInv, Mirrored
  <2>2. Open' \subseteq Intents
    BY DEF Open
  <2> QED BY <1>9, <2>1, <2>2 DEF Mirrored
<1>16. Numbered'
  <2>1. \A j \in Locking' : row'[j] = row[j] /\ j \in Locking
    BY <1>8, <1>10 DEF Locking, Open
  <2>2. \A j, n \in Locking' : row'[j].tp = row'[n].tp => j = n
    BY <2>1 DEF IInv, Numbered
  <2>3. \A j \in Intents : row'[j].tp <= seq
    <3>1. row'[i].tp <= seq
      <4>1. row[i].tp <= seq /\ 0 <= seq
        BY <1>1 DEF IInv, Numbered, TypeOK
      <4> QED BY <1>5, <1>9, <4>1
    <3>2. \A j \in Intents \ {i} : row'[j].tp <= seq
      BY <1>8 DEF IInv, Numbered
    <3> QED BY <3>1, <3>2
  <2> QED BY <1>4, <2>2, <2>3 DEF IInv, Numbered
<1>17. Ordered'
  BY <1>4, <1>6, <1>12 DEF IInv, Ordered
<1>18. Paid'
  BY <1>4, <1>6 DEF IInv, Paid
<1>19. Shares(Pending) \in Nat /\ Shares(Pending') = Shares(Pending)
  BY <1>6, Covered
<1>20. Stocked'
  <2>1. held = RestoredHeld + Stray - Shares(Pending) + (-q)
    BY <1>6 DEF IInv, Stocked
  <2>2. row[i].qty = d + q
    BY <1>5, <1>7 DEF d
  <2> QED BY <1>4, <1>5, <1>6, <1>7, <1>11, <1>19, <1>24, <2>1, <2>2 DEF Stocked
<1>25. Dusty'
  <2>1. dust'[i] # 0 => row'[i].state = "closed" /\ IsDust(dust'[i])
    BY <1>0, <1>5, <1>9, <1>24
  <2>2. \A j \in Intents \ {i} : dust'[j] # 0 => row'[j].state = "closed" /\ IsDust(dust'[j])
    BY <1>8, <1>24 DEF IInv, Dusty
  <2> QED BY <2>1, <2>2 DEF Dusty
<1>21. Sellable'
  <2>1. sellable' = held'
    BY <1>1, <1>4 DEF IInv, Sellable
  <2>2. CASE pc'.op = "fills"
    BY <2>1, <2>2 DEF Sellable
  <2>3. CASE pc'.op = "idle"
    <3>1. held' = RestoredHeld' + Stray' - 0 + 0
      BY <1>6, <1>20, <2>3, NothingDue DEF Stocked
    <3>2. RestoredHeld' \in Nat /\ \A j \in Open' : row'[j].qty <= RestoredHeld' /\ row'[j].qty \in Nat
      BY <1>5, <1>9, HeldIs, HeldType DEF Open, Opened, Rows
    <3>3. \A j \in Open' : row'[j].qty <= held'
      BY <1>24, <3>1, <3>2
    <3> QED BY <2>1, <2>3, <3>3 DEF Sellable
  <2> QED BY <1>6, <2>2, <2>3
<1>22. Counted'
  <2>1. ASSUME NEW j \in Intents \ torn, j # i
        PROVE  /\ left[j] <= entered[j]
               /\ j \in Open' => entered[j] - left[j] = row'[j].qty - 0
               /\ row'[j].state = "none" => entered[j] - left[j] = 0
               /\ row'[j].state = "closed" => IsDust(entered[j] - left[j])
    BY <1>1, <1>8, <1>10, <2>1 DEF IInv, Counted, i
  <2>2. i \notin torn => left[i] <= entered[i] /\ entered[i] - left[i] = d
    BY <1>1 DEF IInv, Counted, i, q, d
  <2>3. i \in Open' => row'[i].qty = d
    BY <1>1, <1>9 DEF keptOf
  <2>4. row'[i].state = "closed" => IsDust(d)
    BY <1>0, <1>5, <1>9
  <2>5. row'[i].state # "none"
    BY <1>9
  <2>6. ASSUME NEW j \in Intents \ torn
        PROVE  /\ left[j] <= entered[j]
               /\ j \in Open' => entered[j] - left[j] = row'[j].qty - 0
               /\ row'[j].state = "none" => entered[j] - left[j] = 0
               /\ row'[j].state = "closed" => IsDust(entered[j] - left[j])
    <3>1. CASE j = i
      <4>1. row'[j].qty - 0 = row'[j].qty
        BY <1>1, <1>5, <1>9 DEF Rows
      <4> QED BY <2>2, <2>3, <2>4, <2>5, <2>6, <3>1, <4>1
    <3>2. CASE j # i
      BY <2>1, <2>6, <3>2
    <3> QED BY <3>1, <3>2
  <2>7. ~(pc'.op = "shrink") /\ ~(pc'.op = "enter")
    BY <1>6
  <2> QED BY <1>4, <2>6, <2>7 DEF Counted
<1> QED
  BY <1>13, <1>14, <1>15, <1>16, <1>17, <1>18, <1>20, <1>21, <1>22, <1>25 DEF IInv

\* Broker.PlaceTP for a lot without an order: the account has the new order, the
\* table has not.
LEMMA PlacedKeeps ==
  ASSUME IInv, NEW i \in Open, NEW p \in TpPrices, Placed(row[i].qty, p),
         pc' = [op |-> "placed", i |-> i, price |-> p, id |-> seq + 1],
         UNCHANGED <<lot, ledger, price, history>>, seq < MaxSeq,
         \/ pc.op = "idle" /\ row[i].tp = NoOrder
         \/ pc.op = "place" /\ pc.i = i
  PROVE  IInv'
<1> DEFINE q == row[i].qty
<1>1. /\ TypeOK /\ i \in Intents /\ Size \in Nat /\ MaxSeq \in Nat /\ q \in 1 .. Size /\ seq \in Nat
      /\ row \in Rows /\ Open = Opened(row) /\ RestoredHeld = HeldOf(row) /\ held \in Nat
  BY PaperAssumption, LotIs, Table DEF IInv, TypeOK, Open
<1>2. UNCHANGED <<cash, held, lot, row, net, top, entered, left, price, dust, torn>>
  BY DEF Placed, ledger, history
<1>3. /\ tps' = tps \cup {[id |-> seq + 1, qty |-> q, price |-> p]} /\ seq' = seq + 1
      /\ sellable' = AtLeast(0, held - q)
  BY DEF Placed
<1>4. /\ pc'.op = "placed" /\ pc'.i = i /\ pc'.id = seq + 1 /\ pc'.price = p
      /\ Taken' = {i} /\ Pending = {} /\ Pending' = {} /\ Placing = {}
      /\ InHand = 0 /\ InHand' = 0 /\ Unbooked = 0 /\ Unbooked' = 0
  BY DEF Taken, Pending, Settling, Placing, InHand, Unbooked
<1>5. Open' = Open /\ Locking' = Locking /\ RestoredHeld' = RestoredHeld /\ Mirrored'
      /\ Dusty' /\ Stray' = Stray
  BY <1>2, SameTable DEF ledger, history
<1>6. Standing' = Standing
  <2>1. Locking' \ Taken' = Locking \ Taken
    BY <1>4, <1>5 DEF Taken, Locking
  <2> QED BY <1>2, <2>1 DEF Standing, OrdersOf
<1> HIDE DEF q
<1>7. TypeOK'
  <2>1. pc' \in Operations
    <3>1. seq + 1 \in 1 .. MaxSeq
      BY <1>1
    <3> QED BY <1>1, <3>1 DEF Operations
  <2>2. tps' \subseteq Orders /\ seq' \in 0 .. MaxSeq /\ \A t \in tps' : t.id <= seq'
    <3>1. [id |-> seq + 1, qty |-> q, price |-> p] \in Orders
      BY <1>1 DEF Orders
    <3>2. \A t \in tps : t.id <= seq + 1
      BY <1>1 DEF TypeOK, Orders
    <3> QED BY <1>1, <1>3, <3>1, <3>2 DEF TypeOK
  <2>3. sellable' \in 0 .. held'
    BY <1>1, <1>2, <1>3 DEF AtLeast
  <2> QED BY <1>1, <1>2, <2>1, <2>2, <2>3 DEF TypeOK
<1>8. \A j \in Intents : row[j].tp <= seq /\ row[j].tp \in Nat
  BY <1>1 DEF IInv, Numbered, TypeOK
<1>9. Fitting'
  BY <1>1, <1>2, <1>3, <1>4, <1>5, <1>8 DEF Fitting
<1>10. Numbered'
  <2>1. top' <= seq'
    BY <1>1, <1>2, <1>3 DEF IInv, Numbered, TypeOK
  <2>2. \A j \in Intents : row'[j].tp <= seq'
    BY <1>1, <1>2, <1>3, <1>8
  <2>3. \A j, k \in Locking' : row'[j].tp = row'[k].tp => j = k
    BY <1>2, <1>5 DEF IInv, Numbered
  <2> QED BY <2>1, <2>2, <2>3 DEF Numbered
<1>11. Ordered'
  <2>1. tps = Standing
    BY <1>4 DEF IInv, Ordered
  <2>2. Placing' = {[id |-> seq + 1, qty |-> q, price |-> p]}
    BY <1>2, <1>4 DEF Placing, q
  <2> QED BY <1>3, <1>4, <1>6, <2>1, <2>2 DEF Ordered
<1>12. Paid' /\ Stocked'
  BY <1>2, <1>4, <1>5, NothingDue DEF IInv, Paid, Stocked
<1>13. Sellable'
  <2>1. held >= HeldOf(row) /\ HeldOf(row) \in Nat
    BY <1>1, <1>4, NothingDue, HeldType, StrayType DEF IInv, Stocked
  <2>2. ASSUME NEW j \in Open \ {i}
        PROVE  row[j].qty <= sellable'
    <3>1. q + row[j].qty <= HeldOf(row)
      BY <1>1, HeldTwo DEF q
    <3>2. row[j].qty \in Nat
      BY <1>1, PaperAssumption DEF Rows, Opened
    <3> QED BY <1>1, <1>3, <2>1, <3>1, <3>2 DEF AtLeast
  <2> QED BY <1>2, <1>4, <1>5, <2>2 DEF Sellable
<1>14. Counted'
  BY <1>2, <1>4, <1>5 DEF IInv, Counted
<1> QED
  BY <1>5, <1>7, <1>9, <1>10, <1>11, <1>12, <1>13, <1>14 DEF IInv

\* placeTP, with or without an order to cancel first.
LEMMA PlaceTPKeeps ==
  ASSUME IInv, NEW i \in Intents, NEW p \in TpPrices, PlaceTP(i, p)
  PROVE  IInv'
<1>1. CASE Cancel(i, [op |-> "place", i |-> i, price |-> p])
  <2>1. [op |-> "place", i |-> i, price |-> p] \in Operations
    BY DEF Operations
  <2> QED BY <1>1, <2>1, CancelKeeps
<1>2. CASE /\ lot[i].tp = NoOrder /\ seq < MaxSeq /\ lot[i].qty <= held
           /\ Begin([op |-> "placed", i |-> i, price |-> p, id |-> seq + 1]) /\ Placed(lot[i].qty, p)
           /\ UNCHANGED <<lot, ledger, price, history>>
  <2>1. lot[i].qty > 0
    BY DEF PlaceTP
  <2>2. i \in Open /\ lot[i].qty = row[i].qty /\ row[i].tp = NoOrder
    BY <1>2, <2>1, LotIs
  <2>3. pc.op = "idle" /\ pc' = [op |-> "placed", i |-> i, price |-> p, id |-> seq + 1]
    BY <1>2 DEF Begin, Idle
  <2> QED BY <1>2, <2>2, <2>3, PlacedKeeps
<1> QED
  BY <1>1, <1>2 DEF PlaceTP

\* The account always has the shares of the lot whose order is placed again.
LEMMA PlaceAgainKeeps ==
  ASSUME IInv, PlaceAgain
  PROVE  IInv'
<1> DEFINE i == pc.i
<1>1. pc.op = "place" /\ pc.price \in TpPrices /\ i \in Intents /\ i \in Open /\ TypeOK /\ lot[i].qty = row[i].qty
  BY Shape, LotIs DEF IInv, TypeOK, PlaceAgain, Fitting, Open
<1>2. lot[i].qty <= held
  <2>1. Pending = {} /\ InHand = 0
    BY <1>1 DEF Pending, Settling, InHand
  <2>2. RestoredHeld \in Nat /\ row[i].qty <= RestoredHeld
    BY <1>1, Table, HeldType
  <2>3. held = RestoredHeld + Stray /\ Stray \in Nat
    BY <1>1, <2>1, <2>2, NothingDue, StrayType DEF IInv, Stocked
  <2>4. row[i].qty \in Nat
    BY <1>1, PaperAssumption DEF TypeOK
  <2> QED BY <1>1, <2>2, <2>3, <2>4
<1>3. /\ Placed(row[i].qty, pc.price) /\ pc' = [op |-> "placed", i |-> i, price |-> pc.price, id |-> seq + 1] /\ seq < MaxSeq
      /\ UNCHANGED <<lot, ledger, price, history>>
  BY <1>1, <1>2 DEF PlaceAgain
<1> QED
  BY <1>1, <1>3, PlacedKeeps

\* doSell of a lot, with or without an order to cancel first.
LEMMA ExitKeeps ==
  ASSUME IInv, NEW i \in Intents, NEW q \in Parts \cup {lot[i].qty}, Exit(i, q)
  PROVE  IInv'
<1>1. 0 < q /\ q <= lot[i].qty /\ TypeOK /\ lot[i].qty \in 0 .. Size /\ Size \in Nat /\ Parts \subseteq 1 .. Size
  BY PaperAssumption DEF Exit, IInv, TypeOK
<1>2. q \in 1 .. Size
  BY <1>1
<1>3. CASE Cancel(i, [op |-> "clear", i |-> i, qty |-> q])
  <2>1. [op |-> "clear", i |-> i, qty |-> q] \in Operations
    BY <1>2 DEF Operations
  <2> QED BY <1>1, <1>3, <2>1, CancelKeeps
<1>4. CASE lot[i].tp = NoOrder /\ pc = Idle /\ Sell(i, q)
  <2>1. lot[i].qty > 0 /\ pc.op = "idle"
    BY <1>1, <1>4 DEF Idle
  <2>2. i \in Open /\ lot[i].qty = row[i].qty /\ row[i].tp = NoOrder
    BY <1>4, <2>1, LotIs
  <2> QED BY <1>1, <1>2, <1>4, <2>1, <2>2, SellKeeps
<1> QED
  BY <1>3, <1>4 DEF Exit

\* doSell after the order of the lot was cancelled and cleared.
LEMMA SellClearedKeeps ==
  ASSUME IInv, SellCleared
  PROVE  IInv'
<1>1. pc.op = "sell" /\ Sell(pc.i, pc.qty) /\ pc.i \in Open /\ pc.qty \in 1 .. Size
      /\ pc.qty <= row[pc.i].qty /\ row[pc.i].tp = NoOrder
  BY Shape DEF IInv, TypeOK, SellCleared, Fitting
<1> QED
  BY <1>1, SellKeeps

\* SettleLimits: the account has the shares of every order whose price is reached,
\* so all of them are filled.
LEMMA SettleKeeps ==
  ASSUME IInv, Settle
  PROVE  IInv'
<1>1. PICK filled \in SUBSET tps : Settled(filled) /\ Begin(Booking(filled))
  BY DEF Settle
<1>2. pc = Idle /\ pc.op = "idle" /\ Reached # {} /\ Reached \in SUBSET tps /\ TypeOK
  BY <1>1 DEF Begin, Idle, Settle, IInv, Reached
<1>3. /\ Taken = {} /\ Pending = {} /\ Placing = {} /\ InHand = 0 /\ Unbooked = 0
  BY <1>2 DEF Taken, Pending, Settling, Placing, InHand, Unbooked
<1>0. tps = Standing
  BY <1>3 DEF IInv, Ordered
<1>4. /\ tps \in SUBSET Orders /\ IsFiniteSet(tps) /\ Shares(tps) \in Nat /\ Shares(tps) <= held
      /\ held \in Nat /\ RestoredHeld \in Nat /\ Size \in Nat /\ Stray \in Nat
  BY <1>2, Covered, Table, HeldType, StrayType, PaperAssumption DEF TypeOK
<1>5. /\ Reached \in SUBSET Orders /\ IsFiniteSet(Reached) /\ Shares(Reached) \in Nat
      /\ Shares(Reached) <= held /\ Value(Reached) \in Nat
  <2>1. Reached \in SUBSET Orders /\ IsFiniteSet(Reached)
    BY <1>2, <1>4, FS_Subset
  <2>2. Shares(Reached) \in Nat /\ Shares(Reached) <= Shares(tps)
    BY <1>2, <1>4, SharesPart
  <2>3. Value(Reached) \in Nat
    BY <2>1, ValueIs
  <2> QED BY <1>4, <2>1, <2>2, <2>3
<1>6. filled = Reached
  <2> SUFFICES ASSUME NEW t \in Reached \ filled
               PROVE  FALSE
    BY <1>1 DEF Settled
  <2> DEFINE R == Reached \ filled
  <2>0. filled \in SUBSET Reached
    BY <1>1 DEF Settled
  <2>1. held - Shares(filled) < t.qty
    BY <1>1 DEF Settled
  <2>2. Shares(Reached) = Shares(filled) + Shares(R) /\ Shares(filled) \in Nat
    BY <1>5, <2>0, SharesSplit, SharesPart
  <2>3. R \in SUBSET Orders /\ IsFiniteSet(R) /\ t \in R
    BY <1>5, FS_Subset
  <2> HIDE DEF R
  <2>4. t.qty <= Shares(R) /\ Shares(R) \in Nat /\ t.qty \in 1 .. Size
    <3>1. Shares(R) = t.qty + Shares(R \ {t}) /\ t.qty \in 1 .. Size /\ Shares(R) \in Nat /\ t.qty <= Shares(R)
      BY <2>3, SharesTake
    <3> QED BY <3>1
  <2> QED BY <1>4, <1>5, <2>1, <2>2, <2>4
<1> DEFINE n == Shares(Reached)
           gain == Value(Reached)
<1>7. /\ cash' = cash + gain /\ held' = held - n /\ sellable' = held' /\ tps' = tps \ Reached
      /\ pc' = [op |-> "fills", fills |-> Reached]
  BY <1>1, <1>2, <1>6 DEF Settled, Begin, Booking
<1>8. UNCHANGED <<seq, lot, row, net, top, entered, left, price, dust, torn>>
  BY <1>1 DEF Settle, Settled, ledger, history
<1> DEFINE X == Reached
<1>9. /\ pc'.op = "fills" /\ Taken' = {} /\ Pending' = X /\ Placing' = {}
      /\ Shares(Pending') = n /\ Value(Pending') = gain /\ InHand' = 0 /\ Unbooked' = 0
  <2>1. pc'.op = "fills" /\ pc'.fills = X
    BY <1>7
  <2>2. Pending' = X
    BY <2>1 DEF Pending, Settling
  <2> QED BY <2>1, <2>2 DEF Taken, Placing, InHand, Unbooked
<1>12. n \in Nat /\ n <= held /\ gain \in Nat
  BY <1>5
<1> HIDE DEF n, gain, X
<1>10. /\ Open' = Open /\ Locking' = Locking /\ RestoredHeld' = RestoredHeld /\ Mirrored'
       /\ Dusty' /\ Stray' = Stray /\ Standing' = Standing
  BY <1>3, <1>8, <1>9, SameTable DEF Standing, OrdersOf
<1>11. TypeOK'
  <2>1. pc' \in Operations
    BY <1>5, <1>7 DEF Operations
  <2>2. cash' \in Nat /\ held' \in Nat /\ sellable' \in 0 .. held'
    BY <1>2, <1>4, <1>7, <1>12 DEF TypeOK
  <2> QED BY <1>2, <1>7, <1>8, <2>1, <2>2 DEF TypeOK
<1>13. Fitting'
  BY <1>9 DEF Fitting
<1>14. Numbered'
  BY <1>8, <1>10 DEF IInv, Numbered
<1>15. Ordered'
  BY <1>0, <1>2, <1>7, <1>9, <1>10 DEF Ordered, X
<1>16. Paid'
  <2>1. cash = Seed + net + 0 + 0 /\ Seed + net >= 0
    BY <1>3, NothingDue DEF IInv, Paid
  <2>2. cash' = Seed + net' + gain + 0 /\ Seed + net' >= 0
    BY <1>2, <1>7, <1>8, <1>12, <2>1, PaperAssumption DEF TypeOK
  <2> QED BY <1>9, <2>2 DEF Paid
<1>17. Stocked'
  <2>1. held = RestoredHeld + Stray
    BY <1>3, <1>4, NothingDue DEF IInv, Stocked
  <2> QED BY <1>4, <1>7, <1>9, <1>10, <1>12, <2>1 DEF Stocked
<1>18. Sellable'
  BY <1>7, <1>9 DEF Sellable
<1>19. Counted'
  BY <1>2, <1>8, <1>9, <1>10 DEF IInv, Counted
<1> QED
  BY <1>10, <1>11, <1>13, <1>14, <1>15, <1>16, <1>17, <1>18, <1>19 DEF IInv

\* settleLimits takes the next fill, which is the order of one lot.
LEMMA NextFillKeeps ==
  ASSUME IInv, NextFill
  PROVE  IInv'
<1>1. /\ pc.op = "fills" /\ TypeOK /\ UNCHANGED <<cash, held, sellable, tps, seq, lot, row, net, top>>
      /\ UNCHANGED <<entered, left, price, dust, torn>>
  BY DEF NextFill, IInv, account, ledger, history
<1>2. /\ Taken = {} /\ Pending = pc.fills /\ Placing = {} /\ InHand = 0 /\ Unbooked = 0
  BY <1>1 DEF Taken, Pending, Settling, Placing, InHand, Unbooked
<1>0. Standing = OrdersOf(Locking) /\ tps \cup Pending = Standing /\ tps \cap Pending = {}
  <2>1. Locking \ Taken = Locking
    BY <1>2
  <2> QED BY <1>2, <2>1 DEF IInv, Ordered, Standing
<1>3. PICK f \in Pending :
        pc' \in IF \E i \in Open : row[i].tp = f.id
                THEN {[op |-> "sold", i |-> i, qty |-> f.qty, paid |-> f.qty * f.price, id |-> f.id,
                       keeps |-> 0, fills |-> Pending \ {f}] : i \in {j \in Open : row[j].tp = f.id}}
                ELSE {Booking(Pending \ {f})}
  BY <1>2 DEF NextFill
<1>4. PICK k \in Locking : f = [id |-> row[k].tp, qty |-> row[k].qty, price |-> row[k].armed]
  BY <1>0 DEF OrdersOf
<1>5. k \in Open /\ row[k].tp = f.id /\ row[k].qty = f.qty /\ row[k].tp # NoOrder
  BY <1>4 DEF Locking
<1>6. \A j \in Open : row[j].tp = f.id => j = k
  <2>1. \A j \in Open : row[j].tp = f.id => j \in Locking
    BY <1>5 DEF Locking
  <2> QED BY <1>4, <1>5, <2>1 DEF IInv, Numbered
<1> DEFINE rest == Pending \ {f}
           q == f.qty
           paid == q * f.price
<1>7. pc' = [op |-> "sold", i |-> k, qty |-> q, paid |-> paid, id |-> f.id, keeps |-> 0, fills |-> rest]
  BY <1>3, <1>5, <1>6
<1>8. Pending \in SUBSET Orders /\ IsFiniteSet(Pending)
  BY Covered
<1>9. /\ Shares(Pending) = q + Shares(rest) /\ q \in 1 .. Size
      /\ Shares(Pending) \in Nat /\ Shares(rest) \in Nat
  BY <1>8, SharesTake
<1>10. Value(Pending) = paid + Value(rest) /\ paid \in Nat /\ Value(rest) \in Nat
  <2>1. rest \in SUBSET Orders /\ IsFiniteSet(rest)
    BY <1>8, FS_Subset
  <2> HIDE DEF rest
  <2>2. Value(rest) \in Nat
    BY <2>1, ValueIs
  <2> QED BY <1>8, <2>2, ValueIs DEF rest
<1>11. f.id \in 1 .. MaxSeq /\ f.id <= seq /\ k \in Intents /\ rest \in SUBSET Orders /\ Size \in Nat
  <2>1. f \in Orders
    BY <1>8
  <2> QED BY <1>4, <1>5, <1>8, <2>1, PaperAssumption DEF Orders, IInv, Numbered, Open
<1> DEFINE X == rest
<1>12. /\ pc'.op = "sold" /\ pc'.i = k /\ pc'.qty = q /\ pc'.id = f.id /\ pc'.keeps = 0
       /\ Taken' = {k} /\ Pending' = X /\ Placing' = {} /\ InHand' = -q /\ Unbooked' = paid
  <2>1. /\ pc'.op = "sold" /\ pc'.i = k /\ pc'.qty = q /\ pc'.id = f.id /\ pc'.keeps = 0
        /\ pc'.fills = X /\ pc'.paid = paid
    BY <1>7
  <2> HIDE DEF X, q, paid
  <2> QED BY <2>1 DEF Taken, Pending, Settling, Placing, InHand, Unbooked
<1>13. /\ Open' = Open /\ Locking' = Locking /\ RestoredHeld' = RestoredHeld /\ Mirrored'
       /\ Dusty' /\ Stray' = Stray
  BY <1>1, SameTable
<1>14. Standing' = Standing \ {f}
  <2>1. Standing' = {[id |-> row[j].tp, qty |-> row[j].qty, price |-> row[j].armed] : j \in Locking \ {k}}
    BY <1>1, <1>12, <1>13 DEF Standing, OrdersOf
  <2>2. Standing = {[id |-> row[j].tp, qty |-> row[j].qty, price |-> row[j].armed] : j \in Locking}
    BY <1>0 DEF OrdersOf
  <2>3. \A j \in Locking \ {k} : row[j].tp # f.id
    BY <1>6 DEF Locking
  <2> QED BY <1>4, <1>5, <2>1, <2>2, <2>3
<1>23. Shares(Pending') = Shares(rest) /\ Value(Pending') = Value(rest)
  BY <1>12
<1>18. Ordered'
  <2>1. tps \cup X = Standing \ {f} /\ tps \cap X = {}
    BY <1>0, <1>3
  <2> QED BY <1>1, <1>12, <1>14, <2>1 DEF Ordered
<1> DEFINE due == Value(rest)
<1> HIDE DEF rest, q, paid, due, X
<1>15. TypeOK'
  <2>1. pc' \in Operations
    <3>1. 0 \in 0 .. Size
      BY <1>11
    <3> QED BY <1>7, <1>9, <1>10, <1>11, <3>1 DEF Operations
  <2> QED BY <1>1, <2>1 DEF TypeOK
<1>16. Fitting'
  <2>1. q = row'[k].qty /\ q <= row'[k].qty /\ 0 = row'[k].qty - q
    BY <1>1, <1>5, <1>9, <1>11 DEF q
  <2> QED BY <1>1, <1>5, <1>11, <1>12, <1>13, <2>1 DEF Fitting
<1>17. Numbered'
  BY <1>1, <1>13 DEF IInv, Numbered
<1>19. Paid'
  <2>1. cash = Seed + net + (paid + due) + 0 /\ Seed + net >= 0
    BY <1>2, <1>10 DEF IInv, Paid, due
  <2>2. cash' = Seed + net' + due + paid
    BY <1>1, <1>10, <2>1, PaperAssumption DEF TypeOK, due
  <2> QED BY <1>1, <1>12, <1>23, <2>1, <2>2 DEF Paid, due
<1>20. Stocked'
  <2>1. held = RestoredHeld + Stray - (q + Shares(rest)) + 0 /\ RestoredHeld \in Nat /\ Stray \in Nat
    BY <1>1, <1>2, <1>9, Table, HeldType, StrayType DEF IInv, Stocked
  <2> QED BY <1>1, <1>9, <1>11, <1>12, <1>13, <1>23, <2>1 DEF Stocked
<1>21. Sellable'
  BY <1>1, <1>12 DEF IInv, Sellable
<1>22. Counted'
  BY <1>1, <1>12, <1>13 DEF IInv, Counted
<1> QED
  BY <1>13, <1>15, <1>16, <1>17, <1>18, <1>19, <1>20, <1>21, <1>22 DEF IInv

\* Broker.Restore: the account of the ledger, with the orders of the lots.
LEMMA RestartKeeps ==
  ASSUME IInv, Restart
  PROVE  IInv'
<1>1. /\ TypeOK /\ pc' = Idle /\ pc'.op = "idle"
      /\ cash' = Seed + net /\ held' = RestoredHeld /\ tps' = RestoredTps /\ seq' = LastNumber
      /\ sellable' = AtLeast(0, RestoredHeld - Shares(RestoredTps))
      /\ lot' = [i \in Intents |-> IF i \in Open THEN LotOf(row[i]) ELSE NoLot]
      /\ dust' = [i \in Intents |-> 0]
      /\ torn' = IF Tears THEN torn \cup {pc.i} ELSE torn
  BY DEF Restart, IInv, Idle
<1>2. UNCHANGED <<row, net, top, entered, left, price>>
  BY DEF Restart, ledger
<1>3. /\ Taken' = {} /\ Pending' = {} /\ Placing' = {} /\ InHand' = 0 /\ Unbooked' = 0
      /\ Open' = Open /\ Locking' = Locking /\ RestoredHeld' = RestoredHeld
  BY <1>1, <1>2 DEF Taken, Pending, Settling, Placing, InHand, Unbooked, Open, Locking, RestoredHeld
<1>4. RestoredTps = OrdersIn(row, Locking) /\ Standing' = RestoredTps
  <2>1. RestoredTps = OrdersIn(row, Locking)
    <3>1. {j \in Open : row[j].tp # NoOrder /\ row[j].armed > 0} = Locking
      <4>1. \A j \in Open : row[j].tp # NoOrder => row[j].armed # 0 /\ row[j].armed \in TpPrices \cup {0}
        BY <1>1 DEF IInv, Mirrored, TypeOK, Open
      <4>2. \A p \in TpPrices : p > 0
        BY PaperAssumption
      <4> QED BY <4>1, <4>2 DEF Locking
    <3> QED BY <3>1 DEF RestoredTps, OrdersIn
  <2>2. Standing' = {[id |-> row[i].tp, qty |-> row[i].qty, price |-> row[i].armed] : i \in Locking}
    BY <1>2, <1>3 DEF Standing, OrdersOf
  <2> QED BY <2>1, <2>2 DEF OrdersIn
<1>5. /\ RestoredTps \in SUBSET Orders /\ Shares(RestoredTps) \in Nat /\ RestoredHeld \in Nat
      /\ Shares(RestoredTps) <= RestoredHeld
      /\ \A i \in Open : row[i].tp = NoOrder => Shares(RestoredTps) + row[i].qty <= RestoredHeld
  <2>1. /\ row \in Rows /\ Locking \in SUBSET Opened(row) /\ Open = Opened(row) /\ RestoredHeld = HeldOf(row)
        /\ \A i \in Locking : row[i].qty > 0 /\ row[i].tp # NoOrder /\ row[i].armed # 0
        /\ \A i, j \in Locking : row[i].tp = row[j].tp => i = j
    BY <1>1, Table DEF IInv, Mirrored, Numbered, Locking
  <2>2. \A i \in Open : row[i].tp = NoOrder => i \in Opened(row) \ Locking
    BY <2>1 DEF Locking
  <2> QED BY <1>4, <2>1, <2>2, OrdersOfLots, HeldType
<1>6. LastNumber \in 0 .. MaxSeq /\ top <= LastNumber /\ \A i \in Intents : row[i].tp <= LastNumber
  <2> DEFINE S == {top} \cup {row[i].tp : i \in Intents}
  <2>1. S \in SUBSET (0 .. MaxSeq) /\ top \in S /\ \A i \in Intents : row[i].tp \in S
    BY <1>1 DEF TypeOK
  <2>2. LastNumber = Max(S)
    BY DEF LastNumber
  <2> HIDE DEF S
  <2>3. S \in SUBSET Nat /\ S # {} /\ MaxSeq \in Nat /\ \A x \in S : x <= MaxSeq
    BY <2>1, PaperAssumption
  <2>4. Max(S) \in S /\ \A x \in S : x <= Max(S)
    BY <2>3, MaxIs
  <2> QED BY <2>1, <2>2, <2>4
<1>7. TypeOK'
  <2>1. \A t \in RestoredTps : t.id <= LastNumber
    BY <1>6 DEF RestoredTps, Open
  <2>2. cash' \in Nat
    BY <1>1, PaperAssumption DEF IInv, Paid, TypeOK
  <2>3. held' \in Nat /\ sellable' \in 0 .. held'
    BY <1>1, <1>5 DEF AtLeast
  <2>4. lot' \in [Intents -> [qty : 0 .. Size, tp : 0 .. MaxSeq, armed : TpPrices \cup {0}]]
    <3>1. NoLot \in [qty : 0 .. Size, tp : 0 .. MaxSeq, armed : TpPrices \cup {0}]
      BY PaperAssumption DEF NoLot, NoOrder, Bare
    <3>2. \A i \in Intents : LotOf(row[i]) \in [qty : 0 .. Size, tp : 0 .. MaxSeq, armed : TpPrices \cup {0}]
      BY <1>1 DEF TypeOK, LotOf
    <3> QED BY <1>1, <3>1, <3>2
  <2>5. torn' \subseteq Intents
    BY <1>1, Shape DEF TypeOK, Tears
  <2>6. dust' \in [Intents -> 0 .. Size]
    BY <1>1, PaperAssumption
  <2> QED BY <1>1, <1>2, <1>5, <1>6, <2>1, <2>2, <2>3, <2>4, <2>5, <2>6 DEF TypeOK, Operations
<1>8. Fitting'
  BY <1>1 DEF Fitting
<1>9. Mirrored'
  BY <1>1, <1>2, <1>3 DEF IInv, Mirrored
<1>10. Numbered'
  BY <1>1, <1>2, <1>3, <1>6 DEF IInv, Numbered
<1>11. Ordered'
  BY <1>1, <1>3, <1>4 DEF Ordered
<1>15. Dusty' /\ Stray' = 0
  <2>1. Stray' = SumFunctionOnSet([i \in Intents |-> 0], Intents)
    BY <1>1 DEF Stray, SumFunction
  <2>2. Stray' = 0
    BY <2>1, PaperAssumption, SumZero
  <2> QED BY <1>1, <2>2 DEF Dusty
<1>12. Paid' /\ Stocked'
  <2>1. Seed + net >= 0
    BY DEF IInv, Paid
  <2> QED BY <1>1, <1>2, <1>3, <1>5, <1>15, <2>1, NothingDue, PaperAssumption DEF Paid, Stocked, TypeOK
<1>13. Sellable'
  <2>1. ASSUME NEW i \in Open, row[i].tp = NoOrder
        PROVE  row[i].qty <= sellable'
    <3>1. row[i].qty \in Nat
      BY <1>1, PaperAssumption DEF TypeOK, Open
    <3> QED BY <1>1, <1>5, <2>1, <3>1 DEF AtLeast
  <2> QED BY <1>1, <1>2, <1>3, <2>1 DEF Sellable
<1>14. Counted'
  <2>1. ASSUME NEW i \in Intents \ torn'
        PROVE  /\ left[i] <= entered[i]
               /\ i \in Open => entered[i] - left[i] = row[i].qty - 0
               /\ row[i].state = "none" => entered[i] - left[i] = 0
               /\ row[i].state = "closed" => IsDust(entered[i] - left[i])
    <3>1. i \notin torn /\ ~(pc.op = "enter" /\ pc.i = i) /\ ~(pc.op = "shrink" /\ pc.i = i)
      BY <1>1, <2>1 DEF Tears
    <3> QED BY <2>1, <3>1 DEF IInv, Counted
  <2> QED BY <1>1, <1>2, <1>3, <2>1 DEF Counted
<1> QED
  BY <1>7, <1>8, <1>9, <1>10, <1>11, <1>12, <1>13, <1>14, <1>15 DEF IInv

\* The price moves, or nothing does.
LEMMA IdleKeeps ==
  ASSUME IInv, Move \/ UNCHANGED vars
  PROVE  IInv'
<1>1. /\ UNCHANGED <<cash, held, sellable, tps, seq, lot, row, net, top, entered, left, pc, dust, torn>>
      /\ price' \in Prices
  BY DEF Move, vars, account, ledger, history, IInv, TypeOK
<1>2. Open' = Open /\ Locking' = Locking /\ RestoredHeld' = RestoredHeld /\ Mirrored'
      /\ Dusty' /\ Stray' = Stray
  BY <1>1, SameTable
<1>3. /\ Taken' = Taken /\ Pending' = Pending /\ InHand' = InHand /\ Unbooked' = Unbooked
      /\ Placing' = Placing
  BY <1>1 DEF Taken, Pending, Settling, Placing, InHand, Unbooked
<1>4. Standing' = Standing
  BY <1>1, <1>2, <1>3 DEF Standing, OrdersOf
<1>5. TypeOK'
  BY <1>1 DEF IInv, TypeOK
<1>6. Fitting' /\ Numbered' /\ Ordered'
  BY <1>1, <1>2, <1>3, <1>4 DEF IInv, Fitting, Numbered, Ordered
<1>7. Paid' /\ Stocked'
  BY <1>1, <1>2, <1>3 DEF IInv, Paid, Stocked
<1>8. Sellable' /\ Counted'
  BY <1>1, <1>2, <1>3 DEF IInv, Sellable, Counted
<1> QED
  BY <1>2, <1>5, <1>6, <1>7, <1>8 DEF IInv

\* A new account.
LEMMA InitIInv == Init => IInv
<1> SUFFICES ASSUME Init
             PROVE  IInv
  OBVIOUS
<1>1. /\ pc = Idle /\ pc.op = "idle" /\ cash = Seed /\ held = 0 /\ sellable = 0 /\ tps = {} /\ seq = 0
      /\ lot = [i \in Intents |-> NoLot] /\ row = [i \in Intents |-> NoRow] /\ net = 0 /\ top = 0
      /\ price \in Prices /\ torn = {} /\ dust = [i \in Intents |-> 0]
      /\ entered = [i \in Intents |-> 0] /\ left = [i \in Intents |-> 0]
  BY DEF Init, Idle
<1>2. Size \in Nat /\ MaxSeq \in Nat /\ Seed \in Nat /\ NoOrder = 0
  BY PaperAssumption DEF NoOrder
<1>3. \A i \in Intents : row[i].state = "none" /\ row[i].tp = 0
  BY <1>1, <1>2 DEF NoRow
<1>4. Open = {} /\ Locking = {} /\ Taken = {} /\ Pending = {} /\ Placing = {} /\ InHand = 0 /\ Unbooked = 0 /\ Standing = {}
  BY <1>1, <1>3 DEF Open, Locking, Taken, Settling, Pending, Placing, InHand, Unbooked, Standing, OrdersOf
<1>5. RestoredHeld = 0
  <2>1. RestoredHeld = SumFunctionOnSet([i \in Open |-> row[i].qty], {})
    BY <1>4 DEF RestoredHeld, SumFunction
  <2> QED BY <2>1, SumEmpty
<1>10. Stray = 0
  <2>1. Stray = SumFunctionOnSet([i \in Intents |-> 0], Intents)
    BY <1>1 DEF Stray, SumFunction
  <2> QED BY <2>1, PaperAssumption, SumZero
<1>6. TypeOK
  <2>1. NoRow \in [state : {"none", "open", "closed"}, qty : 0 .. Size, tp : 0 .. MaxSeq, armed : TpPrices \cup {0}]
        /\ NoLot \in [qty : 0 .. Size, tp : 0 .. MaxSeq, armed : TpPrices \cup {0}]
    BY <1>2 DEF NoRow, NoLot, Bare
  <2> QED BY <1>1, <1>2, <2>1 DEF TypeOK, Operations
<1>7. Fitting /\ Ordered /\ Mirrored /\ Numbered /\ Dusty
  BY <1>1, <1>2, <1>3, <1>4 DEF Fitting, Ordered, Mirrored, Numbered, Dusty
<1>8. Paid /\ Stocked /\ Sellable
  BY <1>1, <1>2, <1>4, <1>5, <1>10, NothingDue DEF Paid, Stocked, Sellable
<1>9. Counted
  BY <1>1, <1>3, <1>4 DEF Counted
<1> QED
  BY <1>6, <1>7, <1>8, <1>9 DEF IInv

\* Every step keeps the invariant.
LEMMA NextIInv == IInv /\ [Next]_vars => IInv'
<1> SUFFICES ASSUME IInv, [Next]_vars
             PROVE  IInv'
  OBVIOUS
<1>1. ASSUME NEW i \in Intents, Buy(i)
      PROVE  IInv'
  BY <1>1, BuyKeeps
<1>2. ASSUME NEW i \in Intents, NEW p \in TpPrices, PlaceTP(i, p)
      PROVE  IInv'
  BY <1>2, PlaceTPKeeps
<1>3. ASSUME NEW i \in Intents, NEW q \in Parts \cup {lot[i].qty}, Exit(i, q)
      PROVE  IInv'
  BY <1>3, ExitKeeps
<1>4. CASE Work
  BY <1>4, BookBuyKeeps, EnterKeeps, ClearTPKeeps, SellClearedKeeps, BookSellKeeps, ShrinkKeeps,
     PlaceAgainKeeps, ArmedKeeps, NextFillKeeps DEF Work
<1>5. CASE Settle
  BY <1>5, SettleKeeps
<1>6. CASE Restart
  BY <1>6, RestartKeeps
<1>7. CASE Move \/ UNCHANGED vars
  BY <1>7, IdleKeeps
<1> QED
  BY <1>1, <1>2, <1>3, <1>4, <1>5, <1>6, <1>7 DEF Next

-----------------------------------------------------------------------------
(* The theorems.                                                           *)

\* The invariant holds whatever the intents, sizes, prices and numbers are.
THEOREM Invariance == Spec => []IInv
BY InitIInv, NextIInv, PTL DEF Spec

\* Every variable has its type; in particular the cash is never negative, and
\* never more may be sold than is held.
THEOREM TypeCorrect == Spec => []TypeOK
<1>1. IInv => TypeOK
  BY DEF IInv
<1> QED
  BY <1>1, Invariance, PTL

\* Between two operations of the executor the account in memory is the one that a
\* restart builds from the ledger (paper_restore.go, store.PaperCashFlow), but for
\* the dust of closed lots.
THEOREM AlwaysRestored == Spec => []Restored
<1>1. IInv => Restored
  <2> SUFFICES ASSUME IInv, pc = Idle
               PROVE  /\ cash = Seed + net /\ held = RestoredHeld + SumFunction(dust) /\ tps = RestoredTps
                      /\ \A i \in Intents : IsDust(dust[i]) /\ (dust[i] > 0 => row[i].state = "closed")
                      /\ top <= seq /\ \A t \in tps : t.id <= seq
                      /\ \A i \in Intents : lot[i].qty = IF i \in Open THEN row[i].qty ELSE 0
    BY DEF Restored
  <2>1. TypeOK /\ pc.op = "idle"
    BY DEF IInv, Idle
  <2>2. Pending = {} /\ Placing = {} /\ InHand = 0 /\ Unbooked = 0 /\ Taken = {}
    BY <2>1 DEF Pending, Settling, Placing, InHand, Unbooked, Taken
  <2>3. cash = Seed + net /\ held = RestoredHeld + Stray
    <3>1. RestoredHeld \in Nat /\ Stray \in Nat
      BY <2>1, Table, HeldType, StrayType
    <3> QED BY <2>1, <2>2, <3>1, NothingDue, PaperAssumption DEF IInv, Paid, Stocked, TypeOK
  <2>4. tps = RestoredTps
    <3>1. Locking \ Taken = Locking
      BY <2>2
    <3>2. {j \in Open : row[j].tp # NoOrder /\ row[j].armed > 0} = Locking
      <4>1. \A j \in Open : row[j].tp # NoOrder => row[j].armed # 0 /\ row[j].armed \in TpPrices \cup {0}
        BY <2>1 DEF IInv, Mirrored, TypeOK, Open
      <4>2. \A p \in TpPrices : p > 0
        BY PaperAssumption
      <4> QED BY <4>1, <4>2 DEF Locking
    <3> QED BY <2>2, <3>1, <3>2 DEF IInv, Ordered, Standing, OrdersOf, RestoredTps
  <2>5. top <= seq /\ \A t \in tps : t.id <= seq
    BY DEF IInv, Numbered, TypeOK
  <2>6. \A i \in Intents : lot[i].qty = IF i \in Open THEN row[i].qty ELSE 0
    BY LotIs
  <2>7. ASSUME NEW i \in Intents
        PROVE  IsDust(dust[i]) /\ (dust[i] > 0 => row[i].state = "closed")
    <3>1. dust[i] # 0 => row[i].state = "closed" /\ IsDust(dust[i])
      BY DEF IInv, Dusty
    <3>2. dust[i] = 0 => IsDust(dust[i]) /\ ~(dust[i] > 0)
      BY DEF IsDust
    <3> QED BY <3>1, <3>2
  <2> QED BY <2>3, <2>4, <2>5, <2>6, <2>7 DEF Stray
<1> QED
  BY <1>1, Invariance, PTL

\* Between two operations the account refuses no lot its exit, and at no time do its
\* take-profit orders want more shares than it has, although each order,
\* cancellation, sale and settlement overwrites what the others lock
\* (paper.Broker.sellable).
THEOREM AlwaysClosable == Spec => []Closable
<1>1. IInv => Closable
  <2> SUFFICES ASSUME IInv
               PROVE  Closable
    OBVIOUS
  <2>1. Shares(tps) <= held
    BY Covered
  <2>2. ASSUME pc = Idle, NEW i \in Open
        PROVE  IF lot[i].tp = NoOrder THEN lot[i].qty <= sellable ELSE lot[i].qty <= held
    <3>1. TypeOK /\ pc.op = "idle" /\ Pending = {} /\ InHand = 0 /\ Taken = {} /\ i \in Intents
      BY <2>2 DEF IInv, Idle, Pending, Settling, InHand, Taken, Open
    <3>2. lot[i].qty = row[i].qty /\ lot[i].tp = row[i].tp
      BY <2>2, <3>1, LotIs
    <3>3. row[i].tp = NoOrder => row[i].qty <= sellable
      BY <2>2, <3>1 DEF IInv, Sellable
    <3>4. RestoredHeld \in Nat /\ row[i].qty <= RestoredHeld /\ Stray \in Nat /\ row[i].qty \in Nat
      BY <2>2, <3>1, Table, HeldType, StrayType, PaperAssumption DEF TypeOK
    <3>5. held = RestoredHeld + Stray
      BY <3>1, <3>4, NothingDue DEF IInv, Stocked
    <3>6. row[i].qty <= held
      BY <3>4, <3>5
    <3> QED BY <3>2, <3>3, <3>6
  <2> QED BY <2>1, <2>2 DEF Closable
<1> QED
  BY <1>1, Invariance, PTL

\* For every intent that no crash has torn, the ledger never says that more was sold
\* than was bought; between operations what it says is left is the lot, and of a
\* closed lot nothing but dust (recordFill, UpsertIntent, ReduceIntent, CloseIntent).
THEOREM AlwaysSoldOnce == Spec => []SoldOnce
<1>1. IInv => SoldOnce
  <2> SUFFICES ASSUME IInv, NEW i \in Intents \ torn
               PROVE  /\ left[i] <= entered[i]
                      /\ pc = Idle => IF i \in Open THEN entered[i] - left[i] = row[i].qty
                                                    ELSE IsDust(entered[i] - left[i])
    BY DEF SoldOnce
  <2>1. left[i] <= entered[i]
    BY DEF IInv, Counted
  <2>2. ASSUME pc = Idle
        PROVE  IF i \in Open THEN entered[i] - left[i] = row[i].qty ELSE IsDust(entered[i] - left[i])
    <3>1. pc.op = "idle" /\ row[i].qty \in Nat /\ row[i].state \in {"none", "open", "closed"}
      BY <2>2, PaperAssumption DEF Idle, IInv, TypeOK
    <3>2. /\ i \in Open => entered[i] - left[i] = row[i].qty - 0
          /\ row[i].state = "none" => entered[i] - left[i] = 0
          /\ row[i].state = "closed" => IsDust(entered[i] - left[i])
      BY <3>1 DEF IInv, Counted
    <3>3. CASE i \in Open
      BY <3>1, <3>2, <3>3
    <3>4. CASE i \notin Open
      BY <3>1, <3>2, <3>4 DEF Open, IsDust
    <3> QED BY <3>3, <3>4
  <2> QED BY <2>1, <2>2
<1> QED
  BY <1>1, Invariance, PTL
=============================================================================
