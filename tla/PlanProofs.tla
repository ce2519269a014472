----------------------------- MODULE PlanProofs -----------------------------
(***************************************************************************)
(* What is proved of Plan, for any sources, books, intents, prices and     *)
(* publications, and any order cap.                                        *)
(*                                                                         *)
(* A plan is a pass over the sources, each a pass over its targets.  What  *)
(* a pass keeps at one target it keeps to its end (PassKeeps), so a claim  *)
(* about a tick is one about one target, and about putting two passes      *)
(* together: the plans that are sound (Sound), those that sell what is     *)
(* asked (Selling), those whose entries are paid (Paid, Tab).              *)
(*                                                                         *)
(* The invariants: PInv, the types; Once, what was bought is over or held  *)
(* by the source that lists it; Kept, no snapshot asks for what it left    *)
(* before; Owed, a late lot has no more ticks to go than it may take.      *)
(***************************************************************************)
EXTENDS Plan, SumProofs, SequenceTheorems

\* A quotient times its divisor is not more than what was divided.
LEMMA DivIs ==
  ASSUME NEW a \in Int, NEW b \in Nat \ {0}
  PROVE  /\ a \div b \in Int /\ (a \div b) * b \in Int /\ (a \div b) * b <= a
         /\ a >= 0 => a \div b >= 0
OBVIOUS

\* A product of numbers of shares and prices is a number, and 0 only if one of them is.
LEMMA TimesIs ==
  ASSUME NEW a \in Nat, NEW b \in Nat
  PROVE  a * b \in Nat /\ (a > 0 /\ b > 0 => a * b > 0)
OBVIOUS

\* Sums go with their terms.
LEMMA SumBelow ==
  ASSUME NEW f, NEW g, NEW h, NEW S, IsFiniteSet(S),
         \A x \in S : f[x] \in Int /\ g[x] \in Int /\ h[x] \in Int /\ f[x] <= g[x] + h[x]
  PROVE  SumFunctionOnSet(f, S) <= SumFunctionOnSet(g, S) + SumFunctionOnSet(h, S)
<1> DEFINE Ok(s) == SumFunctionOnSet(f, s) <= SumFunctionOnSet(g, s) + SumFunctionOnSet(h, s)
           T == {s \in SUBSET S : ~Ok(s)}
<1> SUFFICES ASSUME T # {} PROVE FALSE
  OBVIOUS
<1>1. T \in SUBSET (SUBSET S)
  OBVIOUS
<1>2. PICK U \in T : \A V \in SUBSET U : V # U => V \notin T
  <2> HIDE DEF T
  <2> QED BY <1>1, Smallest
<1>3. U \in SUBSET S /\ ~Ok(U) /\ IsFiniteSet(U)
  BY FS_Subset
<1>4. U # {}
  <2> SUFFICES ASSUME U = {} PROVE FALSE
    OBVIOUS
  <2>1. SumFunctionOnSet(f, U) = 0 /\ SumFunctionOnSet(g, U) = 0 /\ SumFunctionOnSet(h, U) = 0
    BY SumEmpty
  <2> HIDE DEF T
  <2> QED BY <1>3, <2>1
<1>5. PICK e : e \in U
  BY <1>4
<1> DEFINE V == U \ {e}
<1>6. V \in SUBSET S /\ IsFiniteSet(V) /\ V # U /\ V \in SUBSET U
  BY <1>3, <1>5, FS_Subset
<1>7. Ok(V)
  BY <1>2, <1>6
<1>8. /\ SumFunctionOnSet(f, U) = f[e] + SumFunctionOnSet(f, V)
      /\ SumFunctionOnSet(g, U) = g[e] + SumFunctionOnSet(g, V)
      /\ SumFunctionOnSet(h, U) = h[e] + SumFunctionOnSet(h, V)
  BY <1>3, <1>5, SumTake
<1>9. SumFunctionOnSet(f, V) \in Int /\ SumFunctionOnSet(g, V) \in Int /\ SumFunctionOnSet(h, V) \in Int
  BY <1>6, SumType
<1>10. f[e] \in Int /\ g[e] \in Int /\ h[e] \in Int /\ f[e] <= g[e] + h[e]
  BY <1>3, <1>5
<1> HIDE DEF V, T
<1> QED
  BY <1>3, <1>7, <1>8, <1>9, <1>10

\* A finite set of numbers has a bound.
LEMMA Bounded ==
  ASSUME NEW S \in SUBSET Nat, IsFiniteSet(S)
  PROVE  \E n \in Nat : \A x \in S : x <= n
<1> DEFINE Ok(s) == \E n \in Nat : \A x \in s : x <= n
           T == {s \in SUBSET S : ~Ok(s)}
<1> SUFFICES ASSUME T # {} PROVE FALSE
  OBVIOUS
<1>1. T \in SUBSET (SUBSET S)
  OBVIOUS
<1>2. PICK U \in T : \A V \in SUBSET U : V # U => V \notin T
  <2> HIDE DEF T
  <2> QED BY <1>1, Smallest
<1>3. U \in SUBSET S /\ ~Ok(U)
  OBVIOUS
<1>4. PICK e : e \in U
  BY <1>3
<1>5. Ok(U \ {e})
  BY <1>2, <1>3, <1>4
<1>6. PICK n \in Nat : \A x \in U \ {e} : x <= n
  BY <1>5
<1>7. e \in Nat
  BY <1>3, <1>4
<1>8. n + e \in Nat /\ \A x \in U : x <= n + e
  BY <1>3, <1>4, <1>6, <1>7
<1> QED
  BY <1>3, <1>8

\* What a function makes of a finite set is finite.
LEMMA ImageFinite ==
  ASSUME NEW S, IsFiniteSet(S), NEW f
  PROVE  IsFiniteSet({f[x] : x \in S})
<1> DEFINE T == {f[x] : x \in S}
           g == [x \in S |-> f[x]]
<1>1. g \in Surjection(S, T)
  BY DEF Surjection
<1> QED
  BY <1>1, FS_Surjection

-----------------------------------------------------------------------------
(* Numbers.                                                                *)

\* The constants in the form the proofs use.
LEMMA Constants ==
  /\ IsFiniteSet(Intents) /\ IsFiniteSet(Sources)
  /\ Len(SourceOrder) \in Nat /\ \A n \in 1 .. Len(SourceOrder) : SourceOrder[n] \in Sources
  /\ \A s \in Sources : /\ Len(Targets[s]) \in Nat
                        /\ \A n \in 1 .. Len(Targets[s]) : Targets[s][n] \in Intents
                        /\ Of(s) = {Targets[s][n] : n \in 1 .. Len(Targets[s])} /\ Of(s) \subseteq Intents
                        /\ s.kid # ""
                        /\ \A t \in Sources : s.kid = t.kid /\ s.scope = t.scope => s = t
  /\ \A i \in Intents : Price[i] \in Nat /\ Price[i] > 0 /\ Weight[i] \in 1 .. 20
  /\ NightBooks \subseteq Sources
<1>1. /\ SourceOrder \in Seq(Sources) /\ IsFiniteSet(Intents)
      /\ \A s \in Sources : Targets[s] \in Seq(Intents)
  BY PlanAssumption
<1>2. Len(SourceOrder) \in Nat /\ \A n \in 1 .. Len(SourceOrder) : SourceOrder[n] \in Sources
  BY <1>1
<1>3. \A s \in Sources : /\ Len(Targets[s]) \in Nat
                         /\ \A n \in 1 .. Len(Targets[s]) : Targets[s][n] \in Intents
  BY <1>1
<1>4. IsFiniteSet(1 .. Len(SourceOrder))
  BY <1>2, FS_Interval
<1>5. IsFiniteSet(Sources)
  BY <1>4, ImageFinite DEF Sources
<1>6. \A s \in Sources : Of(s) \subseteq Intents
  BY <1>3 DEF Of
<1>7. \A s \in Sources : s.kid # "" /\ \A t \in Sources : s.kid = t.kid /\ s.scope = t.scope => s = t
  <2>1. \A s, t \in Sources : s.kid = t.kid /\ s.scope = t.scope => s = t
    BY PlanAssumption
  <2>2. \A s \in Sources : s.kid # ""
    BY PlanAssumption
  <2> QED BY <2>1, <2>2
<1>8. \A i \in Intents : Price[i] \in Nat /\ Price[i] > 0 /\ Weight[i] \in 1 .. 20
  <2>1. \A i \in Intents : Price[i] \in Nat \ {0} /\ Weight[i] \in 1 .. 20
    BY PlanAssumption, Zenon
  <2> QED BY <2>1
<1> QED
  BY <1>1, <1>2, <1>3, <1>5, <1>6, <1>7, <1>8 DEF Of, NightBooks

\* The books in the form the proofs use.
LEMMA Books ==
  /\ OvernightPct \in 1 .. 100 /\ BorrowX \in Nat \ {0} /\ ReserveTrades \in Nat
  /\ \A s \in Sources : /\ Book[s].seed \in Nat /\ Book[s].maxQty \in Nat /\ Book[s].share \in Nat \ {0}
                        /\ Book[s].pct \in 0 .. 100 /\ Book[s].weight \in 0 .. 20
                        /\ Book[s].hold \in {"carry", "day"} /\ Book[s].on \in BOOLEAN
  /\ MinOrderValue \in Nat /\ MaxOrders \in Nat /\ MaxDay \in Nat /\ Capitals \subseteq Nat \ {0}
  /\ \A i \in Intents : MinValue(i) \in Nat
<1>1. NewAlloc /\ MinOrderValue \in Nat /\ MaxOrders \in Nat /\ MaxDay \in Nat /\ Capitals \subseteq Nat \ {0}
  BY PlanAssumption
<1>2. /\ OvernightPct \in 1 .. 100 /\ BorrowX \in Nat \ {0} /\ ReserveTrades \in Nat
      /\ \A s \in Sources : /\ Book[s].seed \in Nat /\ Book[s].maxQty \in Nat /\ Book[s].share \in Nat \ {0}
                            /\ Book[s].pct \in 0 .. 100 /\ Book[s].weight \in 0 .. 20
                            /\ Book[s].hold \in {"carry", "day"} /\ Book[s].on \in BOOLEAN
  BY <1>1 DEF NewAlloc
<1> QED
  BY <1>1, <1>2 DEF MinValue

\* What an intent's lot is worth
Worth == [i \in Intents |-> lot[i].qty * Price[i]]

QtyNat == \A i \in Intents : lot[i].qty \in Nat

\* The value of some lots is a sum over all of them.
LEMMA ValueIs ==
  ASSUME QtyNat, NEW I \in SUBSET Intents
  PROVE  /\ Value(I) = SumFunctionOnSet(Worth, I) /\ Value(I) \in Nat
         /\ \A i \in Intents : Worth[i] \in Nat
<1> DEFINE f == [i \in I |-> lot[i].qty * Price[i]]
<1>1. IsFiniteSet(I)
  BY Constants, FS_Subset
<1>2. \A i \in Intents : lot[i].qty * Price[i] \in Nat
  BY Constants, TimesIs DEF QtyNat
<1>3. \A i \in Intents : Worth[i] \in Nat
  BY <1>2 DEF Worth
<1>4. \A i \in I : f[i] = Worth[i]
  BY DEF Worth
<1>5. Value(I) = SumFunctionOnSet(f, I)
  BY DEF Value, SumFunction
<1> HIDE DEF f
<1>6. SumFunctionOnSet(f, I) = SumFunctionOnSet(Worth, I)
  BY <1>1, <1>4, SumSame
<1>7. SumFunctionOnSet(Worth, I) \in Nat
  BY <1>1, <1>3, SumPart
<1> QED
  BY <1>3, <1>5, <1>6, <1>7

\* What a book trades with is a number: its own money, or its part of the entrusted.
LEMMA BaseIs ==
  ASSUME capital \in Nat, NEW s \in Sources
  PROVE  /\ Base(s) \in Nat /\ Limit(s) \in Nat
         /\ capital = 0 /\ ~Fixed(s) => Base(s) = 0
<1>1. NightCap \in Nat /\ (capital = 0 => NightCap = 0)
  <2>1. capital * OvernightPct \in Nat
    BY Books, TimesIs
  <2>2. (capital * OvernightPct) \div 100 \in Nat
    BY <2>1
  <2> QED BY <2>2, Books DEF NightCap
<1>2. \A h : Pool(h) \in Nat /\ (capital = 0 => Pool(h) = 0)
  BY <1>1 DEF Pool
<1>3. (capital * Book[s].pct) \div 100 \in Nat /\ (capital = 0 => (capital * Book[s].pct) \div 100 = 0)
  <2>1. capital * Book[s].pct \in Nat /\ (capital = 0 => capital * Book[s].pct = 0)
    BY Books, TimesIs
  <2> QED BY <2>1
<1> DEFINE S == Shared(Book[s].hold)
           f == [b \in S |-> Book[b].share]
           total == SumFunction(f)
<1>4. CASE Book[s].on /\ ~Fixed(s) /\ Book[s].pct = 0
  <2>1. s \in S /\ S \subseteq Sources
    BY <1>4 DEF Shared
  <2>2. IsFiniteSet(S) /\ \A b \in S : f[b] \in Nat /\ f[b] > 0
    <3>1. IsFiniteSet(S)
      BY <2>1, Constants, FS_Subset
    <3>2. \A b \in Sources : Book[b].share \in Nat /\ Book[b].share > 0
      BY Books
    <3> HIDE DEF S
    <3> QED BY <2>1, <3>1, <3>2
  <2>3. total = SumFunctionOnSet(f, S)
    BY DEF SumFunction
  <2> HIDE DEF S, f
  <2>4. SumFunctionOnSet(f, S) = f[s] + SumFunctionOnSet(f, S \ {s})
    BY <2>1, <2>2, SumTake
  <2>5. SumFunctionOnSet(f, S) \in Nat /\ SumFunctionOnSet(f, S \ {s}) \in Nat
    BY <2>2, SumPart
  <2>6. total \in Nat /\ total > 0
    BY <2>1, <2>2, <2>3, <2>4, <2>5
  <2>7. Base(s) = (Pool(Book[s].hold) * Book[s].share) \div total
    BY <1>4, Books DEF Base, S, f
  <2> HIDE DEF total
  <2> DEFINE a == Pool(Book[s].hold) * Book[s].share
  <2>8. a \in Nat /\ (capital = 0 => a = 0)
    BY <1>2, Books, TimesIs
  <2> HIDE DEF a
  <2>9. a \div total \in Nat /\ (a = 0 => a \div total = 0)
    BY <2>6, <2>8
  <2>10. Base(s) \in Nat /\ (capital = 0 => Base(s) = 0)
    BY <2>7, <2>8, <2>9 DEF a
  <2>11. BorrowX * Base(s) \in Nat
    BY <2>10, Books, TimesIs
  <2> QED BY <1>4, <2>10, <2>11 DEF Limit
<1>5. CASE ~(Book[s].on /\ ~Fixed(s) /\ Book[s].pct = 0)
  <2>1. Base(s) \in Nat /\ (capital = 0 /\ ~Fixed(s) => Base(s) = 0)
    BY <1>3, <1>5, Books DEF Base
  <2>2. BorrowX * Base(s) \in Nat
    BY <2>1, Books, TimesIs
  <2> QED BY <2>1, <2>2, Books DEF Limit
<1> QED
  BY <1>4, <1>5

\* The gate that a plan begins with has numbers, and its reserve is not negative.
Gates == [free : Int, nightLeft : Int, reserve : Nat]

\* The gate of a tick starts with what is free, and with what the night's limit leaves.
LEMMA NewGateIs ==
  ASSUME capital \in Nat, QtyNat, NEW seen, \A s \in NightBooks : seen[s] \in Nat
  PROVE  /\ NewGate(seen) \in Gates
         /\ NewGate(seen).free = capital - Value(Held)
         /\ NewGate(seen).nightLeft = NightCap - Value(NightLots)
<1>1. Held \in SUBSET Intents /\ NightLots \in SUBSET Intents
  BY DEF Held, NightLots
<1>2. Value(Held) \in Nat /\ Value(NightLots) \in Nat
  BY <1>1, ValueIs
<1>3. NightCap \in Int
  <2>1. capital * OvernightPct \in Nat
    BY Books, TimesIs
  <2> QED BY <2>1 DEF NightCap
<1>4. \A s \in NightBooks : PerTrade(s, seen) \in Nat
  <2> SUFFICES ASSUME NEW s \in NightBooks PROVE PerTrade(s, seen) \in Nat
    OBVIOUS
  <2>1. s \in Sources
    BY Constants
  <2>11. Book[s].weight \in Nat /\ seen[s] \in Nat
    BY <2>1, Books
  <2>12. Base(s) \in Nat
    BY <2>1, BaseIs
  <2>2. \A w \in Nat : (Base(s) * w) \div 20 \in Nat
    <3> TAKE w \in Nat
    <3>1. Base(s) * w \in Nat
      BY <2>12, TimesIs
    <3> QED BY <3>1
  <2> QED BY <2>11, <2>2 DEF PerTrade, DefaultCarryWeight
<1> DEFINE T == {PerTrade(s, seen) : s \in NightBooks} \cup {0}
           trade == Max(T)
<1>5. trade \in Nat
  <2>1. T \in SUBSET Nat /\ T # {}
    BY <1>4
  <2>2. IsFiniteSet(NightBooks)
    BY Constants, FS_Subset
  <2> DEFINE t == [s \in NightBooks |-> PerTrade(s, seen)]
  <2>3. IsFiniteSet({t[s] : s \in NightBooks}) /\ {t[s] : s \in NightBooks} = {PerTrade(s, seen) : s \in NightBooks}
    BY <2>2, ImageFinite
  <2>4. IsFiniteSet(T)
    BY <2>3, FS_AddElement
  <2>5. \E n \in Nat : \A x \in T : x <= n
    <3> HIDE DEF T
    <3> QED BY <2>1, <2>4, Bounded
  <2> HIDE DEF T
  <2> QED BY <2>1, <2>5, MaxIs
<1> DEFINE c == [s \in NightBooks |-> AtLeast(0, Limit(s) - Value({i \in Held : s \in BookOf(i)}))]
           capLeft == SumFunction(c)
<1>6. capLeft \in Int
  <2>1. \A s \in NightBooks : c[s] \in Int
    <3> SUFFICES ASSUME NEW s \in NightBooks PROVE c[s] \in Int
      OBVIOUS
    <3>1. Limit(s) \in Nat
      BY Constants, BaseIs
    <3>2. Value({i \in Held : s \in BookOf(i)}) \in Nat
      BY <1>1, ValueIs
    <3> QED BY <3>1, <3>2 DEF AtLeast
  <2>2. IsFiniteSet(NightBooks)
    BY Constants, FS_Subset
  <2>3. capLeft = SumFunctionOnSet(c, NightBooks)
    BY DEF SumFunction
  <2> HIDE DEF c
  <2> QED BY <2>1, <2>2, <2>3, SumType
<1> DEFINE left == NightCap - Value(NightLots)
<1>7. NewGate(seen) = [free |-> capital - Value(Held), nightLeft |-> left,
                       reserve |-> AtLeast(0, AtMost(ReserveTrades * trade, AtMost(left, capLeft)))]
  BY DEF NewGate
<1> HIDE DEF trade, capLeft, T, c
<1>8. ReserveTrades * trade \in Nat
  BY <1>5, Books, TimesIs
<1>9. left \in Int /\ capital - Value(Held) \in Int
  BY <1>2, <1>3
<1>10. AtLeast(0, AtMost(ReserveTrades * trade, AtMost(left, capLeft))) \in Nat
  BY <1>6, <1>8, <1>9 DEF AtLeast, AtMost
<1> QED
  BY <1>7, <1>9, <1>10 DEF Gates

-----------------------------------------------------------------------------
(* Passes over a sequence: Through.                                        *)

\* A pass whose steps stay in a set has a value after every prefix.
PassOf(f, X, R, first, m) ==
  /\ f \in [0 .. m -> X] /\ f[0] = first
  /\ \A k \in 1 .. m : f[k] = R[f[k - 1]][k]

\* A pass over n elements exists: what it makes of one is chosen from what it made of those before.
LEMMA PassExists ==
  ASSUME NEW X, NEW n \in Nat, NEW R \in [X -> [1 .. n -> X]], NEW first \in X
  PROVE  \E f : PassOf(f, X, R, first, n)
<1> DEFINE Ok(f, m) == PassOf(f, X, R, first, m)
           T == {m \in 0 .. n : \A f : ~Ok(f, m)}
<1> SUFFICES T = {}
  <2>1. n \in 0 .. n
    OBVIOUS
  <2> QED BY <2>1
<1> SUFFICES ASSUME T # {} PROVE FALSE
  OBVIOUS
<1>1. T \subseteq Nat
  OBVIOUS
<1>2. PICK m \in T : \A k \in T : <<k, m>> \notin OpToRel(<, Nat)
  <2> HIDE DEF T
  <2> QED BY <1>1, NatLessThanWellFounded, WFMin
<1>3. \A k \in T : ~(k < m)
  BY <1>1, <1>2 DEF OpToRel
<1>4. m \in 0 .. n /\ \A f : ~Ok(f, m)
  OBVIOUS
<1>5. m # 0
  <2> SUFFICES ASSUME m = 0 PROVE FALSE
    OBVIOUS
  <2> DEFINE f == [k \in 0 .. 0 |-> first]
  <2>1. Ok(f, 0)
    BY DEF PassOf
  <2> QED BY <1>4, <2>1
<1>6. m - 1 \in 0 .. n /\ m - 1 < m /\ m \in 1 .. n
  BY <1>4, <1>5
<1>7. m - 1 \notin T
  BY <1>3, <1>6
<1>8. PICK f : Ok(f, m - 1)
  BY <1>6, <1>7
<1> DEFINE g == [k \in 0 .. m |-> IF k = m THEN R[f[m - 1]][m] ELSE f[k]]
<1>9. f[m - 1] \in X
  BY <1>6, <1>8 DEF PassOf
<1>10. R[f[m - 1]][m] \in X
  <2>1. R[f[m - 1]] \in [1 .. n -> X]
    BY <1>9
  <2> QED BY <1>6, <2>1
<1>11. g \in [0 .. m -> X] /\ g[0] = first
  BY <1>6, <1>8, <1>10 DEF PassOf
<1>12. \A k \in 1 .. m : g[k] = R[g[k - 1]][k]
  <2> TAKE k \in 1 .. m
  <2>1. CASE k = m
    <3>1. g[k] = R[f[m - 1]][m] /\ g[k - 1] = f[m - 1]
      BY <1>4, <1>6, <2>1
    <3> HIDE DEF g
    <3> QED BY <2>1, <3>1
  <2>2. CASE k # m
    <3>1. k \in 1 .. m - 1 /\ g[k] = f[k] /\ g[k - 1] = f[k - 1]
      BY <1>6, <2>2
    <3>2. f[k] = R[f[k - 1]][k]
      BY <1>8, <3>1 DEF PassOf
    <3> HIDE DEF g
    <3> QED BY <3>1, <3>2
  <2> QED BY <2>1, <2>2
<1> HIDE DEF g
<1>13. Ok(g, m)
  BY <1>11, <1>12 DEF PassOf
<1> QED
  BY <1>4, <1>13

\* What holds after a prefix and is kept by every later step holds at the end.
LEMMA PassKeeps ==
  ASSUME NEW n \in Nat, NEW j \in 0 .. n, NEW f, NEW S, f[j] \in S,
         \A k \in 1 .. n : k > j /\ f[k - 1] \in S => f[k] \in S
  PROVE  f[n] \in S
<1> DEFINE T == {k \in j .. n : f[k] \notin S}
<1> SUFFICES ASSUME T # {} PROVE FALSE
  <2>1. n \in j .. n
    OBVIOUS
  <2> QED BY <2>1
<1>1. T \subseteq Nat
  OBVIOUS
<1>2. PICK m \in T : \A k \in T : <<k, m>> \notin OpToRel(<, Nat)
  <2> HIDE DEF T
  <2> QED BY <1>1, NatLessThanWellFounded, WFMin
<1>3. \A k \in T : ~(k < m)
  BY <1>1, <1>2 DEF OpToRel
<1>4. m \in j .. n /\ f[m] \notin S /\ m # j
  OBVIOUS
<1>5. m - 1 \in j .. n /\ m - 1 < m /\ m \in 1 .. n /\ m > j
  BY <1>4
<1>6. f[m - 1] \in S
  BY <1>3, <1>5
<1> QED
  BY <1>4, <1>5, <1>6

-----------------------------------------------------------------------------
(* The steps of a plan.                                                    *)

Exits == [id : Intents, qty : Nat]
Entries == [id : Intents, qty : Nat, src : Sources]
ExitSets == {x \in SUBSET Exits : IsFiniteSet(x)}
EntrySeqs == Seq(Entries)
Passes == [gate : Gates, spent : Int, exits : ExitSets, enters : EntrySeqs]

\* What a plan reads is of its type
Readable ==
  /\ capital \in Nat /\ QtyNat
  /\ \A i \in Intents : lot[i].entry \in Nat
  /\ \A s \in Known : \A i \in Of(s) : snap[s][i] = None \/ snap[s][i] \in 0 .. 4

\* An entry is of what the gate lets through: not of more money than there is, after a day's
\* entry not of the reserve, and of a night's entry not over the night's limit.
LEMMA AdmitIs ==
  ASSUME NEW g \in Gates, NEW i \in Intents, NEW qty \in Nat
  PROVE  LET a == Admit(g, i, qty)
             spent == a.qty * Price[i]
         IN  /\ a.qty \in Nat /\ a.gate \in Gates /\ spent \in Nat /\ spent <= qty * Price[i]
             /\ qty = 0 => a.qty = 0
             /\ a.gate.free = g.free - spent
             /\ a.gate.nightLeft = g.nightLeft - IF NightTarget(i) THEN spent ELSE 0
             /\ a.gate.reserve >= g.reserve - IF NightTarget(i) THEN spent ELSE 0
             /\ capital # 0 /\ a.qty > 0 =>
                  /\ a.gate.free >= IF DayTarget(i) THEN g.reserve ELSE 0
                  /\ NightTarget(i) => a.gate.nightLeft >= 0
<1> DEFINE cost == qty * Price[i]
           avail == g.free - IF DayTarget(i) THEN g.reserve ELSE 0
           q == IF capital = 0 THEN qty
                ELSE IF NightTarget(i) /\ cost > g.nightLeft THEN 0
                ELSE IF cost > avail THEN Fit(avail, i) ELSE qty
           spent == q * Price[i]
           gate == [free      |-> g.free - spent,
                    nightLeft |-> g.nightLeft - IF NightTarget(i) THEN spent ELSE 0,
                    reserve   |-> IF NightTarget(i) THEN AtLeast(0, g.reserve - spent) ELSE g.reserve]
<1>1. Admit(g, i, qty) = [qty |-> q, gate |-> gate]
  BY DEF Admit
<1>2. g.free \in Int /\ g.nightLeft \in Int /\ g.reserve \in Nat /\ Price[i] \in Nat /\ Price[i] > 0
  BY Constants DEF Gates
<1>3. cost \in Nat /\ (qty = 0 => cost = 0)
  BY <1>2, TimesIs
<1> HIDE DEF cost
<1>4. avail \in Int /\ avail <= g.free /\ (DayTarget(i) => avail = g.free - g.reserve)
      /\ (~DayTarget(i) => avail = g.free)
  BY <1>2
<1> HIDE DEF avail
<1>5. /\ Fit(avail, i) \in Nat /\ (avail <= 0 => Fit(avail, i) = 0)
      /\ Fit(avail, i) = 0 \/ Fit(avail, i) * Price[i] <= avail
  <2>1. avail \div Price[i] \in Int /\ (avail \div Price[i]) * Price[i] <= avail
        /\ (avail >= 0 => avail \div Price[i] >= 0)
    <3>1. Price[i] \in Nat \ {0} /\ avail \in Int
      BY <1>2, <1>4
    <3> QED BY <3>1, DivIs
  <2>2. \/ avail > 0 /\ Fit(avail, i) = avail \div Price[i]
        \/ Fit(avail, i) = 0
    BY <1>4 DEF Fit
  <2> QED BY <1>4, <2>1, <2>2
<1> DEFINE fit == Fit(avail, i)
<1>6. fit \in Nat /\ fit * Price[i] \in Nat /\ (fit = 0 => fit * Price[i] = 0)
  BY <1>2, <1>5, TimesIs
<1>7. /\ q \in Nat /\ spent \in Nat /\ spent <= cost /\ (qty = 0 => q = 0)
      /\ capital # 0 /\ q > 0 => spent <= avail /\ (NightTarget(i) => spent <= g.nightLeft)
  <2>1. CASE capital = 0
    BY <1>3, <2>1 DEF cost
  <2>2. CASE capital # 0 /\ NightTarget(i) /\ cost > g.nightLeft
    BY <1>2, <1>3, <2>2, TimesIs
  <2>3. CASE capital # 0 /\ ~(NightTarget(i) /\ cost > g.nightLeft) /\ cost > avail
    <3>1. q = fit
      BY <2>3
    <3>2. qty = 0 => fit = 0
      BY <1>3, <1>4, <1>5, <2>3
    <3>3. fit > 0 => fit * Price[i] <= avail
      BY <1>5, <1>6
    <3>4. NightTarget(i) => cost <= g.nightLeft
      BY <1>2, <1>3, <2>3
    <3> DEFINE m == fit * Price[i]
    <3>5. m \in Nat /\ (fit > 0 => m <= avail) /\ (fit = 0 => m = 0) /\ fit \in Nat
      BY <1>6, <3>3
    <3>6. spent = m
      BY <3>1
    <3> HIDE DEF fit, m, q, spent
    <3>7. m <= cost
      BY <1>3, <1>4, <2>3, <3>5
    <3>8. NightTarget(i) => m <= g.nightLeft
      BY <1>2, <1>3, <3>4, <3>5, <3>7
    <3> QED BY <3>1, <3>2, <3>5, <3>6, <3>7, <3>8
  <2>4. CASE capital # 0 /\ ~(NightTarget(i) /\ cost > g.nightLeft) /\ ~(cost > avail)
    <3>1. q = qty /\ spent = cost
      BY <2>4 DEF cost
    <3> HIDE DEF q, spent
    <3> QED BY <1>2, <1>3, <1>4, <2>4, <3>1
  <2> HIDE DEF q, spent, fit
  <2> QED BY <2>1, <2>2, <2>3, <2>4
<1> HIDE DEF q, fit
<1>8. gate \in Gates /\ gate.reserve >= g.reserve - IF NightTarget(i) THEN spent ELSE 0
  <2> HIDE DEF spent
  <2> QED BY <1>2, <1>7 DEF Gates, AtLeast
<1>9. capital # 0 /\ q > 0 =>
        /\ gate.free >= IF DayTarget(i) THEN g.reserve ELSE 0
        /\ NightTarget(i) => gate.nightLeft >= 0
  <2> HIDE DEF spent
  <2> QED BY <1>2, <1>4, <1>7
<1>10. Admit(g, i, qty).qty = q /\ Admit(g, i, qty).gate = gate
  BY <1>1
<1> HIDE DEF gate
<1>11. gate.free = g.free - spent /\ gate.nightLeft = g.nightLeft - IF NightTarget(i) THEN spent ELSE 0
  BY DEF gate
<1> QED
  BY <1>7, <1>8, <1>9, <1>10, <1>11 DEF cost

TargetPass(g, first, s, bar) ==
  g = [n \in 0 .. Len(Targets[s]) |->
         IF n = 0 THEN first
         ELSE CHOOSE x \in {PlanTarget(p, s, Targets[s][n], bar) : p \in {g[n - 1]}} : TRUE]

Joined(p, s, bar) ==
  LET b == Build(p.gate, s, bar)
  IN  [gate |-> b.gate, spent |-> 0, exits |-> p.exits \cup b.exits, enters |-> p.enters \o b.enters]

SourcePass(g, first, bar) ==
  g = [n \in 0 .. Len(SourceOrder) |->
         IF n = 0 THEN first
         ELSE CHOOSE x \in {Joined(p, SourceOrder[n], bar) : p \in {g[n - 1]}} : TRUE]

\* Through, with the operator of a pass over a source's targets written out.
LEMMA ThroughTargets ==
  ASSUME NEW first, NEW s, NEW bar
  PROVE Through(LAMBDA p, i : PlanTarget(p, s, i, bar), first, Targets[s])
         = (CHOOSE g : TargetPass(g, first, s, bar))[Len(Targets[s])]
BY DEF Through, TargetPass

\* Build is the end of a pass over the targets of its source, cut to the order cap.
LEMMA BuildIs ==
  ASSUME NEW g, NEW s, NEW bar, s \in Known
  PROVE  Build(g, s, bar) = 
     OrderCap((CHOOSE f : TargetPass(f, [gate |-> g, spent |-> Value(HeldBy(s)), exits |-> {}, enters |-> <<>>], s, bar))[Len(Targets[s])])
BY DEF Build, Through, TargetPass

\* PlanAll is the end of a pass over the sources, cut to the order cap.
LEMMA PlanAllIs ==
  ASSUME NEW seen, NEW bar
  PROVE PlanAll(seen, bar) = OrderCap((CHOOSE f : SourcePass(f, [gate |-> NewGate(seen), spent |-> 0, exits |-> {}, enters |-> <<>>], bar))[Len(SourceOrder)])
BY DEF PlanAll, Through, SourcePass, Joined

\* What is left of a purchase is between nothing and all of it.
LEMMA KeepIs ==
  ASSUME NEW e \in Nat, NEW w \in 0 .. 4
  PROVE  Keep(e, w) \in Nat /\ Keep(e, w) <= e /\ Keep(e, 0) = 0
<1>1. e * w \in Nat /\ e * w <= 4 * e
  <2>1. CASE w = 0
    BY <2>1
  <2>2. CASE w = 1
    BY <2>2
  <2>3. CASE w = 2
    BY <2>3
  <2>4. CASE w = 3
    BY <2>4
  <2>5. CASE w = 4
    BY <2>5
  <2> QED BY <2>1, <2>2, <2>3, <2>4, <2>5
<1> DEFINE m == e * w
<1>2. (m + 2) \div 4 \in Nat /\ (m + 2) \div 4 <= e
  <2> HIDE DEF m
  <2>1. m \in Nat /\ m <= 4 * e
    BY <1>1 DEF m
  <2> QED BY <2>1
<1> QED
  BY <1>2 DEF Keep

\* A wish sells no more than there is.
LEMMA ReduceIs ==
  ASSUME NEW i \in Intents, NEW w \in 0 .. 4, lot[i].qty \in Nat, lot[i].entry \in Nat
  PROVE  Reduce(i, w) \in Nat /\ Reduce(i, w) <= lot[i].qty
<1>1. Keep(lot[i].entry, w) \in Nat
  BY KeepIs
<1> QED
  BY <1>1 DEF Reduce

\* The size of an entry is a number, and 0 when the book trades with nothing.
LEMMA SizeIs ==
  ASSUME capital \in Nat, NEW s \in Sources, NEW i \in Intents
  PROVE  Size(s, i) \in Nat /\ (capital = 0 /\ ~Fixed(s) => Size(s, i) = 0)
<1>1. Base(s) \in Nat /\ (capital = 0 /\ ~Fixed(s) => Base(s) = 0)
  BY BaseIs
<1>2. WeightOf(s, i) \in Nat
  <2>1. Book[s].weight \in 0 .. 20 /\ Weight[i] \in 1 .. 20
    BY Books, Constants
  <2>2. \A x \in 0 .. 20 : x \in Nat
    OBVIOUS
  <2>3. \A x \in 1 .. 20 : x \in Nat
    OBVIOUS
  <2> QED BY <2>1, <2>2, <2>3 DEF WeightOf
<1>3. 20 * Price[i] \in Nat \ {0}
  <2>1. Price[i] \in Nat /\ Price[i] > 0
    BY Constants
  <2> QED BY <2>1
<1> DEFINE a == Base(s) * WeightOf(s, i)
           b == 20 * Price[i]
<1>4. a \in Nat /\ (Base(s) = 0 => a = 0)
  BY <1>1, <1>2, TimesIs
<1> HIDE DEF a, b
<1>5. b \in Nat \ {0}
  BY <1>3 DEF b
<1>6. a \div b \in Nat /\ (a = 0 => a \div b = 0)
  BY <1>4, <1>5
<1> DEFINE q == AtMostOf(s, a \div b)
<1>7. q \in Nat /\ (a = 0 => q = 0)
  BY <1>6, Books DEF AtMostOf, AtMost
<1>8. Size(s, i) = q \/ Size(s, i) = 0
  BY DEF Size, a, b
<1> HIDE DEF q
<1> QED
  BY <1>1, <1>4, <1>7, <1>8

\* A step of a plan: a lot of the source is sold in part or whole, an intent that it has no lot
\* of is bought, or nothing is done.
LEMMA PlanTargetIs ==
  ASSUME NEW p \in Passes, NEW s \in Known, NEW i \in Of(s), NEW bar, Readable
  PROVE  LET q == PlanTarget(p, s, i, bar)
             a == Admit(p.gate, i, Size(s, i))
         IN  \/ q = p
             \/ /\ snap[s][i] # None /\ i \in HeldBy(s) /\ Reduce(i, snap[s][i]) \in Nat \ {0}
                /\ q = [p EXCEPT !.exits = @ \cup {[id |-> i, qty |-> Reduce(i, snap[s][i])]}]
             \/ /\ snap[s][i] \notin {None, 0} /\ i \notin HeldBy(s) /\ Enterable(s, i, bar)
                /\ Size(s, i) > 0 /\ Size(s, i) * Price[i] <= Limit(s) - p.spent
                /\ a.qty # 0
                /\ q = [p EXCEPT !.gate = a.gate, !.spent = @ + a.qty * Price[i],
                                 !.enters = Append(@, [id |-> i, qty |-> a.qty, src |-> s])]
<1>1. s \in Sources /\ i \in Intents
  BY Constants DEF Known
<1>2. snap[s][i] = None \/ snap[s][i] \in 0 .. 4
  BY DEF Readable
<1>3. Size(s, i) \in Nat
  BY <1>1, SizeIs DEF Readable
<1>4. Admit(p.gate, i, 0).qty = 0
  <2>1. p.gate \in Gates
    BY DEF Passes
  <2> QED BY <1>1, <2>1, AdmitIs
<1>5. CASE snap[s][i] = None
  BY <1>5 DEF PlanTarget
<1>6. CASE snap[s][i] # None /\ i \in HeldBy(s)
  <2>1. Reduce(i, snap[s][i]) \in Nat
    BY <1>1, <1>2, <1>6, ReduceIs DEF Readable, QtyNat
  <2>2. PlanTarget(p, s, i, bar) = Sell(p, i, Reduce(i, snap[s][i]))
    BY <1>6 DEF PlanTarget
  <2> QED BY <1>6, <2>1, <2>2 DEF Sell
<1>7. CASE snap[s][i] \notin {None, 0} /\ i \notin HeldBy(s) /\ Enterable(s, i, bar)
  <2>1. PlanTarget(p, s, i, bar) = Buy(p, s, i)
    BY <1>7 DEF PlanTarget
  <2> DEFINE fits == Size(s, i) > 0 /\ Size(s, i) * Price[i] <= Limit(s) - p.spent
  <2>2. CASE fits
    BY <1>7, <2>1, <2>2 DEF Buy
  <2>3. CASE ~fits
    BY <1>4, <2>1, <2>3 DEF Buy
  <2> QED BY <2>2, <2>3
<1>8. CASE snap[s][i] # None /\ i \notin HeldBy(s) /\ ~(snap[s][i] # 0 /\ Enterable(s, i, bar))
  BY <1>8 DEF PlanTarget
<1> QED
  BY <1>5, <1>6, <1>7, <1>8

\* An entry that a plan appends keeps its sequence one of entries.
LEMMA EntryAppended ==
  ASSUME NEW q \in EntrySeqs, NEW e \in Entries
  PROVE  Append(q, e) \in EntrySeqs
BY DEF EntrySeqs

\* A step of a plan leads to a plan.
LEMMA PlanTargetType ==
  ASSUME NEW p \in Passes, NEW s \in Known, NEW i \in Of(s), NEW bar, Readable
  PROVE  PlanTarget(p, s, i, bar) \in Passes
<1> DEFINE q == PlanTarget(p, s, i, bar)
           a == Admit(p.gate, i, Size(s, i))
<1>1. s \in Sources /\ i \in Intents
  BY Constants DEF Known
<1>2. CASE q = p
  BY <1>2
<1>3. ASSUME Reduce(i, snap[s][i]) \in Nat \ {0},
             q = [p EXCEPT !.exits = @ \cup {[id |-> i, qty |-> Reduce(i, snap[s][i])]}]
      PROVE  q \in Passes
  <2>1. [id |-> i, qty |-> Reduce(i, snap[s][i])] \in Exits
    BY <1>1, <1>3 DEF Exits
  <2>2. p.exits \cup {[id |-> i, qty |-> Reduce(i, snap[s][i])]} \in ExitSets
    <3>1. p.exits \in SUBSET Exits /\ IsFiniteSet(p.exits)
      BY DEF Passes, ExitSets
    <3> QED BY <2>1, <3>1, FS_AddElement DEF ExitSets
  <2> QED BY <1>3, <2>2 DEF Passes
<1>4. ASSUME q = [p EXCEPT !.gate = a.gate, !.spent = @ + a.qty * Price[i],
                           !.enters = Append(@, [id |-> i, qty |-> a.qty, src |-> s])]
      PROVE  q \in Passes
  <2>1. p.gate \in Gates /\ p.spent \in Int /\ p.enters \in EntrySeqs
    BY DEF Passes
  <2>2. Size(s, i) \in Nat
    BY <1>1, SizeIs DEF Readable
  <2>3. a.qty \in Nat /\ a.gate \in Gates /\ a.qty * Price[i] \in Nat
    BY <1>1, <2>1, <2>2, AdmitIs
  <2>4. Append(p.enters, [id |-> i, qty |-> a.qty, src |-> s]) \in EntrySeqs
    <3>1. [id |-> i, qty |-> a.qty, src |-> s] \in Entries
      BY <1>1, <2>3 DEF Entries
    <3> QED BY <2>1, <3>1, EntryAppended
  <2>5. p.spent + a.qty * Price[i] \in Int
    BY <2>1, <2>3
  <2> HIDE DEF a
  <2> QED BY <1>4, <2>3, <2>4, <2>5 DEF Passes
<1> QED
  BY <1>2, <1>3, <1>4, PlanTargetIs

\* The plan of a source before its first target
Fresh(g, s) == [gate |-> g, spent |-> Value(HeldBy(s)), exits |-> {}, enters |-> <<>>]

\* The pass that a source starts with is a pass.
LEMMA FreshType ==
  ASSUME NEW g \in Gates, NEW s, Readable
  PROVE  Fresh(g, s) \in Passes
<1>1. HeldBy(s) \in SUBSET Intents
  BY DEF HeldBy, Held
<1>2. Value(HeldBy(s)) \in Nat
  BY <1>1, ValueIs DEF Readable
<1>3. <<>> \in EntrySeqs /\ {} \in ExitSets
  BY FS_EmptySet DEF EntrySeqs, ExitSets
<1> QED
  BY <1>2, <1>3 DEF Fresh, Passes

\* The plan of a source goes through its targets one by one.
LEMMA TargetSteps ==
  ASSUME NEW g \in Gates, NEW s \in Known, NEW bar, Readable
  PROVE  \E f : /\ f[0] = Fresh(g, s)
                /\ \A k \in 1 .. Len(Targets[s]) : f[k] = PlanTarget(f[k - 1], s, Targets[s][k], bar)
                /\ \A k \in 0 .. Len(Targets[s]) : f[k] \in Passes
                /\ Build(g, s, bar) = OrderCap(f[Len(Targets[s])])
<1> DEFINE n == Len(Targets[s])
           X == Passes
           first == Fresh(g, s)
           R == [p \in X |-> [k \in 1 .. n |-> PlanTarget(p, s, Targets[s][k], bar)]]
<1>1. s \in Sources /\ n \in Nat /\ \A k \in 1 .. n : Targets[s][k] \in Of(s)
  BY Constants DEF Known
<1>2. \A p \in X : \A k \in 1 .. n : PlanTarget(p, s, Targets[s][k], bar) \in X
  BY <1>1, PlanTargetType
<1>3. R \in [X -> [1 .. n -> X]]
  BY <1>2
<1>4. first \in X
  BY FreshType
<1>5. \A p \in X : \A k \in 1 .. n : R[p][k] = PlanTarget(p, s, Targets[s][k], bar)
  OBVIOUS
<1> HIDE DEF R, X
<1>6a. PICK f : PassOf(f, X, R, first, n)
  <2>1. n \in Nat
    BY <1>1
  <2> HIDE DEF n, first
  <2> QED BY <2>1, <1>3, <1>4, PassExists
<1>6. f \in [0 .. n -> X] /\ f[0] = first /\ \A k \in 1 .. n : f[k] = R[f[k - 1]][k]
  BY <1>6a DEF PassOf
<1>7. \A k \in 1 .. n : f[k] = PlanTarget(f[k - 1], s, Targets[s][k], bar)
  <2> TAKE k \in 1 .. n
  <2>1. k - 1 \in 0 .. n
    BY <1>1
  <2>2. f[k - 1] \in X
    BY <1>6, <2>1
  <2> QED BY <1>5, <1>6, <2>2
<1> DEFINE step(h, k) == CHOOSE x \in {PlanTarget(p, s, Targets[s][k], bar) : p \in {h[k - 1]}} : TRUE
<1>8. \A h : \A k \in 1 .. n : step(h, k) = PlanTarget(h[k - 1], s, Targets[s][k], bar)
  OBVIOUS
<1>9. TargetPass(f, first, s, bar)
  <2>1. \A k \in 0 .. n : f[k] = IF k = 0 THEN first ELSE step(f, k)
    <3> TAKE k \in 0 .. n
    <3>1. CASE k = 0
      BY <1>6, <3>1
    <3>2. CASE k # 0
      <4>1. k \in 1 .. n
        BY <1>1, <3>2
      <4> QED BY <1>7, <1>8, <3>2, <4>1
    <3> QED BY <3>1, <3>2
  <2>2. f = [k \in 0 .. n |-> IF k = 0 THEN first ELSE step(f, k)]
    <3> HIDE DEF step, n
    <3> QED BY <1>6, <2>1
  <2> QED BY <2>2 DEF TargetPass
<1> DEFINE h == CHOOSE c : TargetPass(c, first, s, bar)
<1>10. TargetPass(h, first, s, bar)
  BY <1>9
<1>11. Build(g, s, bar) = OrderCap(h[n])
  BY BuildIs DEF Fresh
<1> HIDE DEF h
<1>12. h = [k \in 0 .. n |-> IF k = 0 THEN first ELSE step(h, k)]
  BY <1>10 DEF TargetPass
<1>13. h[0] = first
  <2>1. 0 \in 0 .. n
    BY <1>1
  <2> HIDE DEF step, first, n
  <2> QED BY <1>12, <2>1
<1>14. \A k \in 1 .. n : h[k] = PlanTarget(h[k - 1], s, Targets[s][k], bar)
  <2> TAKE k \in 1 .. n
  <2>1. k \in 0 .. n /\ k # 0
    BY <1>1
  <2>2. h[k] = step(h, k)
    <3> HIDE DEF step, first, n
    <3> QED BY <1>12, <2>1
  <2> QED BY <1>8, <2>2
<1>15. \A k \in 0 .. n : h[k] \in X
  <2> TAKE k \in 0 .. n
  <2>1. \A m \in 1 .. k : m > 0 /\ h[m - 1] \in X => h[m] \in X
    <3> TAKE m \in 1 .. k
    <3>1. m \in 1 .. n
      BY <1>1
    <3> QED BY <1>2, <1>14, <3>1 DEF X
  <2>2. k \in Nat /\ 0 \in 0 .. k /\ h[0] \in X
    BY <1>1, <1>4, <1>13
  <2> HIDE DEF n
  <2> QED BY <2>1, <2>2, PassKeeps
<1> QED
  BY <1>11, <1>13, <1>14, <1>15 DEF X

\* The orders that fit the cap of a tick: every exit, and the first entries.
LEMMA OrderCapIs ==
  ASSUME NEW p \in Passes
  PROVE  /\ OrderCap(p) \in Passes /\ OrderCap(p).exits = p.exits /\ OrderCap(p).gate = p.gate
         /\ \E m \in 0 .. Len(p.enters) : OrderCap(p).enters = SubSeq(p.enters, 1, m)
<1>1. p.enters \in Seq(Entries) /\ Len(p.enters) \in Nat
  BY DEF Passes, EntrySeqs
<1>2. CASE MaxOrders = 0
  <2>1. OrderCap(p) = p
    BY <1>2 DEF OrderCap
  <2>2. p.enters = SubSeq(p.enters, 1, Len(p.enters)) /\ Len(p.enters) \in 0 .. Len(p.enters)
    BY <1>1
  <2> QED BY <2>1, <2>2
<1>3. CASE MaxOrders # 0
  <2> DEFINE c == MaxOrders - Cardinality(p.exits)
             m == AtMost(Len(p.enters), AtLeast(0, c))
  <2>1. OrderCap(p) = [p EXCEPT !.enters = SubSeq(@, 1, m)]
    BY <1>3 DEF OrderCap
  <2>2. m \in 0 .. Len(p.enters)
    <3>1. Cardinality(p.exits) \in Nat
      BY FS_CardinalityType DEF Passes, ExitSets
    <3>2. c \in Int
      BY <3>1, Books
    <3> HIDE DEF c
    <3> QED BY <3>2, <1>1 DEF AtMost, AtLeast
  <2> HIDE DEF m
  <2>3. SubSeq(p.enters, 1, m) \in EntrySeqs
    BY <1>1, <2>2 DEF EntrySeqs
  <2>4. OrderCap(p).exits = p.exits /\ OrderCap(p).gate = p.gate /\ OrderCap(p).enters = SubSeq(p.enters, 1, m)
    BY <2>1 DEF Passes
  <2>5. OrderCap(p) \in Passes
    BY <2>1, <2>3 DEF Passes
  <2> QED BY <2>2, <2>4, <2>5
<1> QED
  BY <1>2, <1>3

\* The entries of a sequence
In(q) == {q[n] : n \in 1 .. Len(q)}

\* A sequence of entries holds entries.
LEMMA EntrySeqIs ==
  ASSUME NEW q \in EntrySeqs
  PROVE  Len(q) \in Nat /\ \A n \in 1 .. Len(q) : q[n] \in Entries
BY DEF EntrySeqs

\* What is in a sequence after one more entry.
LEMMA AppendedIn ==
  ASSUME NEW q \in EntrySeqs, NEW e \in Entries
  PROVE  In(Append(q, e)) = In(q) \cup {e}
<1>1. q \in Seq(Entries)
  BY DEF EntrySeqs
<1>2. /\ Len(q) \in Nat /\ Len(Append(q, e)) = Len(q) + 1 /\ Append(q, e)[Len(q) + 1] = e
      /\ \A n \in 1 .. Len(q) : Append(q, e)[n] = q[n]
  BY <1>1
<1>3. In(Append(q, e)) \subseteq In(q) \cup {e}
  <2> SUFFICES ASSUME NEW n \in 1 .. Len(q) + 1 PROVE Append(q, e)[n] \in In(q) \cup {e}
    BY <1>2 DEF In
  <2>1. n = Len(q) + 1 \/ n \in 1 .. Len(q)
    BY <1>2
  <2> QED BY <1>2, <2>1 DEF In
<1>4. In(q) \cup {e} \subseteq In(Append(q, e))
  <2>1. \A n \in 1 .. Len(q) : n \in 1 .. Len(q) + 1
    BY <1>2
  <2>2. Len(q) + 1 \in 1 .. Len(q) + 1
    BY <1>2
  <2> QED BY <1>2, <2>1, <2>2 DEF In
<1> QED
  BY <1>3, <1>4

\* What is in two sequences put one after the other.
LEMMA JoinedIn ==
  ASSUME NEW q \in EntrySeqs, NEW r \in EntrySeqs
  PROVE  q \o r \in EntrySeqs /\ In(q \o r) = In(q) \cup In(r)
<1>1. q \in Seq(Entries) /\ r \in Seq(Entries)
  BY DEF EntrySeqs
<1>2. /\ Len(q) \in Nat /\ Len(r) \in Nat /\ Len(q \o r) = Len(q) + Len(r)
      /\ \A n \in 1 .. Len(q) + Len(r) : (q \o r)[n] = IF n <= Len(q) THEN q[n] ELSE r[n - Len(q)]
  BY <1>1
<1>3. In(q \o r) \subseteq In(q) \cup In(r)
  <2> SUFFICES ASSUME NEW n \in 1 .. Len(q) + Len(r) PROVE (q \o r)[n] \in In(q) \cup In(r)
    BY <1>2 DEF In
  <2>1. n \in 1 .. Len(q) \/ (~(n <= Len(q)) /\ n - Len(q) \in 1 .. Len(r))
    BY <1>2
  <2> QED BY <1>2, <2>1 DEF In
<1>4. In(q) \cup In(r) \subseteq In(q \o r)
  <2>1. \A n \in 1 .. Len(q) : n \in 1 .. Len(q) + Len(r) /\ q[n] = (q \o r)[n]
    BY <1>2
  <2>2. \A n \in 1 .. Len(r) : n + Len(q) \in 1 .. Len(q) + Len(r) /\ r[n] = (q \o r)[n + Len(q)]
    BY <1>2
  <2> QED BY <1>2, <2>1, <2>2 DEF In
<1>5. q \o r \in EntrySeqs
  BY <1>1 DEF EntrySeqs
<1> QED
  BY <1>3, <1>4, <1>5

\* A sequence cut short holds nothing new.
LEMMA PrefixIn ==
  ASSUME NEW q \in EntrySeqs, NEW m \in 0 .. Len(q)
  PROVE  In(SubSeq(q, 1, m)) \subseteq In(q)
<1>1. q \in Seq(Entries)
  BY DEF EntrySeqs
<1>2. /\ Len(q) \in Nat /\ Len(SubSeq(q, 1, m)) = m
      /\ \A n \in 1 .. m : SubSeq(q, 1, m)[n] = q[n] /\ n \in 1 .. Len(q)
  BY <1>1
<1> QED
  BY <1>2 DEF In

-----------------------------------------------------------------------------
(* What the orders of a plan are.                                          *)

\* A snapshot asks that shares of a lot of its source be sold
Asks(s, i) == i \in Of(s) /\ i \in HeldBy(s) /\ snap[s][i] # None /\ Reduce(i, snap[s][i]) \in Nat \ {0}

SoundExit(e) == \E s \in Known : Asks(s, e.id) /\ e.qty = Reduce(e.id, snap[s][e.id])
SoundEntry(e, bar) ==
  /\ e.src \in Known /\ e.id \in Of(e.src) /\ snap[e.src][e.id] \notin {None, 0}
  /\ e.id \notin HeldBy(e.src) /\ Enterable(e.src, e.id, bar) /\ e.qty \in Nat \ {0}
  /\ capital = 0 => Fixed(e.src)
Sound(bar) == {p \in Passes : /\ \A e \in p.exits : SoundExit(e)
                              /\ \A e \in In(p.enters) : SoundEntry(e, bar)}

\* A pass is sound if each of its exits and entries is.
LEMMA SoundIs ==
  ASSUME NEW bar, NEW p
  PROVE  p \in Sound(bar) <=> /\ p \in Passes
                              /\ \A e \in p.exits : SoundExit(e)
                              /\ \A e \in In(p.enters) : SoundEntry(e, bar)
BY DEF Sound

\* reconcile of one target keeps a pass sound: it exits what is held and enters what may be entered.
LEMMA PlanTargetSound ==
  ASSUME NEW bar, NEW p \in Sound(bar), NEW s \in Known, NEW i \in Of(s), Readable
  PROVE  PlanTarget(p, s, i, bar) \in Sound(bar)
<1> DEFINE q == PlanTarget(p, s, i, bar)
           a == Admit(p.gate, i, Size(s, i))
<1>1. s \in Sources /\ i \in Intents
  BY Constants DEF Known
<1>2. p \in Passes /\ (\A e \in p.exits : SoundExit(e)) /\ \A e \in In(p.enters) : SoundEntry(e, bar)
  BY SoundIs
<1>3. q \in Passes
  BY <1>2, PlanTargetType
<1>4. CASE q = p
  BY <1>4
<1>5. ASSUME snap[s][i] # None, i \in HeldBy(s), Reduce(i, snap[s][i]) \in Nat \ {0},
             q = [p EXCEPT !.exits = @ \cup {[id |-> i, qty |-> Reduce(i, snap[s][i])]}]
      PROVE  q \in Sound(bar)
  <2> DEFINE e == [id |-> i, qty |-> Reduce(i, snap[s][i])]
  <2>1. SoundExit(e)
    BY <1>5 DEF SoundExit, Asks
  <2>2. q.exits = p.exits \cup {e} /\ q.enters = p.enters
    BY <1>2, <1>5 DEF Passes
  <2> HIDE DEF q, e
  <2> QED BY <1>2, <1>3, <2>1, <2>2, SoundIs DEF q
<1>6. ASSUME snap[s][i] \notin {None, 0}, i \notin HeldBy(s), Enterable(s, i, bar), Size(s, i) > 0,
             a.qty # 0,
             q = [p EXCEPT !.gate = a.gate, !.spent = @ + a.qty * Price[i],
                           !.enters = Append(@, [id |-> i, qty |-> a.qty, src |-> s])]
      PROVE  q \in Sound(bar)
  <2> DEFINE e == [id |-> i, qty |-> a.qty, src |-> s]
  <2>1. p.gate \in Gates /\ p.enters \in EntrySeqs
    BY <1>2 DEF Passes
  <2>2. Size(s, i) \in Nat /\ (capital = 0 /\ ~Fixed(s) => Size(s, i) = 0)
    BY <1>1, SizeIs DEF Readable
  <2>3. a.qty \in Nat
    BY <1>1, <2>1, <2>2, AdmitIs
  <2>4. capital = 0 => Fixed(s)
    BY <1>6, <2>2
  <2>5. e.id = i /\ e.qty = a.qty /\ e.src = s /\ e \in Entries
    BY <1>1, <2>3 DEF Entries
  <2>6. q.exits = p.exits /\ q.enters = Append(p.enters, e)
    BY <1>2, <1>6 DEF Passes
  <2> HIDE DEF q, e, a
  <2>7. SoundEntry(e, bar)
    BY <1>6, <2>3, <2>4, <2>5 DEF SoundEntry
  <2>8. In(q.enters) = In(p.enters) \cup {e}
    BY <2>1, <2>5, <2>6, AppendedIn
  <2> QED BY <1>2, <1>3, <2>6, <2>7, <2>8, SoundIs DEF q
<1>7. \/ q = p
      \/ /\ snap[s][i] # None /\ i \in HeldBy(s) /\ Reduce(i, snap[s][i]) \in Nat \ {0}
         /\ q = [p EXCEPT !.exits = @ \cup {[id |-> i, qty |-> Reduce(i, snap[s][i])]}]
      \/ /\ snap[s][i] \notin {None, 0} /\ i \notin HeldBy(s) /\ Enterable(s, i, bar)
         /\ Size(s, i) > 0 /\ Size(s, i) * Price[i] <= Limit(s) - p.spent
         /\ a.qty # 0
         /\ q = [p EXCEPT !.gate = a.gate, !.spent = @ + a.qty * Price[i],
                          !.enters = Append(@, [id |-> i, qty |-> a.qty, src |-> s])]
  BY <1>2, PlanTargetIs, Zenon
<1> HIDE DEF q, a
<1> QED
  BY <1>4, <1>5, <1>6, <1>7 DEF q

\* The cap of a tick's orders leaves a sound plan one.
LEMMA OrderCapSound ==
  ASSUME NEW bar, NEW p \in Sound(bar)
  PROVE  OrderCap(p) \in Sound(bar)
<1> DEFINE c == OrderCap(p)
<1>1. p \in Passes /\ (\A e \in p.exits : SoundExit(e)) /\ \A e \in In(p.enters) : SoundEntry(e, bar)
  BY SoundIs
<1>2. /\ c \in Passes /\ c.exits = p.exits
      /\ \E m \in 0 .. Len(p.enters) : c.enters = SubSeq(p.enters, 1, m)
  BY <1>1, OrderCapIs
<1>3. p.enters \in EntrySeqs
  BY <1>1 DEF Passes
<1>4. In(c.enters) \subseteq In(p.enters)
  BY <1>2, <1>3, PrefixIn
<1> HIDE DEF c
<1>5. c \in Sound(bar)
  BY <1>1, <1>2, <1>4, SoundIs
<1> QED
  BY <1>5 DEF c

\* The plan of a source is sound.
LEMMA BuildSound ==
  ASSUME NEW g \in Gates, NEW s \in Sources, NEW bar, Readable
  PROVE  Build(g, s, bar) \in Sound(bar)
<1>1. Fresh(g, s) \in Sound(bar)
  <2>1. Fresh(g, s) \in Passes
    BY FreshType
  <2>2. Fresh(g, s).exits = {} /\ Fresh(g, s).enters = <<>>
    BY DEF Fresh
  <2>3. In(<<>>) = {}
    BY DEF In
  <2> QED BY <2>1, <2>2, <2>3, SoundIs
<1>2. CASE s \notin Known
  BY <1>1, <1>2 DEF Build, Fresh
<1>3. CASE s \in Known
  <2> DEFINE n == Len(Targets[s])
  <2>1. PICK f : /\ f[0] = Fresh(g, s)
                 /\ \A k \in 1 .. n : f[k] = PlanTarget(f[k - 1], s, Targets[s][k], bar)
                 /\ Build(g, s, bar) = OrderCap(f[n])
    BY <1>3, TargetSteps
  <2>2. n \in Nat /\ \A k \in 1 .. n : Targets[s][k] \in Of(s)
    BY Constants
  <2>3. \A k \in 1 .. n : k > 0 /\ f[k - 1] \in Sound(bar) => f[k] \in Sound(bar)
    BY <1>3, <2>1, <2>2, PlanTargetSound
  <2>4. 0 \in 0 .. n /\ f[0] \in Sound(bar)
    BY <1>1, <2>1, <2>2
  <2> HIDE DEF n
  <2>5. f[n] \in Sound(bar)
    BY <2>2, <2>3, <2>4, PassKeeps
  <2> QED BY <2>1, <2>5, OrderCapSound
<1> QED
  BY <1>2, <1>3

\* What the plans of the sources are joined to
Begun(seen) == [gate |-> NewGate(seen), spent |-> 0, exits |-> {}, enters |-> <<>>]

\* What planLocked makes of the plan of one more source.
LEMMA JoinedIs ==
  ASSUME NEW p \in Passes, NEW s \in Sources, NEW bar, Readable
  PROVE  LET b == Build(p.gate, s, bar) IN
         /\ b \in Passes /\ Joined(p, s, bar) \in Passes
         /\ Joined(p, s, bar).gate = b.gate /\ Joined(p, s, bar).exits = p.exits \cup b.exits
         /\ Joined(p, s, bar).enters = p.enters \o b.enters
<1> DEFINE b == Build(p.gate, s, bar)
<1>1. p.gate \in Gates /\ p.exits \in ExitSets /\ p.enters \in EntrySeqs
  BY DEF Passes
<1>2. b \in Passes
  BY <1>1, BuildSound, SoundIs
<1>3. Joined(p, s, bar) = [gate |-> b.gate, spent |-> 0, exits |-> p.exits \cup b.exits,
                           enters |-> p.enters \o b.enters]
  BY DEF Joined
<1> HIDE DEF b
<1>4. b.gate \in Gates /\ b.exits \in ExitSets /\ b.enters \in EntrySeqs
  BY <1>2 DEF Passes
<1>5. p.exits \cup b.exits \in ExitSets
  <2>1. IsFiniteSet(p.exits) /\ IsFiniteSet(b.exits) /\ p.exits \in SUBSET Exits /\ b.exits \in SUBSET Exits
    BY <1>1, <1>4 DEF ExitSets
  <2> QED BY <2>1, FS_Union DEF ExitSets
<1>6. p.enters \o b.enters \in EntrySeqs
  BY <1>1, <1>4, JoinedIn
<1>7. Joined(p, s, bar) \in Passes
  BY <1>3, <1>4, <1>5, <1>6 DEF Passes
<1>8. /\ Joined(p, s, bar).gate = b.gate /\ Joined(p, s, bar).exits = p.exits \cup b.exits
      /\ Joined(p, s, bar).enters = p.enters \o b.enters
  <2> DEFINE x == p.enters \o b.enters
  <2>1. Joined(p, s, bar) = [gate |-> b.gate, spent |-> 0, exits |-> p.exits \cup b.exits, enters |-> x]
    BY <1>3
  <2> HIDE DEF x
  <2>2. /\ Joined(p, s, bar).gate = b.gate /\ Joined(p, s, bar).exits = p.exits \cup b.exits
        /\ Joined(p, s, bar).enters = x
    BY <2>1
  <2> QED BY <2>2 DEF x
<1> QED
  BY <1>2, <1>7, <1>8 DEF b

\* The plans of the sources are joined one by one.
LEMMA SourceSteps ==
  ASSUME NEW seen, \A s \in NightBooks : seen[s] \in Nat, NEW bar, Readable
  PROVE  \E f : /\ f[0] = Begun(seen)
                /\ \A k \in 1 .. Len(SourceOrder) : f[k] = Joined(f[k - 1], SourceOrder[k], bar)
                /\ \A k \in 0 .. Len(SourceOrder) : f[k] \in Passes
                /\ PlanAll(seen, bar) = OrderCap(f[Len(SourceOrder)])
<1> DEFINE n == Len(SourceOrder)
           X == Passes
           first == Begun(seen)
           R == [p \in X |-> [k \in 1 .. n |-> Joined(p, SourceOrder[k], bar)]]
<1>1. n \in Nat /\ \A k \in 1 .. n : SourceOrder[k] \in Sources
  BY Constants
<1>2. \A p \in X : \A k \in 1 .. n : Joined(p, SourceOrder[k], bar) \in X
  BY <1>1, JoinedIs
<1>3. R \in [X -> [1 .. n -> X]]
  BY <1>2
<1>4. first \in X
  <2>1. NewGate(seen) \in Gates
    BY NewGateIs DEF Readable
  <2>2. <<>> \in EntrySeqs /\ {} \in ExitSets
    BY FS_EmptySet DEF EntrySeqs, ExitSets
  <2> QED BY <2>1, <2>2 DEF Begun, Passes
<1>5. \A p \in X : \A k \in 1 .. n : R[p][k] = Joined(p, SourceOrder[k], bar)
  OBVIOUS
<1> HIDE DEF R, X
<1>6. PICK f : PassOf(f, X, R, first, n)
  <2>1. n \in Nat
    BY <1>1
  <2> HIDE DEF n, first
  <2> QED BY <2>1, <1>3, <1>4, PassExists
<1>7. f \in [0 .. n -> X] /\ f[0] = first /\ \A k \in 1 .. n : f[k] = R[f[k - 1]][k]
  BY <1>6 DEF PassOf
<1>8. \A k \in 1 .. n : f[k] = Joined(f[k - 1], SourceOrder[k], bar)
  <2> TAKE k \in 1 .. n
  <2>1. k - 1 \in 0 .. n
    BY <1>1
  <2>2. f[k - 1] \in X
    BY <1>7, <2>1
  <2> QED BY <1>5, <1>7, <2>2
<1> DEFINE step(h, k) == CHOOSE x \in {Joined(p, SourceOrder[k], bar) : p \in {h[k - 1]}} : TRUE
<1>9. \A h : \A k \in 1 .. n : step(h, k) = Joined(h[k - 1], SourceOrder[k], bar)
  OBVIOUS
<1>10. SourcePass(f, first, bar)
  <2>1. \A k \in 0 .. n : f[k] = IF k = 0 THEN first ELSE step(f, k)
    <3> TAKE k \in 0 .. n
    <3>1. CASE k = 0
      BY <1>7, <3>1
    <3>2. CASE k # 0
      <4>1. k \in 1 .. n
        BY <1>1, <3>2
      <4> QED BY <1>8, <1>9, <3>2, <4>1
    <3> QED BY <3>1, <3>2
  <2>2. f = [k \in 0 .. n |-> IF k = 0 THEN first ELSE step(f, k)]
    <3> HIDE DEF step, n
    <3> QED BY <1>7, <2>1
  <2> QED BY <2>2 DEF SourcePass
<1> DEFINE h == CHOOSE c : SourcePass(c, first, bar)
<1>11. SourcePass(h, first, bar)
  BY <1>10
<1>12. PlanAll(seen, bar) = OrderCap(h[n])
  BY PlanAllIs DEF Begun
<1> HIDE DEF h
<1>13. h = [k \in 0 .. n |-> IF k = 0 THEN first ELSE step(h, k)]
  BY <1>11 DEF SourcePass
<1>14. h[0] = first
  <2>1. 0 \in 0 .. n
    BY <1>1
  <2> HIDE DEF step, first, n
  <2> QED BY <1>13, <2>1
<1>15. \A k \in 1 .. n : h[k] = Joined(h[k - 1], SourceOrder[k], bar)
  <2> TAKE k \in 1 .. n
  <2>1. k \in 0 .. n /\ k # 0
    BY <1>1
  <2>2. h[k] = step(h, k)
    <3> HIDE DEF step, first, n
    <3> QED BY <1>13, <2>1
  <2> QED BY <1>9, <2>2
<1>16. \A k \in 0 .. n : h[k] \in X
  <2> TAKE k \in 0 .. n
  <2>1. \A m \in 1 .. k : m > 0 /\ h[m - 1] \in X => h[m] \in X
    <3> TAKE m \in 1 .. k
    <3>1. m \in 1 .. n
      BY <1>1
    <3> QED BY <1>2, <1>15, <3>1 DEF X
  <2>2. k \in Nat /\ 0 \in 0 .. k /\ h[0] \in X
    BY <1>1, <1>4, <1>14
  <2> HIDE DEF n
  <2> QED BY <2>1, <2>2, PassKeeps
<1> QED
  BY <1>12, <1>14, <1>15, <1>16 DEF X

\* The plan of a tick is sound.
LEMMA PlanAllSound ==
  ASSUME NEW seen, \A s \in NightBooks : seen[s] \in Nat, NEW bar, Readable
  PROVE  PlanAll(seen, bar) \in Sound(bar)
<1> DEFINE n == Len(SourceOrder)
<1>1. PICK f : /\ f[0] = Begun(seen)
               /\ \A k \in 1 .. n : f[k] = Joined(f[k - 1], SourceOrder[k], bar)
               /\ \A k \in 0 .. n : f[k] \in Passes
               /\ PlanAll(seen, bar) = OrderCap(f[n])
  BY SourceSteps
<1>2. n \in Nat /\ \A k \in 1 .. n : SourceOrder[k] \in Sources
  BY Constants
<1>3. 0 \in 0 .. n /\ f[0] \in Sound(bar)
  <2>1. f[0].exits = {} /\ f[0].enters = <<>> /\ f[0] \in Passes /\ 0 \in 0 .. n
    BY <1>1, <1>2 DEF Begun
  <2>2. In(<<>>) = {}
    BY DEF In
  <2> HIDE DEF n
  <2> QED BY <2>1, <2>2, SoundIs
<1>4. \A k \in 1 .. n : k > 0 /\ f[k - 1] \in Sound(bar) => f[k] \in Sound(bar)
  <2> SUFFICES ASSUME NEW k \in 1 .. n, f[k - 1] \in Sound(bar) PROVE f[k] \in Sound(bar)
    OBVIOUS
  <2> DEFINE p == f[k - 1]
             s == SourceOrder[k]
             b == Build(p.gate, s, bar)
             j == Joined(p, s, bar)
  <2>1. p \in Passes /\ (\A e \in p.exits : SoundExit(e)) /\ \A e \in In(p.enters) : SoundEntry(e, bar)
    BY SoundIs
  <2>2. s \in Sources
    BY <1>2
  <2>3. f[k] = j
    BY <1>1
  <2> HIDE DEF p, s
  <2>4. p.gate \in Gates /\ p.enters \in EntrySeqs
    BY <2>1 DEF Passes
  <2>5. b \in Sound(bar)
    BY <2>2, <2>4, BuildSound
  <2>6. /\ b \in Passes /\ j \in Passes /\ j.exits = p.exits \cup b.exits /\ j.enters = p.enters \o b.enters
    BY <2>1, <2>2, JoinedIs
  <2> HIDE DEF j, b
  <2>7. b.enters \in EntrySeqs
    BY <2>6 DEF Passes
  <2>8. In(j.enters) = In(p.enters) \cup In(b.enters)
    BY <2>4, <2>6, <2>7, JoinedIn
  <2>9. (\A e \in b.exits : SoundExit(e)) /\ \A e \in In(b.enters) : SoundEntry(e, bar)
    BY <2>5, SoundIs
  <2>10. j \in Sound(bar)
    BY <2>1, <2>6, <2>8, <2>9, SoundIs
  <2> QED BY <2>3, <2>10
<1> HIDE DEF n
<1>5. f[n] \in Sound(bar)
  BY <1>2, <1>3, <1>4, PassKeeps
<1> QED
  BY <1>1, <1>5, OrderCapSound

\* The least of some numbers is one of them.
LEMMA MinIs ==
  ASSUME NEW S \in SUBSET Nat, S # {}
  PROVE  Min(S) \in S /\ \A x \in S : Min(S) <= x
<1>1. PICK m \in S : \A k \in S : <<k, m>> \notin OpToRel(<, Nat)
  BY NatLessThanWellFounded, WFMin
<1>2. \A k \in S : ~(k < m)
  BY <1>1 DEF OpToRel
<1>3. \E y \in S : \A x \in S : y <= x
  <2>1. m \in Nat /\ \A x \in S : x \in Nat
    OBVIOUS
  <2>2. \A x \in S : m <= x
    BY <1>2, <2>1
  <2> QED BY <2>2
<1> QED
  BY <1>3 DEF Min

-----------------------------------------------------------------------------
(* Types.                                                                  *)

Kids == {s.kid : s \in Sources} \cup {""}
Scopes == {s.scope : s \in Sources} \cup {""}
Lots == [qty : Nat, entry : Nat, kid : Kids, scope : Scopes,
         stop : {0, 1}, te : {0, 1}, tp : {None, 0, 1}]
Numbers == [stop : {0, 1}, te : {0, 1}, tp : {None, 0, 1}]

\* TypeOK, and of what it leaves open: what a lot and its row are made of, and that nothing
\* is recorded of a lot that is not there
SnapOK ==
  /\ snap = [s \in Sources |-> snap[s]]
  /\ \A s \in Sources : s \in Known => /\ DOMAIN snap[s] = Of(s)
                                       /\ \A i \in Of(s) : snap[s][i] \in Wants[i]
LotOK ==
  /\ lot \in [Intents -> Lots] /\ row \in [Intents -> Numbers]
  /\ \A i \in Intents : /\ lot[i].qty <= AtLeast(lot[i].entry, LegacyQty)
                        /\ lot[i].qty = 0 => lot[i] = NoLot /\ row[i] = NoNumbers
MeansOK ==
  /\ capital \in Capitals \cup {0} /\ saved \in Capitals \cup {0}
  /\ day \in 0 .. MaxDay /\ sharesOf \in 0 .. day
  /\ lastW \in [NightBooks -> 0 .. 20]
HistoryOK ==
  /\ number \in [Intents -> {0, 1}] /\ terminal \subseteq Intents
  /\ bought \in [Intents -> 0 .. 2] /\ keeps \in [Intents -> Nat]
PInv == SnapOK /\ LotOK /\ MeansOK /\ HistoryOK

\* The parts of a lot, of its row and of its numbers.
LEMMA LotIs ==
  ASSUME PInv, NEW i \in Intents
  PROVE  /\ lot[i] \in Lots /\ lot[i].qty \in Nat /\ lot[i].entry \in Nat
         /\ lot[i].kid \in Kids /\ lot[i].scope \in Scopes
         /\ lot[i].stop \in {0, 1} /\ lot[i].te \in {0, 1} /\ lot[i].tp \in {None, 0, 1}
         /\ row[i] \in Numbers /\ row[i].stop \in {0, 1} /\ row[i].te \in {0, 1} /\ row[i].tp \in {None, 0, 1}
         /\ number[i] \in {0, 1}
<1>1. lot[i] \in Lots /\ row[i] \in Numbers /\ number[i] \in {0, 1}
  BY DEF PInv, LotOK, HistoryOK
<1> QED
  BY <1>1 DEF Lots, Numbers

\* The lots can be summed.
LEMMA ReadableIs ==
  ASSUME PInv
  PROVE  Readable /\ Value(Held) \in Nat
<1>1. capital \in Nat
  BY Books DEF PInv, MeansOK
<1>2. QtyNat /\ \A i \in Intents : lot[i].entry \in Nat
  BY LotIs DEF QtyNat
<1>3. \A s \in Known : \A i \in Of(s) : snap[s][i] = None \/ snap[s][i] \in 0 .. 4
  <2> SUFFICES ASSUME NEW s \in Known, NEW i \in Of(s) PROVE snap[s][i] = None \/ snap[s][i] \in 0 .. 4
    OBVIOUS
  <2>1. s \in Sources
    BY DEF Known
  <2>2. i \in Intents
    BY <2>1, Constants
  <2>3. snap[s][i] \in Wants[i]
    BY <2>1 DEF PInv, SnapOK
  <2>4. Wants[i] \subseteq (0 .. 4) \cup {None}
    BY <2>2, PlanAssumption, Zenon
  <2> QED BY <2>3, <2>4
<1>4. Held \in SUBSET Intents
  BY DEF Held
<1> QED
  BY <1>1, <1>2, <1>3, <1>4, ValueIs DEF Readable

\* The weight a source was last seen to ask for is one.
LEMMA SeenIs ==
  ASSUME PInv
  PROVE  Seen \in [NightBooks -> 0 .. 20] /\ \A s \in NightBooks : Seen[s] \in Nat
<1> DEFINE open(s) == IF s \in Known
                      THEN {n \in 1 .. Len(Targets[s]) : snap[s][Targets[s][n]] \notin {None, 0}}
                      ELSE {}
           w(s) == IF open(s) = {} \/ capital = 0 THEN lastW[s] ELSE Weight[Targets[s][Max(open(s))]]
<1>1. Seen = [s \in NightBooks |-> w(s)]
  BY DEF Seen
<1>2. \A s \in NightBooks : w(s) \in 0 .. 20
  <2> SUFFICES ASSUME NEW s \in NightBooks PROVE w(s) \in 0 .. 20
    OBVIOUS
  <2>1. lastW[s] \in 0 .. 20
    BY DEF PInv, MeansOK
  <2>2. ASSUME open(s) # {} PROVE Weight[Targets[s][Max(open(s))]] \in 0 .. 20
    <3>1. s \in Sources
      BY Constants
    <3>2. Len(Targets[s]) \in Nat
      BY <3>1, Constants
    <3> DEFINE o == open(s)
               len == Len(Targets[s])
    <3>3. o \in SUBSET (1 .. len)
      OBVIOUS
    <3> HIDE DEF open
    <3>4. o \in SUBSET Nat /\ o # {} /\ \A x \in o : x <= len
      <4> HIDE DEF o, len
      <4>1. len \in Nat
        BY <3>2 DEF len
      <4>2. o # {}
        BY <2>2 DEF o
      <4> QED BY <3>3, <4>1, <4>2
    <3>5. Max(o) \in o
      <4>1. len \in Nat
        BY <3>2
      <4> HIDE DEF o, len
      <4> QED BY <3>4, <4>1, MaxIs
    <3>6. Max(o) \in 1 .. len
      BY <3>3, <3>5
    <3>7. Targets[s][Max(o)] \in Intents
      BY <3>1, <3>6, Constants
    <3>8. Weight[Targets[s][Max(o)]] \in 1 .. 20
      BY <3>7, Constants
    <3>9. \A x \in 1 .. 20 : x \in 0 .. 20
      OBVIOUS
    <3> QED BY <3>8, <3>9
  <2> HIDE DEF open
  <2> QED BY <2>1, <2>2
<1> HIDE DEF w
<1>3. Seen \in [NightBooks -> 0 .. 20]
  BY <1>1, <1>2
<1> QED
  BY <1>3

-----------------------------------------------------------------------------
(* What a tick does to an intent.                                          *)

\* A lot belongs to one source at most.
LEMMA OneOwner ==
  ASSUME NEW s \in Known, NEW t \in Known, NEW i, i \in HeldBy(s), i \in HeldBy(t)
  PROVE  s = t
<1>1. Owns(s, i) /\ Owns(t, i) /\ s \in Sources /\ t \in Sources
  BY DEF HeldBy, Known
<1>2. s.kid # "" /\ t.kid # "" /\ (s.kid = t.kid /\ s.scope = t.scope => s = t)
  BY <1>1, Constants
<1>3. lot[i].scope = s.scope /\ lot[i].scope = t.scope
  BY <1>1 DEF Owns
<1>4. CASE lot[i].kid = ""
  <2>1. {b \in Known : b.scope = s.scope} = {s}
    BY <1>1, <1>2, <1>4 DEF Owns
  <2>2. t \in {b \in Known : b.scope = s.scope}
    BY <1>3
  <2> QED BY <2>1, <2>2
<1>5. CASE lot[i].kid # ""
  <2>1. lot[i].kid = s.kid /\ lot[i].kid = t.kid
    BY <1>1, <1>5 DEF Owns
  <2> QED BY <1>2, <1>3, <2>1
<1> QED
  BY <1>4, <1>5

\* The shares of an intent that a plan sells
ToSell(exits, i) == SumFunction([e \in {x \in exits : x.id = i} |-> e.qty])

\* The sum over one element.
LEMMA SumOfOne ==
  ASSUME NEW f, NEW x, f = [y \in {x} |-> f[y]], f[x] \in Int
  PROVE  SumFunction(f) = f[x]
<1>1. IsFiniteSet({x}) /\ x \in {x} /\ \A y \in {x} : f[y] \in Int
  BY FS_Singleton
<1>2. SumFunctionOnSet(f, {x}) = f[x] + SumFunctionOnSet(f, {x} \ {x})
  BY <1>1, SumTake
<1>3. {x} \ {x} = {}
  OBVIOUS
<1>4. SumFunctionOnSet(f, {}) = 0
  BY SumEmpty
<1>5. DOMAIN f = {x}
  OBVIOUS
<1>6. SumFunction(f) = SumFunctionOnSet(f, {x})
  BY <1>5 DEF SumFunction
<1> QED
  BY <1>2, <1>3, <1>4, <1>6

\* With no exit of an intent nothing of it is sold; with one, what that says.
LEMMA ToSellIs ==
  ASSUME NEW exits, NEW i
  PROVE  /\ (\A e \in exits : e.id # i) => ToSell(exits, i) = 0
         /\ \A e \in exits : e.id = i /\ e.qty \in Nat /\ (\A x \in exits : x.id = i => x = e)
                               => ToSell(exits, i) = e.qty
<1> DEFINE S == {x \in exits : x.id = i}
           f == [e \in S |-> e.qty]
<1>1. ToSell(exits, i) = SumFunction(f)
  BY DEF ToSell
<1>2. ASSUME \A e \in exits : e.id # i PROVE ToSell(exits, i) = 0
  <2>1. S = {}
    BY <1>2
  <2>2. DOMAIN f = {}
    BY <2>1
  <2>3. SumFunction(f) = SumFunctionOnSet(f, {})
    BY <2>2 DEF SumFunction
  <2> HIDE DEF f
  <2> QED BY <1>1, <2>3, SumEmpty
<1>3. ASSUME NEW e \in exits, e.id = i, e.qty \in Nat, \A x \in exits : x.id = i => x = e
      PROVE  ToSell(exits, i) = e.qty
  <2>1. S = {e}
    BY <1>3
  <2>2. f = [y \in {e} |-> f[y]] /\ f[e] = e.qty
    BY <2>1
  <2> HIDE DEF f
  <2>3. f[e] \in Int
    BY <1>3, <2>2
  <2>4. SumFunction(f) = f[e]
    BY <2>2, <2>3, SumOfOne
  <2> QED BY <1>1, <2>2, <2>4
<1> QED
  BY <1>2, <1>3

\* What a sound plan sells of an intent is what the snapshot of its source asks for.
LEMMA PlannedExit ==
  ASSUME NEW bar, NEW p \in Sound(bar), NEW i \in Intents
  PROVE  /\ ToSell(p.exits, i) \in Nat
         /\ ToSell(p.exits, i) > 0 => /\ i \in {e.id : e \in p.exits}
                                      /\ \E s \in Known : /\ Asks(s, i)
                                                          /\ ToSell(p.exits, i) = Reduce(i, snap[s][i])
         /\ i \in {e.id : e \in p.exits} => ToSell(p.exits, i) > 0
<1>1. \A e \in p.exits : SoundExit(e)
  BY SoundIs
<1>2. CASE \A e \in p.exits : e.id # i
  BY <1>2, ToSellIs
<1>3. ASSUME NEW e \in p.exits, e.id = i
      PROVE  /\ ToSell(p.exits, i) \in Nat /\ ToSell(p.exits, i) > 0
             /\ \E s \in Known : Asks(s, i) /\ ToSell(p.exits, i) = Reduce(i, snap[s][i])
  <2>1. PICK s \in Known : Asks(s, i) /\ e.qty = Reduce(i, snap[s][i])
    BY <1>1, <1>3 DEF SoundExit
  <2>2. \A x \in p.exits : x.id = i => x = e
    <3> SUFFICES ASSUME NEW x \in p.exits, x.id = i PROVE x = e
      OBVIOUS
    <3>1. PICK t \in Known : Asks(t, i) /\ x.qty = Reduce(i, snap[t][i])
      BY <1>1 DEF SoundExit
    <3>2. s = t
      BY <2>1, <3>1, OneOwner DEF Asks
    <3>3. p.exits \in SUBSET Exits
      BY SoundIs DEF Passes, ExitSets
    <3>4. x.id = e.id /\ x.qty = e.qty /\ x \in Exits /\ e \in Exits
      BY <1>3, <2>1, <3>1, <3>2, <3>3
    <3> QED BY <3>4 DEF Exits
  <2>3. e.qty \in Nat \ {0}
    BY <2>1 DEF Asks
  <2>4. ToSell(p.exits, i) = e.qty
    BY <1>3, <2>2, <2>3, ToSellIs
  <2> QED BY <2>1, <2>3, <2>4
<1> QED
  BY <1>2, <1>3

\* A liquidation sells every lot whole.
LEMMA LiquidationExit ==
  ASSUME QtyNat, NEW i \in Intents
  PROVE  /\ ToSell(Liquidation.exits, i) = lot[i].qty
         /\ Liquidation.enters = <<>>
<1>1. Liquidation.exits = {[id |-> j, qty |-> lot[j].qty] : j \in Held} /\ Liquidation.enters = <<>>
  BY DEF Liquidation
<1> DEFINE X == {[id |-> j, qty |-> lot[j].qty] : j \in Held}
<1>2. lot[i].qty \in Nat
  BY DEF QtyNat
<1>3. CASE i \in Held
  <2> DEFINE e == [id |-> i, qty |-> lot[i].qty]
  <2>1. e \in X /\ e.id = i /\ e.qty = lot[i].qty /\ \A x \in X : x.id = i => x = e
    BY <1>3
  <2> HIDE DEF X, e
  <2>2. ToSell(X, i) = e.qty
    BY <1>2, <2>1, ToSellIs
  <2> QED BY <1>1, <2>1, <2>2 DEF X
<1>4. CASE i \notin Held
  <2>1. lot[i].qty = 0
    BY <1>2, <1>4 DEF Held
  <2>2. \A x \in X : x.id # i
    BY <1>4
  <2> HIDE DEF X
  <2> QED BY <1>1, <2>1, <2>2, ToSellIs DEF X
<1> QED
  BY <1>3, <1>4

Closed(phase) == {i \in Intents : ~CanEnter(i, phase)}
PlanOf(liquidate, phase, bar) ==
  IF liquidate THEN Liquidation ELSE PlanAll(Seen, bar \cup Closed(phase))

\* The parts of a tick with plan p
QtyOf(p, phase, i) == IF CanExit(i, phase) THEN ToSell(p.exits, i) ELSE 0
SoldOf(p, phase, works) == IF works THEN {i \in Held : QtyOf(p, phase, i) > 0} ELSE {}
FreeOf(p, liquidate) == IF liquidate THEN {} ELSE Governed \ {e.id : e \in p.exits}
TpsOf(p, phase, works, liquidate) ==
  {i \in FreeOf(p, liquidate) : works /\ CanEnter(i, phase) /\ lot[i].tp # number[i]}
MovedOf(p, phase, works, liquidate) ==
  {i \in FreeOf(p, liquidate) : lot[i].stop # number[i] \/ lot[i].te # number[i]}
    \cup TpsOf(p, phase, works, liquidate)
EnteredOf(p, works) == IF works THEN In(p.enters) ELSE {}
Bought(p, works) == {e.id : e \in EnteredOf(p, works)}
FirstOf(q, i) == q[Min({n \in 1 .. Len(q) : q[n].id = i})]

\* What a tick leaves of an intent that is entered
Fulfilled(i, e) ==
  /\ lot'[i] = [qty |-> e.qty, entry |-> e.qty, kid |-> e.src.kid, scope |-> e.src.scope,
                stop |-> number[i], te |-> number[i], tp |-> None]
  /\ row'[i] = [stop |-> number[i], te |-> number[i], tp |-> None]
  /\ bought'[i] = AtMost(2, bought[i] + 1)
  /\ keeps'[i] = Stays(i, e.qty, snap[e.src][i])

\* and of one that is not
Treated(i, p, phase, works, liquidate) ==
  LET q   == QtyOf(p, phase, i)
      tps == TpsOf(p, phase, works, liquidate)
  IN  /\ bought'[i] = bought[i] /\ keeps'[i] = IF liquidate THEN 0 ELSE keeps[i]
      /\ \/ /\ i \in SoldOf(p, phase, works) /\ lot'[i] = Sold(lot[i], q)
            /\ row'[i] = IF q = lot[i].qty THEN NoNumbers ELSE [row[i] EXCEPT !.tp = None]
            /\ q = lot[i].qty => i \in terminal'
         \/ /\ i \in MovedOf(p, phase, works, liquidate) /\ i \notin SoldOf(p, phase, works)
            /\ lot'[i] = Updated(i, tps) /\ row'[i] = Written(i, tps)
         \/ /\ i \notin SoldOf(p, phase, works) /\ i \notin MovedOf(p, phase, works, liquidate)
            /\ q > 0
            /\ lot'[i] = [lot[i] EXCEPT !.tp = None] /\ row'[i] = [row[i] EXCEPT !.tp = None]
         \/ /\ i \notin SoldOf(p, phase, works) /\ i \notin MovedOf(p, phase, works, liquidate)
            /\ q = 0 /\ lot'[i] = lot[i] /\ row'[i] = row[i]

\* The executor's tick, with what is entered, sold and updated named.
LEMMA ExecuteParts ==
  ASSUME NEW p, NEW phase, NEW works, NEW liquidate, Execute(p, phase, works, liquidate)
  PROVE  LET ent  == IF works THEN {p.enters[n].id : n \in 1 .. Len(p.enters)} ELSE {}
             sold == SoldOf(p, phase, works)
             tps  == TpsOf(p, phase, works, liquidate)
             mv   == MovedOf(p, phase, works, liquidate)
             over == {i \in sold : QtyOf(p, phase, i) = lot[i].qty}
             order(i) == FirstOf(p.enters, i)
         IN  /\ lot' = [i \in Intents |->
                  IF i \in ent THEN [qty |-> order(i).qty, entry |-> order(i).qty,
                                     kid |-> order(i).src.kid, scope |-> order(i).src.scope,
                                     stop |-> number[i], te |-> number[i], tp |-> None]
                  ELSE IF i \in sold THEN Sold(lot[i], QtyOf(p, phase, i))
                  ELSE IF i \in mv THEN Updated(i, tps)
                  ELSE IF QtyOf(p, phase, i) > 0 THEN [lot[i] EXCEPT !.tp = None]
                  ELSE lot[i]]
             /\ row' = [i \in Intents |->
                  IF i \in ent THEN [stop |-> number[i], te |-> number[i], tp |-> None]
                  ELSE IF i \in over THEN NoNumbers
                  ELSE IF i \in mv THEN Written(i, tps)
                  ELSE IF QtyOf(p, phase, i) > 0 THEN [row[i] EXCEPT !.tp = None]
                  ELSE row[i]]
             /\ terminal' = terminal \cup over
             /\ lastW' = IF liquidate THEN lastW ELSE Seen
             /\ bought' = [i \in Intents |-> IF i \in ent THEN AtMost(2, bought[i] + 1) ELSE bought[i]]
             /\ keeps' = [i \in Intents |->
                  IF i \in ent THEN Stays(i, order(i).qty, snap[order(i).src][i])
                  ELSE IF liquidate THEN 0
                  ELSE keeps[i]]
             /\ UNCHANGED <<snap, number, means, day>>
             /\ late' = [i \in Intents |-> IF phase = "continuous" /\ works /\ ~liquidate /\ Behind(i)'
                                           THEN AtMost(MaxLate + 1, late[i] + 1) ELSE 0]
BY DEF Execute, SoldOf, TpsOf, MovedOf, FreeOf, QtyOf, ToSell, FirstOf

\* A tick executes the plan it makes.
LEMMA TickExecutes ==
  ASSUME NEW phase, NEW works, NEW liquidate, NEW bar, Tick(phase, works, liquidate, bar)
  PROVE  Execute(PlanOf(liquidate, phase, bar), phase, works, liquidate)
BY DEF Tick, PlanOf, Closed

\* The first entry of an intent is an entry of it.
LEMMA FirstIs ==
  ASSUME NEW q \in EntrySeqs, NEW i \in {e.id : e \in In(q)}
  PROVE  FirstOf(q, i) \in In(q) /\ FirstOf(q, i).id = i /\ FirstOf(q, i) \in Entries
<1> DEFINE N == {n \in 1 .. Len(q) : q[n].id = i}
<1>1. N \in SUBSET Nat /\ N # {}
  BY EntrySeqIs DEF In
<1>2. Min(N) \in N
  <2> HIDE DEF N
  <2> QED BY <1>1, MinIs
<1>3. Min(N) \in 1 .. Len(q) /\ q[Min(N)].id = i
  BY <1>2
<1>4. FirstOf(q, i) = q[Min(N)]
  BY DEF FirstOf
<1> HIDE DEF N
<1> QED
  BY <1>3, <1>4, EntrySeqIs DEF In

\* A source asks that q shares of a lot be sold
AskedFor(i, q) == \E s \in Known : Asks(s, i) /\ q = Reduce(i, snap[s][i])

\* The plan of a tick: what it sells of an intent is of a lot, and what it enters is sound.
LEMMA PlanOfIs ==
  ASSUME PInv, NEW phase, NEW liquidate \in BOOLEAN, NEW bar
  PROVE  LET p == PlanOf(liquidate, phase, bar) IN
         /\ p.enters \in EntrySeqs
         /\ liquidate => p.enters = <<>>
         /\ ~liquidate => p \in Sound(bar \cup Closed(phase))
         /\ \A i \in Intents :
              /\ QtyOf(p, phase, i) \in Nat /\ QtyOf(p, phase, i) <= lot[i].qty
              /\ liquidate /\ QtyOf(p, phase, i) > 0 => QtyOf(p, phase, i) = lot[i].qty
              /\ ~liquidate /\ QtyOf(p, phase, i) > 0 => AskedFor(i, QtyOf(p, phase, i))
<1> DEFINE p == PlanOf(liquidate, phase, bar)
           B == bar \cup Closed(phase)
<1>1. Readable
  BY ReadableIs
<1>2. CASE liquidate
  <2>1. p = Liquidation
    BY <1>2 DEF PlanOf
  <2>2. p.enters = <<>> /\ p.enters \in EntrySeqs
    BY <1>1, <2>1, LiquidationExit DEF EntrySeqs, Liquidation
  <2>3. \A i \in Intents : ToSell(p.exits, i) = lot[i].qty /\ lot[i].qty \in Nat
    BY <1>1, <2>1, LiquidationExit, LotIs DEF Readable
  <2> HIDE DEF p
  <2>4. \A i \in Intents : QtyOf(p, phase, i) = lot[i].qty \/ QtyOf(p, phase, i) = 0
    BY <2>3 DEF QtyOf
  <2>5. \A i \in Intents : QtyOf(p, phase, i) \in Nat /\ QtyOf(p, phase, i) <= lot[i].qty
    BY <2>3, <2>4
  <2>6. \A i \in Intents : QtyOf(p, phase, i) > 0 => QtyOf(p, phase, i) = lot[i].qty
    BY <2>4
  <2> QED BY <1>2, <2>2, <2>5, <2>6 DEF p
<1>3. CASE ~liquidate
  <2>1. p = PlanAll(Seen, B)
    BY <1>3 DEF PlanOf
  <2>2. p \in Sound(B)
    BY <1>1, <2>1, SeenIs, PlanAllSound
  <2> HIDE DEF p, B
  <2>3. p.enters \in EntrySeqs
    BY <2>2, SoundIs DEF Passes
  <2>4. \A i \in Intents :
          /\ QtyOf(p, phase, i) \in Nat /\ QtyOf(p, phase, i) <= lot[i].qty
          /\ QtyOf(p, phase, i) > 0 => AskedFor(i, QtyOf(p, phase, i))
    <3> TAKE i \in Intents
    <3>1. CASE QtyOf(p, phase, i) = 0
      BY <3>1, LotIs
    <3>2. CASE QtyOf(p, phase, i) # 0
      <4>1. QtyOf(p, phase, i) = ToSell(p.exits, i)
        BY <3>2 DEF QtyOf
      <4>2. ToSell(p.exits, i) \in Nat /\ ToSell(p.exits, i) > 0
        BY <2>2, <3>2, <4>1, PlannedExit
      <4>3. PICK s \in Known : Asks(s, i) /\ ToSell(p.exits, i) = Reduce(i, snap[s][i])
        BY <2>2, <4>2, PlannedExit
      <4>4. snap[s][i] \in 0 .. 4
        BY <1>1, <4>3 DEF Readable, Asks
      <4>5. Reduce(i, snap[s][i]) <= lot[i].qty
        BY <4>4, LotIs, ReduceIs
      <4> QED BY <4>1, <4>2, <4>3, <4>5 DEF AskedFor
    <3> QED BY <3>1, <3>2
  <2> QED BY <1>3, <2>2, <2>3, <2>4 DEF p, B
<1> QED
  BY <1>2, <1>3

\* A tick enters an intent, or sells, updates or leaves its lot.
LEMMA TickTreats ==
  ASSUME PInv, NEW phase, NEW works \in BOOLEAN, NEW liquidate \in BOOLEAN, NEW bar,
         Tick(phase, works, liquidate, bar), NEW i \in Intents
  PROVE  LET p == PlanOf(liquidate, phase, bar) IN
         \/ /\ works /\ ~liquidate /\ i \in Bought(p, works)
            /\ FirstOf(p.enters, i) \in In(p.enters) /\ FirstOf(p.enters, i).id = i
            /\ FirstOf(p.enters, i) \in Entries
            /\ SoundEntry(FirstOf(p.enters, i), bar \cup Closed(phase)) /\ Fulfilled(i, FirstOf(p.enters, i))
         \/ i \notin Bought(p, works) /\ Treated(i, p, phase, works, liquidate)
<1> DEFINE p == PlanOf(liquidate, phase, bar)
           e == FirstOf(p.enters, i)
           sold == SoldOf(p, phase, works)
           tps == TpsOf(p, phase, works, liquidate)
           mv == MovedOf(p, phase, works, liquidate)
           over == {j \in sold : QtyOf(p, phase, j) = lot[j].qty}
           ent == IF works THEN {p.enters[n].id : n \in 1 .. Len(p.enters)} ELSE {}
<1>1. Execute(p, phase, works, liquidate)
  BY TickExecutes
<1>2. /\ p.enters \in EntrySeqs /\ (liquidate => p.enters = <<>>)
      /\ ~liquidate => p \in Sound(bar \cup Closed(phase))
      /\ QtyOf(p, phase, i) \in Nat
  BY PlanOfIs
<1> HIDE DEF p
<1>3. ent = Bought(p, works)
  BY DEF Bought, EnteredOf, In
<1>4. /\ lot'[i] = IF i \in ent THEN [qty |-> e.qty, entry |-> e.qty, kid |-> e.src.kid, scope |-> e.src.scope,
                                      stop |-> number[i], te |-> number[i], tp |-> None]
                   ELSE IF i \in sold THEN Sold(lot[i], QtyOf(p, phase, i))
                   ELSE IF i \in mv THEN Updated(i, tps)
                   ELSE IF QtyOf(p, phase, i) > 0 THEN [lot[i] EXCEPT !.tp = None]
                   ELSE lot[i]
      /\ row'[i] = IF i \in ent THEN [stop |-> number[i], te |-> number[i], tp |-> None]
                   ELSE IF i \in over THEN NoNumbers
                   ELSE IF i \in mv THEN Written(i, tps)
                   ELSE IF QtyOf(p, phase, i) > 0 THEN [row[i] EXCEPT !.tp = None]
                   ELSE row[i]
      /\ terminal' = terminal \cup over
      /\ bought'[i] = IF i \in ent THEN AtMost(2, bought[i] + 1) ELSE bought[i]
      /\ keeps'[i] = IF i \in ent THEN Stays(i, e.qty, snap[e.src][i])
                     ELSE IF liquidate THEN 0 ELSE keeps[i]
  BY <1>1, ExecuteParts
<1> HIDE DEF ent
<1>5. CASE i \in ent
  <2>1. works
    BY <1>5 DEF ent
  <2>2. i \in {x.id : x \in In(p.enters)}
    BY <1>3, <1>5, <2>1 DEF Bought, EnteredOf
  <2>3. e \in In(p.enters) /\ e.id = i /\ e \in Entries
    BY <1>2, <2>2, FirstIs
  <2>4. ~liquidate
    <3> SUFFICES ASSUME liquidate PROVE FALSE
      OBVIOUS
    <3>1. In(p.enters) = {}
      BY <1>2 DEF In
    <3> QED BY <2>3, <3>1
  <2>5. SoundEntry(e, bar \cup Closed(phase))
    BY <1>2, <2>3, <2>4, SoundIs
  <2>6. Fulfilled(i, e)
    BY <1>4, <1>5 DEF Fulfilled
  <2> QED BY <1>3, <1>5, <2>1, <2>3, <2>4, <2>5, <2>6 DEF p
<1>6. CASE i \notin ent
  <2> DEFINE q == QtyOf(p, phase, i)
  <2>1. bought'[i] = bought[i] /\ keeps'[i] = IF liquidate THEN 0 ELSE keeps[i]
    BY <1>4, <1>6
  <2>2. (i \in sold => q > 0 /\ i \notin FreeOf(p, liquidate)) /\ (mv \subseteq FreeOf(p, liquidate))
    <3>1. i \in sold => q > 0
      BY DEF SoldOf
    <3>2. q > 0 => i \notin FreeOf(p, liquidate)
      <4> SUFFICES ASSUME q > 0, ~liquidate PROVE i \in {x.id : x \in p.exits}
        BY DEF FreeOf
      <4>1. ToSell(p.exits, i) > 0
        BY DEF QtyOf
      <4> QED BY <1>2, <4>1, PlannedExit
    <3> QED BY <3>1, <3>2 DEF MovedOf, TpsOf
  <2>3. i \in sold => i \notin mv
    BY <2>2
  <2>4. CASE i \in sold
    <3>1. lot'[i] = Sold(lot[i], q)
      BY <1>4, <1>6, <2>4
    <3>2. i \in over <=> q = lot[i].qty
      BY <2>4
    <3>3. i \in over => i \in terminal'
      BY <1>4
    <3>4. row'[i] = IF q = lot[i].qty THEN NoNumbers ELSE [row[i] EXCEPT !.tp = None]
      <4> HIDE DEF over, mv, sold, q
      <4>1. q > 0
        BY <2>2, <2>4
      <4>2. q = QtyOf(p, phase, i)
        BY DEF q
      <4> QED BY <1>4, <1>6, <2>3, <2>4, <3>2, <4>1, <4>2
    <3> HIDE DEF over
    <3>5. Treated(i, p, phase, works, liquidate)
      BY <2>1, <2>4, <3>1, <3>2, <3>3, <3>4 DEF Treated
    <3> QED BY <1>3, <1>6, <3>5 DEF p
  <2>5. CASE i \notin sold
    <3>1. i \notin over
      BY <2>5
    <3> HIDE DEF over
    <3>2. CASE i \in mv
      <4>1. lot'[i] = Updated(i, tps) /\ row'[i] = Written(i, tps)
        BY <1>4, <1>6, <2>5, <3>1, <3>2
      <4>2. Treated(i, p, phase, works, liquidate)
        BY <2>1, <2>5, <3>2, <4>1 DEF Treated
      <4> QED BY <1>3, <1>6, <4>2 DEF p
    <3>3. CASE i \notin mv /\ q > 0
      <4>1. lot'[i] = [lot[i] EXCEPT !.tp = None] /\ row'[i] = [row[i] EXCEPT !.tp = None]
        BY <1>4, <1>6, <2>5, <3>1, <3>3
      <4>2. Treated(i, p, phase, works, liquidate)
        BY <2>1, <2>5, <3>3, <4>1 DEF Treated
      <4> QED BY <1>3, <1>6, <4>2 DEF p
    <3>4. CASE i \notin mv /\ ~(q > 0)
      <4>1. lot'[i] = lot[i] /\ row'[i] = row[i]
        BY <1>4, <1>6, <2>5, <3>1, <3>4
      <4>2. q = 0
        BY <1>2, <3>4
      <4>3. Treated(i, p, phase, works, liquidate)
        BY <2>1, <2>5, <3>4, <4>1, <4>2 DEF Treated
      <4> QED BY <1>3, <1>6, <4>3 DEF p
    <3> QED BY <3>2, <3>3, <3>4
  <2> QED BY <2>4, <2>5
<1> QED
  BY <1>5, <1>6

-----------------------------------------------------------------------------
(* Type correctness.                                                       *)

\* What stays of an entry is between nothing and all of it.
LEMMA StaysIs ==
  ASSUME NEW i \in Intents, NEW e \in Nat, NEW w \in 0 .. 4
  PROVE  /\ Stays(i, e, w) \in Nat /\ Stays(i, e, w) <= e
         /\ Stays(i, e, w) = Keep(e, w) \/ Stays(i, e, w) = 0
         /\ w = 0 => Stays(i, e, w) = 0
<1>1. Keep(e, w) \in Nat /\ Keep(e, w) <= e /\ Keep(e, 0) = 0
  BY KeepIs
<1> QED
  BY <1>1 DEF Stays

\* What a tick changes are functions over the intents.
LEMMA TickShape ==
  ASSUME NEW phase, NEW works, NEW liquidate, NEW bar, Tick(phase, works, liquidate, bar)
  PROVE  /\ lot' = [i \in Intents |-> lot'[i]] /\ row' = [i \in Intents |-> row'[i]]
         /\ bought' = [i \in Intents |-> bought'[i]] /\ keeps' = [i \in Intents |-> keeps'[i]]
         /\ terminal' = terminal \cup {i \in SoldOf(PlanOf(liquidate, phase, bar), phase, works) :
                                         QtyOf(PlanOf(liquidate, phase, bar), phase, i) = lot[i].qty}
         /\ lastW' = IF liquidate THEN lastW ELSE Seen
         /\ UNCHANGED <<snap, number, means, day>>
         /\ late' = [i \in Intents |-> IF phase = "continuous" /\ works /\ ~liquidate /\ Behind(i)'
                                       THEN AtMost(MaxLate + 1, late[i] + 1) ELSE 0]
<1> DEFINE p == PlanOf(liquidate, phase, bar)
<1>1. Execute(p, phase, works, liquidate)
  BY TickExecutes
<1> HIDE DEF p
<1>2. /\ lot' = [i \in Intents |-> lot'[i]] /\ row' = [i \in Intents |-> row'[i]]
      /\ bought' = [i \in Intents |-> bought'[i]] /\ keeps' = [i \in Intents |-> keeps'[i]]
  BY <1>1 DEF Execute
<1>3. /\ terminal' = terminal \cup {i \in SoldOf(p, phase, works) : QtyOf(p, phase, i) = lot[i].qty}
      /\ lastW' = IF liquidate THEN lastW ELSE Seen
      /\ UNCHANGED <<snap, number, means, day>>
      /\ late' = [i \in Intents |-> IF phase = "continuous" /\ works /\ ~liquidate /\ Behind(i)'
                                    THEN AtMost(MaxLate + 1, late[i] + 1) ELSE 0]
  BY <1>1, ExecuteParts
<1> QED
  BY <1>2, <1>3 DEF p

\* What a tick does to a lot and its row keeps their types, and nothing is recorded of a lot that
\* is gone.
LEMMA TreatedType ==
  ASSUME PInv, NEW phase, NEW works \in BOOLEAN, NEW liquidate \in BOOLEAN, NEW bar,
         Tick(phase, works, liquidate, bar), NEW i \in Intents
  PROVE  /\ lot'[i] \in Lots /\ row'[i] \in Numbers
         /\ lot'[i].qty <= AtLeast(lot'[i].entry, LegacyQty)
         /\ lot'[i].qty = 0 => lot'[i] = NoLot /\ row'[i] = NoNumbers
         /\ bought'[i] \in 0 .. 2 /\ keeps'[i] \in Nat
<1> DEFINE p == PlanOf(liquidate, phase, bar)
           q == QtyOf(p, phase, i)
           tps == TpsOf(p, phase, works, liquidate)
           e == FirstOf(p.enters, i)
<1>1. /\ lot[i] \in Lots /\ lot[i].qty \in Nat /\ lot[i].entry \in Nat /\ row[i] \in Numbers
      /\ lot[i].stop \in {0, 1} /\ lot[i].te \in {0, 1} /\ lot[i].tp \in {None, 0, 1}
      /\ row[i].stop \in {0, 1} /\ row[i].te \in {0, 1} /\ row[i].tp \in {None, 0, 1}
      /\ number[i] \in {0, 1}
  BY LotIs
<1>2. /\ lot[i].qty <= AtLeast(lot[i].entry, LegacyQty)
      /\ lot[i].qty = 0 => lot[i] = NoLot /\ row[i] = NoNumbers
      /\ bought[i] \in 0 .. 2 /\ keeps[i] \in Nat
  BY DEF PInv, LotOK, HistoryOK
<1>3. q \in Nat /\ q <= lot[i].qty
  BY PlanOfIs
<1>4. \/ /\ e.id = i /\ e \in Entries
         /\ SoundEntry(e, bar \cup Closed(phase)) /\ Fulfilled(i, e)
      \/ Treated(i, p, phase, works, liquidate)
  BY TickTreats
<1>5. NoLot \in Lots /\ NoLot.qty = 0 /\ NoLot.entry = 0 /\ NoNumbers \in Numbers
  BY DEF NoLot, Lots, NoNumbers, Numbers, Kids, Scopes
<1> HIDE DEF p, q, tps, e
<1>6. CASE e.id = i /\ e \in Entries /\ SoundEntry(e, bar \cup Closed(phase)) /\ Fulfilled(i, e)
  <2>1. e.qty \in Nat \ {0} /\ e.src \in Sources /\ snap[e.src][i] # None /\ e.src \in Known /\ i \in Of(e.src)
    BY <1>6 DEF SoundEntry, Known
  <2>2. snap[e.src][i] \in 0 .. 4
    BY <2>1, ReadableIs DEF Readable
  <2>3. e.src.kid \in Kids /\ e.src.scope \in Scopes
    BY <2>1 DEF Kids, Scopes
  <2>4. lot'[i] \in Lots /\ lot'[i].qty = e.qty /\ lot'[i].entry = e.qty
    BY <1>1, <1>6, <2>1, <2>3 DEF Fulfilled, Lots
  <2>5. row'[i] \in Numbers
    BY <1>1, <1>6 DEF Fulfilled, Numbers
  <2>6. bought'[i] \in 0 .. 2
    BY <1>2, <1>6 DEF Fulfilled, AtMost
  <2>7. keeps'[i] \in Nat
    BY <1>6, <2>1, <2>2, StaysIs DEF Fulfilled
  <2>8. e.qty <= AtLeast(e.qty, LegacyQty)
    BY <2>1 DEF AtLeast, LegacyQty
  <2> QED BY <2>1, <2>4, <2>5, <2>6, <2>7, <2>8
<1>7. CASE Treated(i, p, phase, works, liquidate)
  <2>1. bought'[i] \in 0 .. 2 /\ keeps'[i] \in Nat
    BY <1>2, <1>7 DEF Treated
  <2>2. CASE /\ i \in SoldOf(p, phase, works) /\ lot'[i] = Sold(lot[i], q)
             /\ row'[i] = IF q = lot[i].qty THEN NoNumbers ELSE [row[i] EXCEPT !.tp = None]
    <3>1. CASE q = lot[i].qty
      <4>1. lot'[i] = NoLot /\ row'[i] = NoNumbers
        BY <2>2, <3>1 DEF Sold
      <4>2. 0 <= AtLeast(0, LegacyQty)
        BY DEF AtLeast, LegacyQty
      <4> QED BY <1>5, <2>1, <4>1, <4>2
    <3>2. CASE q # lot[i].qty
      <4>1. lot'[i] = [lot[i] EXCEPT !.qty = @ - q, !.tp = None] /\ row'[i] = [row[i] EXCEPT !.tp = None]
        BY <2>2, <3>2 DEF Sold
      <4>2. lot[i].qty - q \in Nat /\ lot[i].qty - q # 0 /\ lot[i].qty - q <= lot[i].qty
        BY <1>1, <1>3, <3>2
      <4>3. lot'[i].qty = lot[i].qty - q /\ lot'[i].entry = lot[i].entry /\ lot'[i] \in Lots
        BY <1>1, <4>1, <4>2 DEF Lots
      <4>4. row'[i] \in Numbers
        BY <1>1, <4>1 DEF Numbers
      <4>5. AtLeast(lot[i].entry, LegacyQty) \in Nat
        BY <1>1 DEF AtLeast, LegacyQty
      <4>6. lot'[i].qty <= AtLeast(lot'[i].entry, LegacyQty)
        BY <1>1, <1>2, <1>3, <4>2, <4>3, <4>5
      <4> QED BY <2>1, <4>2, <4>3, <4>4, <4>6
    <3> QED BY <3>1, <3>2
  <2>3. CASE i \in MovedOf(p, phase, works, liquidate) /\ lot'[i] = Updated(i, tps) /\ row'[i] = Written(i, tps)
    <3>1. i \in Held
      BY <2>3 DEF MovedOf, TpsOf, FreeOf, Governed
    <3>2. lot[i].qty > 0
      BY <3>1 DEF Held
    <3>3. lot'[i] \in Lots /\ lot'[i].qty = lot[i].qty /\ lot'[i].entry = lot[i].entry
      BY <1>1, <2>3 DEF Updated, Lots
    <3>4. row'[i] \in Numbers
      BY <1>1, <2>3 DEF Written, Numbers
    <3> QED BY <1>1, <1>2, <2>1, <3>2, <3>3, <3>4
  <2>4. CASE q > 0 /\ lot'[i] = [lot[i] EXCEPT !.tp = None] /\ row'[i] = [row[i] EXCEPT !.tp = None]
    <3>1. lot'[i] \in Lots /\ lot'[i].qty = lot[i].qty /\ lot'[i].entry = lot[i].entry
      BY <1>1, <2>4 DEF Lots
    <3>2. row'[i] \in Numbers
      BY <1>1, <2>4 DEF Numbers
    <3>3. lot[i].qty # 0
      BY <1>1, <1>3, <2>4
    <3> QED BY <1>2, <2>1, <3>1, <3>2, <3>3
  <2>5. CASE lot'[i] = lot[i] /\ row'[i] = row[i]
    BY <1>1, <1>2, <2>1, <2>5
  <2> QED BY <1>7, <2>2, <2>3, <2>4, <2>5 DEF Treated, q, tps
<1> QED
  BY <1>4, <1>6, <1>7

\* The executor's tick keeps the types, and what it enters and sells fits the lots.
LEMMA TickType ==
  ASSUME PInv, NEW phase, NEW works \in BOOLEAN, NEW liquidate \in BOOLEAN, NEW bar,
         Tick(phase, works, liquidate, bar)
  PROVE  PInv'
<1>1. /\ lot' = [i \in Intents |-> lot'[i]] /\ row' = [i \in Intents |-> row'[i]]
      /\ bought' = [i \in Intents |-> bought'[i]] /\ keeps' = [i \in Intents |-> keeps'[i]]
      /\ terminal' \subseteq terminal \cup Intents
      /\ lastW' = IF liquidate THEN lastW ELSE Seen
      /\ snap' = snap /\ number' = number /\ capital' = capital /\ saved' = saved /\ sharesOf' = sharesOf
      /\ day' = day
  BY TickShape DEF means, SoldOf, Held
<1>2. \A i \in Intents : /\ lot'[i] \in Lots /\ row'[i] \in Numbers
                         /\ lot'[i].qty <= AtLeast(lot'[i].entry, LegacyQty)
                         /\ lot'[i].qty = 0 => lot'[i] = NoLot /\ row'[i] = NoNumbers
                         /\ bought'[i] \in 0 .. 2 /\ keeps'[i] \in Nat
  BY TreatedType
<1>3. Seen \in [NightBooks -> 0 .. 20]
  BY SeenIs
<1>4. SnapOK'
  BY <1>1 DEF PInv, SnapOK, Known
<1>5. LotOK'
  BY <1>1, <1>2 DEF LotOK
<1>6. MeansOK'
  BY <1>1, <1>3 DEF PInv, MeansOK
<1>7. HistoryOK'
  BY <1>1, <1>2 DEF PInv, HistoryOK
<1> QED
  BY <1>4, <1>5, <1>6, <1>7 DEF PInv

\* A local exit keeps the types.
LEMMA LocalExitType ==
  ASSUME PInv, NEW i \in Intents, NEW works \in BOOLEAN, LocalExit(i, works)
  PROVE  PInv'
<1>1. /\ snap' = snap /\ number' = number /\ lastW' = lastW /\ capital' = capital /\ saved' = saved
      /\ sharesOf' = sharesOf /\ day' = day /\ bought' = bought
      /\ terminal' \subseteq terminal \cup {i} /\ keeps' = [keeps EXCEPT ![i] = 0]
      /\ lot' = [lot EXCEPT ![i] = IF works THEN NoLot ELSE [@ EXCEPT !.tp = None]]
      /\ row' = [row EXCEPT ![i] = IF works THEN NoNumbers ELSE [@ EXCEPT !.tp = None]]
      /\ lot[i].qty > 0
  BY DEF LocalExit, means, Held
<1>2. lot[i] \in Lots /\ row[i] \in Numbers
  BY LotIs
<1>3. NoLot \in Lots /\ NoLot.qty = 0 /\ NoLot.entry = 0 /\ NoNumbers \in Numbers
  BY DEF NoLot, Lots, NoNumbers, Numbers, Kids, Scopes
<1>4. /\ [lot[i] EXCEPT !.tp = None] \in Lots /\ [row[i] EXCEPT !.tp = None] \in Numbers
      /\ [lot[i] EXCEPT !.tp = None].qty = lot[i].qty /\ [lot[i] EXCEPT !.tp = None].entry = lot[i].entry
  BY <1>2 DEF Lots, Numbers
<1>5. lot \in [Intents -> Lots] /\ row \in [Intents -> Numbers]
  BY DEF PInv, LotOK
<1>6. LotOK'
  <2>1. /\ lot' \in [Intents -> Lots] /\ row' \in [Intents -> Numbers]
        /\ lot'[i] = (IF works THEN NoLot ELSE [lot[i] EXCEPT !.tp = None])
        /\ row'[i] = (IF works THEN NoNumbers ELSE [row[i] EXCEPT !.tp = None])
        /\ \A j \in Intents : j # i => lot'[j] = lot[j] /\ row'[j] = row[j]
    BY <1>1, <1>3, <1>4, <1>5
  <2>2. 0 <= AtLeast(0, LegacyQty)
    BY DEF AtLeast, LegacyQty
  <2>3. \A j \in Intents : /\ lot[j].qty <= AtLeast(lot[j].entry, LegacyQty)
                           /\ lot[j].qty = 0 => lot[j] = NoLot /\ row[j] = NoNumbers
    BY DEF PInv, LotOK
  <2>4. /\ lot'[i].qty <= AtLeast(lot'[i].entry, LegacyQty)
        /\ lot'[i].qty = 0 => lot'[i] = NoLot /\ row'[i] = NoNumbers
    <3>1. CASE works
      BY <1>3, <2>1, <2>2, <3>1
    <3>2. CASE ~works
      BY <1>1, <1>2, <1>4, <2>1, <2>3, <3>2
    <3> QED BY <3>1, <3>2
  <2> QED BY <2>1, <2>3, <2>4 DEF LotOK
<1>7. SnapOK'
  BY <1>1 DEF PInv, SnapOK, Known
<1>8. MeansOK'
  BY <1>1 DEF PInv, MeansOK
<1>9. HistoryOK'
  BY <1>1 DEF PInv, HistoryOK
<1> QED
  BY <1>6, <1>7, <1>8, <1>9 DEF PInv

\* The numbers that the store has make lots of the engine's.
LEMMA RecordedType ==
  ASSUME PInv, lot' = Recorded, row' = row
  PROVE  LotOK'
<1>1. \A i \in Intents :
        /\ lot'[i] = [lot[i] EXCEPT !.stop = row[i].stop, !.te = row[i].te, !.tp = row[i].tp]
        /\ lot[i] \in Lots /\ row[i] \in Numbers
        /\ row[i].stop \in {0, 1} /\ row[i].te \in {0, 1} /\ row[i].tp \in {None, 0, 1}
  BY LotIs DEF Recorded
<1>2. \A i \in Intents : /\ lot'[i] \in Lots /\ lot'[i].qty = lot[i].qty /\ lot'[i].entry = lot[i].entry
  <2> TAKE i \in Intents
  <2> DEFINE l == lot[i]
             r == row[i]
             m == lot'[i]
  <2>1. /\ m = [l EXCEPT !.stop = r.stop, !.te = r.te, !.tp = r.tp] /\ l \in Lots
        /\ r.stop \in {0, 1} /\ r.te \in {0, 1} /\ r.tp \in {None, 0, 1}
    BY <1>1
  <2> HIDE DEF l, r, m
  <2>2. m \in Lots /\ m.qty = l.qty /\ m.entry = l.entry
    BY <2>1 DEF Lots
  <2> QED BY <2>2 DEF l, m
<1>3. lot' \in [Intents -> Lots] /\ row' \in [Intents -> Numbers]
  <2>1. lot' = [i \in Intents |-> lot'[i]]
    BY DEF Recorded
  <2> QED BY <1>2, <2>1 DEF PInv, LotOK
<1>4. \A i \in Intents : /\ lot[i].qty <= AtLeast(lot[i].entry, LegacyQty)
                         /\ lot[i].qty = 0 => lot[i] = NoLot /\ row[i] = NoNumbers
  BY DEF PInv, LotOK
<1>5. \A i \in Intents : lot[i] = NoLot /\ row[i] = NoNumbers => lot'[i] = NoLot
  <2> SUFFICES ASSUME NEW i \in Intents, lot[i] = NoLot, row[i] = NoNumbers PROVE lot'[i] = NoLot
    OBVIOUS
  <2>1. row[i].stop = 0 /\ row[i].te = 0 /\ row[i].tp = None
    BY DEF NoNumbers
  <2>2. lot'[i] = [NoLot EXCEPT !.stop = 0, !.te = 0, !.tp = None]
    BY <1>1, <2>1
  <2> QED BY <2>2 DEF NoLot
<1> QED
  BY <1>2, <1>3, <1>4, <1>5 DEF LotOK

\* What the account says is entrusted is nothing or one of the capitals.
LEMMA CapitalIs ==
  ASSUME PInv, NEW r \in Capital
  PROVE  r.capital \in Capitals \cup {0} /\ r.saved \in Capitals \cup {0}
BY DEF Capital, PInv, MeansOK

\* A publication keeps the types.
LEMMA PublishType ==
  ASSUME PInv, NEW s \in Sources, Publish(s)
  PROVE  PInv'
<1>1. PICK wants \in [Of(s) -> UNION {Wants[i] : i \in Of(s)}],
           new \in SUBSET {i \in Renumbered \cap Of(s) : number[i] = 0} :
        /\ \A i \in Of(s) : wants[i] \in Wants[i]
        /\ snap' = [snap EXCEPT ![s] = wants]
        /\ number' = [i \in Intents |-> IF i \in new THEN 1 ELSE number[i]]
        /\ keeps' = [i \in Intents |-> IF i \in Of(s) /\ i \in Held /\ lot[i].scope = s.scope
                                       THEN Left(i, wants[i]) ELSE keeps[i]]
        /\ UNCHANGED <<lot, row, terminal, lastW, means, day, bought>>
  BY DEF Publish
<1>2. \A i \in Intents : number[i] \in {0, 1} /\ keeps[i] \in Nat /\ lot[i].entry \in Nat
  BY LotIs DEF PInv, HistoryOK
<1>3. \A i \in Of(s) : i \in Intents /\ (wants[i] = None \/ wants[i] \in 0 .. 4)
  <2> SUFFICES ASSUME NEW i \in Of(s) PROVE i \in Intents /\ (wants[i] = None \/ wants[i] \in 0 .. 4)
    OBVIOUS
  <2>1. i \in Intents
    BY Constants
  <2>2. Wants[i] \subseteq (0 .. 4) \cup {None}
    BY <2>1, PlanAssumption, Zenon
  <2> QED BY <1>1, <2>1, <2>2
<1>4. \A i \in Of(s) : Left(i, wants[i]) \in Nat
  <2> TAKE i \in Of(s)
  <2>1. i \in Intents /\ keeps[i] \in Nat /\ lot[i].entry \in Nat
    BY <1>2, <1>3
  <2>2. CASE wants[i] = None
    BY <2>1, <2>2 DEF Left
  <2>3. CASE wants[i] \in 0 .. 4
    <3>1. Stays(i, lot[i].entry, wants[i]) \in Nat
      BY <2>1, <2>3, StaysIs
    <3> QED BY <2>1, <3>1 DEF Left, AtMost
  <2> QED BY <1>3, <2>2, <2>3
<1>5. SnapOK'
  <2>1. snap = [t \in Sources |-> snap[t]]
    BY DEF PInv, SnapOK
  <2>2. snap' = [t \in Sources |-> snap'[t]] /\ snap'[s] = wants /\ \A t \in Sources : t # s => snap'[t] = snap[t]
    BY <1>1, <2>1
  <2>3. DOMAIN wants = Of(s)
    OBVIOUS
  <2>4. \A t \in Sources : t # s /\ snap[t] # <<>> => /\ DOMAIN snap[t] = Of(t)
                                                     /\ \A i \in Of(t) : snap[t][i] \in Wants[i]
    BY DEF PInv, SnapOK, Known
  <2>5. \A t \in Sources : t \in Known' <=> snap'[t] # <<>>
    BY DEF Known
  <2>6. \A t \in Sources : t \in Known' => DOMAIN snap'[t] = Of(t) /\ \A i \in Of(t) : snap'[t][i] \in Wants[i]
    <3> SUFFICES ASSUME NEW t \in Sources, t \in Known'
                 PROVE  DOMAIN snap'[t] = Of(t) /\ \A i \in Of(t) : snap'[t][i] \in Wants[i]
      OBVIOUS
    <3>1. CASE t = s
      BY <1>1, <2>2, <2>3, <3>1
    <3>2. CASE t # s
      BY <2>2, <2>4, <2>5, <3>2
    <3> QED BY <3>1, <3>2
  <2> QED BY <2>2, <2>6 DEF SnapOK
<1>6. LotOK'
  BY <1>1 DEF PInv, LotOK
<1>7. MeansOK'
  BY <1>1 DEF PInv, MeansOK, means
<1>8. HistoryOK'
  <2>1. number' \in [Intents -> {0, 1}]
    BY <1>1, <1>2
  <2>2. keeps' \in [Intents -> Nat]
    BY <1>1, <1>2, <1>4
  <2> QED BY <1>1, <2>1, <2>2 DEF PInv, HistoryOK
<1> QED
  BY <1>5, <1>6, <1>7, <1>8 DEF PInv

\* A lot from before sources were recorded is a lot.
LEMMA OldLot ==
  ASSUME NEW entry \in {0, LegacyQty}, NEW scope \in {s.scope : s \in Sources}
  PROVE  LET o == [NoLot EXCEPT !.qty = LegacyQty, !.entry = entry, !.scope = scope]
         IN  o \in Lots /\ o.qty = LegacyQty /\ o.entry = entry
<1> DEFINE o == [NoLot EXCEPT !.qty = LegacyQty, !.entry = entry, !.scope = scope]
<1>1. LegacyQty \in Nat /\ entry \in Nat
  BY DEF LegacyQty
<1>2. "" \in Kids /\ scope \in Scopes
  BY DEF Kids, Scopes
<1>3. NoLot \in Lots
  BY DEF NoLot, Lots, Kids, Scopes
<1> QED
  BY <1>1, <1>2, <1>3 DEF Lots

\* The types hold at the start.
LEMMA InitType ==
  ASSUME Init
  PROVE  PInv
<1>1. PICK old \in SUBSET Legacy, entry \in {0, LegacyQty}, scope \in {s.scope : s \in Sources} :
        /\ lot = [i \in Intents |-> IF i \in old
                    THEN [NoLot EXCEPT !.qty = LegacyQty, !.entry = entry, !.scope = scope]
                    ELSE NoLot]
        /\ keeps = [i \in Intents |-> IF i \in old THEN LegacyQty ELSE 0]
  BY DEF Init
<1>2. NoLot \in Lots /\ NoLot.qty = 0 /\ NoLot.entry = 0 /\ NoNumbers \in Numbers
  BY DEF NoLot, Lots, NoNumbers, Numbers, Kids, Scopes
<1> DEFINE o == [NoLot EXCEPT !.qty = LegacyQty, !.entry = entry, !.scope = scope]
<1>3. o \in Lots /\ o.qty = LegacyQty /\ o.entry = entry
  BY OldLot
<1> HIDE DEF o
<1>4. \A i \in Intents : lot[i] = (IF i \in old THEN o ELSE NoLot)
  BY <1>1 DEF o
<1>5. lot \in [Intents -> Lots]
  <2>1. lot = [i \in Intents |-> lot[i]]
    BY <1>1
  <2> QED BY <1>2, <1>3, <1>4, <2>1
<1>6. row = [i \in Intents |-> NoNumbers]
  BY DEF Init
<1>7. \A i \in Intents : /\ lot[i].qty <= AtLeast(lot[i].entry, LegacyQty)
                         /\ lot[i].qty = 0 => lot[i] = NoLot /\ row[i] = NoNumbers
  BY <1>2, <1>3, <1>4, <1>6 DEF AtLeast, LegacyQty
<1>8. LotOK
  BY <1>2, <1>5, <1>6, <1>7 DEF LotOK
<1>9. SnapOK
  BY DEF Init, SnapOK, Known
<1>10. MeansOK
  <2>1. capital \in Capitals \cup {0} /\ saved \in Capitals \cup {0}
    BY DEF Init
  <2>2. lastW \in [NightBooks -> 0 .. 20]
    BY DEF Init
  <2>3. day = 0 /\ sharesOf = 0 /\ MaxDay \in Nat
    BY Books DEF Init
  <2> QED BY <2>1, <2>2, <2>3 DEF MeansOK
<1>11. HistoryOK
  <2>1. keeps \in [Intents -> Nat]
    BY <1>1 DEF LegacyQty
  <2> QED BY <2>1 DEF Init, HistoryOK
<1> QED
  BY <1>8, <1>9, <1>10, <1>11 DEF PInv

\* Every step keeps the types.
LEMMA NextType ==
  ASSUME PInv, [Next]_vars
  PROVE  PInv'
<1>1. CASE UNCHANGED vars
  BY <1>1 DEF vars, means, PInv, SnapOK, LotOK, MeansOK, HistoryOK, Known
<1>2. ASSUME NEW s \in Sources, Publish(s) PROVE PInv'
  BY <1>2, PublishType
<1>3. CASE NewDay
  <2>1. /\ snap' = snap /\ number' = number /\ lot' = lot /\ row' = row /\ terminal' = terminal
        /\ lastW' = lastW /\ capital' = capital /\ saved' = saved /\ sharesOf' = sharesOf
        /\ bought' = bought /\ keeps' = keeps /\ day' = day + 1 /\ day < MaxDay
    BY <1>3 DEF NewDay, means
  <2>2. MeansOK'
    <3>1. day \in 0 .. MaxDay /\ sharesOf \in 0 .. day /\ MaxDay \in Nat
      BY Books DEF PInv, MeansOK
    <3>2. day' \in 0 .. MaxDay /\ sharesOf' \in 0 .. day'
      BY <2>1, <3>1
    <3> QED BY <2>1, <3>2 DEF PInv, MeansOK
  <2> QED BY <2>1, <2>2 DEF PInv, SnapOK, LotOK, HistoryOK, Known
<1>4. CASE ShareOut
  <2>1. PICK r \in Capital : capital' = r.capital /\ saved' = r.saved
    BY <1>4 DEF ShareOut
  <2>2. /\ snap' = snap /\ number' = number /\ lot' = lot /\ row' = row /\ terminal' = terminal
        /\ lastW' = lastW /\ bought' = bought /\ keeps' = keeps /\ day' = day /\ sharesOf' = day
    BY <1>4 DEF ShareOut
  <2>3. MeansOK'
    <3>1. day \in 0 .. MaxDay /\ MaxDay \in Nat
      BY Books DEF PInv, MeansOK
    <3>2. sharesOf' \in 0 .. day' /\ day' \in 0 .. MaxDay
      BY <2>2, <3>1
    <3> QED BY <2>1, <2>2, <3>2, CapitalIs DEF PInv, MeansOK
  <2> QED BY <2>2, <2>3 DEF PInv, SnapOK, LotOK, HistoryOK, Known
<1>5. CASE Sync
  <2>1. /\ snap' = snap /\ number' = number /\ lot' = Recorded /\ row' = row /\ terminal' = terminal
        /\ lastW' = lastW /\ capital' = capital /\ saved' = saved /\ sharesOf' = sharesOf
        /\ bought' = bought /\ keeps' = keeps /\ day' = day
    BY <1>5 DEF Sync, means
  <2>2. LotOK'
    BY <2>1, RecordedType
  <2> QED BY <2>1, <2>2 DEF PInv, SnapOK, MeansOK, HistoryOK, Known
<1>6. CASE Restart
  <2>1. /\ snap' = [s \in Sources |-> <<>>] /\ number' = number /\ lot' = Recorded /\ row' = row
        /\ terminal' = terminal /\ lastW' = [s \in NightBooks |-> 0] /\ sharesOf' = day
        /\ bought' = bought /\ keeps' = keeps /\ day' = day
    BY <1>6 DEF Restart
  <2>2. capital' \in Capitals \cup {0} /\ saved' \in Capitals \cup {0}
    BY <1>6, CapitalIs DEF Restart
  <2>3. LotOK'
    BY <2>1, RecordedType
  <2>4. MeansOK'
    <3>1. day \in 0 .. MaxDay /\ MaxDay \in Nat
      BY Books DEF PInv, MeansOK
    <3>2. sharesOf' \in 0 .. day' /\ day' \in 0 .. MaxDay
      BY <2>1, <3>1
    <3>3. lastW' \in [NightBooks -> 0 .. 20]
      BY <2>1
    <3> QED BY <2>2, <3>2, <3>3 DEF MeansOK
  <2>5. SnapOK'
    BY <2>1 DEF SnapOK, Known
  <2> QED BY <2>1, <2>3, <2>4, <2>5 DEF PInv, HistoryOK
<1>7. CASE Trade
  BY <1>7, TickType DEF Trade
<1>8. ASSUME NEW i \in Intents, NEW works \in BOOLEAN, LocalExit(i, works) PROVE PInv'
  BY <1>8, LocalExitType
<1> QED
  BY <1>1, <1>2, <1>3, <1>4, <1>5, <1>6, <1>7, <1>8 DEF Next

\* What the proofs use of the types implies the type invariant.
LEMMA TypeFrom ==
  ASSUME PInv
  PROVE  TypeOK
<1>1. \A i \in Intents :
       /\ lot[i].qty \in 0 .. AtLeast(lot[i].entry, LegacyQty) /\ lot[i].entry \in Nat
       /\ {lot[i].stop, lot[i].te, row[i].stop, row[i].te} \subseteq {0, 1}
       /\ {lot[i].tp, row[i].tp} \subseteq {None, 0, 1}
       /\ lot[i].qty = 0 => lot[i] = NoLot
  <2> TAKE i \in Intents
  <2>1. /\ lot[i].qty \in Nat /\ lot[i].entry \in Nat
        /\ lot[i].stop \in {0, 1} /\ lot[i].te \in {0, 1} /\ lot[i].tp \in {None, 0, 1}
        /\ row[i].stop \in {0, 1} /\ row[i].te \in {0, 1} /\ row[i].tp \in {None, 0, 1}
    BY LotIs
  <2>2. /\ lot[i].qty <= AtLeast(lot[i].entry, LegacyQty) /\ (lot[i].qty = 0 => lot[i] = NoLot)
    BY DEF PInv, LotOK
  <2>3. AtLeast(lot[i].entry, LegacyQty) \in Nat
    BY <2>1 DEF AtLeast, LegacyQty
  <2>4. lot[i].qty \in 0 .. AtLeast(lot[i].entry, LegacyQty)
    BY <2>1, <2>2, <2>3
  <2> QED BY <2>1, <2>2, <2>4
<1>2. {capital, saved} \subseteq Capitals \cup {0} /\ day \in 0 .. MaxDay /\ sharesOf \in 0 .. day
  BY DEF PInv, MeansOK
<1>3. number \in [Intents -> {0, 1}] /\ terminal \subseteq Intents
  BY DEF PInv, HistoryOK
<1>4. \A s \in Sources : s \in Known => /\ DOMAIN snap[s] = Of(s)
                                        /\ \A i \in Of(s) : snap[s][i] \in Wants[i]
  BY DEF PInv, SnapOK
<1> QED
  BY <1>1, <1>2, <1>3, <1>4 DEF TypeOK

\* The types hold in every state.
LEMMA Types == Spec => []PInv
<1>1. Init => PInv
  BY InitType
<1>2. PInv /\ [Next]_vars => PInv'
  BY NextType
<1> QED
  BY <1>1, <1>2, PTL DEF Spec

\* The variables keep their types: among them, a lot is never more than what was entered,
\* and one that is sold leaves nothing of itself behind.
THEOREM TypeCorrect == Spec => []TypeOK
<1>1. PInv => TypeOK
  BY TypeFrom
<1> QED
  BY <1>1, Types, PTL

-----------------------------------------------------------------------------
(* What an untouched, a treated and an entered lot have in common.         *)

\* The lot is the same but for its numbers
SameLot(i) == /\ lot'[i].qty = lot[i].qty /\ lot'[i].entry = lot[i].entry
              /\ lot'[i].kid = lot[i].kid /\ lot'[i].scope = lot[i].scope

\* A step that takes nothing from a lot but by a sale
LEMMA TreatedKeeps ==
  ASSUME PInv, NEW phase, NEW works \in BOOLEAN, NEW liquidate \in BOOLEAN, NEW bar, NEW i \in Intents,
         LET p == PlanOf(liquidate, phase, bar) IN Treated(i, p, phase, works, liquidate)
  PROVE  LET q == QtyOf(PlanOf(liquidate, phase, bar), phase, i) IN
         \/ SameLot(i)
         \/ q = lot[i].qty /\ q > 0 /\ lot'[i] = NoLot /\ i \in terminal'
         \/ /\ q > 0 /\ q < lot[i].qty /\ lot'[i].qty = lot[i].qty - q /\ lot'[i].entry = lot[i].entry
            /\ lot'[i].kid = lot[i].kid /\ lot'[i].scope = lot[i].scope
<1> DEFINE p == PlanOf(liquidate, phase, bar)
           q == QtyOf(p, phase, i)
           tps == TpsOf(p, phase, works, liquidate)
           l == lot[i]
<1>1. l \in Lots /\ l.qty \in Nat
  BY LotIs
<1>2. q \in Nat /\ q <= l.qty
  BY PlanOfIs
<1>3. \/ i \in SoldOf(p, phase, works) /\ lot'[i] = Sold(l, q) /\ (q = l.qty => i \in terminal')
      \/ lot'[i] = Updated(i, tps)
      \/ lot'[i] = [l EXCEPT !.tp = None]
      \/ lot'[i] = l
  BY DEF Treated
<1> HIDE DEF tps
<1>4. CASE i \in SoldOf(p, phase, works) /\ lot'[i] = Sold(l, q) /\ (q = l.qty => i \in terminal')
  <2>1. q > 0
    BY <1>4 DEF SoldOf
  <2> HIDE DEF p, q, l
  <2>2. CASE q = l.qty
    BY <1>4, <2>1, <2>2 DEF Sold, q, p, l
  <2>3. CASE q # l.qty
    <3>1. lot'[i] = [l EXCEPT !.qty = @ - q, !.tp = None]
      BY <1>4, <2>3 DEF Sold
    <3>2. /\ lot'[i].qty = l.qty - q /\ lot'[i].entry = l.entry
          /\ lot'[i].kid = l.kid /\ lot'[i].scope = l.scope
      BY <1>1, <3>1 DEF Lots
    <3>3. q < l.qty
      BY <1>1, <1>2, <2>3
    <3> QED BY <2>1, <3>2, <3>3 DEF q, p, l
  <2> QED BY <2>2, <2>3
<1>5. CASE lot'[i] = Updated(i, tps)
  BY <1>1, <1>5 DEF Updated, SameLot, Lots
<1>6. CASE lot'[i] = [l EXCEPT !.tp = None]
  BY <1>1, <1>6 DEF SameLot, Lots
<1>7. CASE lot'[i] = l
  BY <1>7 DEF SameLot
<1> QED
  BY <1>3, <1>4, <1>5, <1>6, <1>7

\* Recording the source of a lot changes neither its size nor that it is held.
LEMMA RecordedSame ==
  ASSUME PInv, lot' = Recorded, NEW i \in Intents
  PROVE  SameLot(i)
<1>1. lot'[i] = [lot[i] EXCEPT !.stop = row[i].stop, !.te = row[i].te, !.tp = row[i].tp] /\ lot[i] \in Lots
  BY LotIs DEF Recorded
<1> QED
  BY <1>1 DEF SameLot, Lots

\* What the steps between ticks do to lots, entries and histories.
LEMMA Between ==
  ASSUME PInv, [Next]_vars, ~Trade, ~\E s \in Sources : Publish(s), NEW i \in Intents
  PROVE  /\ bought'[i] = bought[i] /\ terminal \subseteq terminal'
         /\ number' = number
         /\ \A s \in Sources : snap'[s] = snap[s] \/ snap'[s] = <<>>
         /\ \/ SameLot(i) /\ keeps'[i] = keeps[i]
            \/ SameLot(i) /\ keeps'[i] = 0
            \/ lot'[i] = NoLot /\ keeps'[i] = 0 /\ i \in terminal'
<1>1. CASE UNCHANGED vars
  BY <1>1 DEF vars, SameLot
<1>2. CASE NewDay \/ ShareOut
  BY <1>2 DEF NewDay, ShareOut, SameLot
<1>3. CASE Sync
  BY <1>3, RecordedSame DEF Sync
<1>4. CASE Restart
  BY <1>4, RecordedSame DEF Restart
<1>5. ASSUME NEW j \in Intents, NEW works \in BOOLEAN, LocalExit(j, works)
      PROVE  /\ bought'[i] = bought[i] /\ terminal \subseteq terminal' /\ number' = number /\ snap' = snap
             /\ \/ SameLot(i) /\ keeps'[i] = keeps[i]
                \/ SameLot(i) /\ keeps'[i] = 0
                \/ lot'[i] = NoLot /\ keeps'[i] = 0 /\ i \in terminal'
  <2>1. /\ bought' = bought /\ number' = number /\ snap' = snap
        /\ terminal' = IF works THEN terminal \cup {j} ELSE terminal
        /\ lot' = [lot EXCEPT ![j] = IF works THEN NoLot ELSE [@ EXCEPT !.tp = None]]
        /\ keeps' = [keeps EXCEPT ![j] = 0]
    BY <1>5 DEF LocalExit
  <2>2. lot \in [Intents -> Lots] /\ keeps \in [Intents -> Nat] /\ lot[i] \in Lots
    BY LotIs DEF PInv, LotOK, HistoryOK
  <2>3. terminal \subseteq terminal' /\ (works => j \in terminal')
    BY <2>1
  <2>4. CASE i # j
    <3>1. lot'[i] = lot[i] /\ keeps'[i] = keeps[i]
      BY <2>1, <2>2, <2>4
    <3> QED BY <2>1, <2>3, <3>1 DEF SameLot
  <2>5. CASE i = j
    <3>1. keeps'[i] = 0 /\ lot'[i] = IF works THEN NoLot ELSE [lot[i] EXCEPT !.tp = None]
      BY <2>1, <2>2, <2>5
    <3>2. ~works => SameLot(i)
      BY <2>2, <3>1 DEF SameLot, Lots
    <3> QED BY <2>1, <2>3, <2>5, <3>1, <3>2
  <2> QED BY <2>4, <2>5
<1> QED
  BY <1>1, <1>2, <1>3, <1>4, <1>5 DEF Next

-----------------------------------------------------------------------------
(* No intent is entered twice.                                             *)

\* An intent that was entered is over, or its lot is there and of a source that lists it
OnceAt(i) ==
  /\ bought[i] <= 1
  /\ bought[i] > 0 => \/ i \in terminal
                      \/ i \in Held /\ \E s \in Sources : i \in Of(s) /\ lot[i].kid = s.kid /\ lot[i].scope = s.scope
Once == \A i \in Intents : OnceAt(i)

\* No intent is listed by two sources
OwnIntents == \A s, t \in Sources : Of(s) \cap Of(t) # {} => s = t

\* An intent that is not entered in a step stays entered at most once.
LEMMA OnceIf ==
  ASSUME Once, NEW i \in Intents, bought'[i] = bought[i], terminal \subseteq terminal',
         SameLot(i) \/ i \in terminal'
  PROVE  OnceAt(i)'
<1>1. OnceAt(i)
  BY DEF Once
<1> QED
  BY <1>1 DEF OnceAt, SameLot, Held

\* A tick, or a local exit, enters an intent only if it was never entered.
LEMMA OnceTick ==
  ASSUME OwnIntents, PInv, Once, Trade, NEW i \in Intents
  PROVE  OnceAt(i)'
<1>1. PICK phase \in Phases, works \in BOOLEAN, liquidate \in BOOLEAN, bar \in Bars :
        Tick(phase, works, liquidate, bar)
  BY DEF Trade
<1> DEFINE p == PlanOf(liquidate, phase, bar)
           e == FirstOf(p.enters, i)
           q == QtyOf(p, phase, i)
<1>2. terminal \subseteq terminal'
  BY <1>1, TickShape
<1>3. OnceAt(i) /\ lot[i].qty \in Nat /\ bought[i] \in 0 .. 2
  BY LotIs DEF Once, PInv, HistoryOK
<1>4. CASE /\ e.id = i /\ e \in Entries
           /\ SoundEntry(e, bar \cup Closed(phase)) /\ Fulfilled(i, e)
  <2> HIDE DEF e
  <2>1. e.src \in Known /\ i \in Of(e.src) /\ i \notin HeldBy(e.src) /\ i \notin terminal /\ e.qty \in Nat \ {0}
    BY <1>4 DEF SoundEntry, Enterable
  <2>2. e.src \in Sources
    BY <2>1 DEF Known
  <2>3. bought[i] = 0
    <3> SUFFICES ASSUME bought[i] > 0 PROVE FALSE
      BY <1>3
    <3>1. PICK s \in Sources : i \in Of(s) /\ lot[i].kid = s.kid /\ lot[i].scope = s.scope
      BY <1>3, <2>1 DEF OnceAt
    <3>2. i \in Held
      BY <1>3, <2>1 DEF OnceAt
    <3>3. s = e.src
      BY <2>1, <2>2, <3>1 DEF OwnIntents
    <3> QED BY <2>1, <3>1, <3>2, <3>3 DEF HeldBy, Owns
  <2>4. /\ bought'[i] = 1 /\ lot'[i].qty > 0
        /\ lot'[i].kid = e.src.kid /\ lot'[i].scope = e.src.scope
    BY <1>4, <2>1, <2>3 DEF Fulfilled, AtMost
  <2>5. i \in Held'
    BY <2>4 DEF Held
  <2> QED BY <2>1, <2>2, <2>4, <2>5 DEF OnceAt
<1>5. CASE Treated(i, p, phase, works, liquidate)
  <2>1. bought'[i] = bought[i]
    BY <1>5 DEF Treated
  <2>2. \/ SameLot(i)
        \/ i \in terminal'
        \/ /\ q > 0 /\ q < lot[i].qty /\ lot'[i].qty = lot[i].qty - q
           /\ lot'[i].kid = lot[i].kid /\ lot'[i].scope = lot[i].scope
    BY <1>5, TreatedKeeps
  <2>3. q \in Nat
    BY PlanOfIs
  <2> HIDE DEF q
  <2>4. CASE SameLot(i) \/ i \in terminal'
    BY <1>2, <2>1, <2>4, OnceIf
  <2>5. CASE /\ q > 0 /\ q < lot[i].qty /\ lot'[i].qty = lot[i].qty - q
             /\ lot'[i].kid = lot[i].kid /\ lot'[i].scope = lot[i].scope
    <3>1. lot'[i].qty > 0
      BY <1>3, <2>3, <2>5
    <3> QED BY <1>2, <1>3, <2>1, <2>5, <3>1 DEF OnceAt, Held
  <2> QED BY <2>2, <2>4, <2>5
<1>6. \/ /\ e.id = i /\ e \in Entries
         /\ SoundEntry(e, bar \cup Closed(phase)) /\ Fulfilled(i, e)
      \/ Treated(i, p, phase, works, liquidate)
  BY <1>1, TickTreats
<1> QED
  BY <1>4, <1>5, <1>6

\* Once is inductive.
LEMMA OnceNext ==
  ASSUME OwnIntents, PInv, Once, [Next]_vars
  PROVE  Once'
<1> SUFFICES ASSUME NEW i \in Intents PROVE OnceAt(i)'
  BY DEF Once
<1>1. CASE Trade
  BY <1>1, OnceTick
<1>2. ASSUME NEW s \in Sources, Publish(s) PROVE OnceAt(i)'
  <2>1. bought' = bought /\ terminal' = terminal /\ lot' = lot
    BY <1>2 DEF Publish
  <2>2. SameLot(i)
    BY <2>1 DEF SameLot
  <2> QED BY <2>1, <2>2, OnceIf
<1>3. CASE ~Trade /\ ~\E s \in Sources : Publish(s)
  <2>1. bought'[i] = bought[i] /\ terminal \subseteq terminal' /\ (SameLot(i) \/ i \in terminal')
    BY <1>3, Between
  <2> QED BY <2>1, OnceIf
<1> QED
  BY <1>1, <1>2, <1>3

\* No intent is entered twice, whatever its publisher repeats and whatever was sold between:
\* an intent that was bought is over, or is a lot of the source that lists it.
THEOREM NotEnteredTwice ==
  ASSUME OwnIntents
  PROVE  Spec => []EnteredOnce
<1>1. Init => Once
  BY DEF Init, Once, OnceAt
<1>2. PInv /\ Once /\ [Next]_vars => Once'
  BY OnceNext
<1>3. Once => EnteredOnce
  BY DEF Once, OnceAt, EnteredOnce
<1> QED
  BY <1>1, <1>2, <1>3, Types, PTL DEF Spec

-----------------------------------------------------------------------------
(* The kept share.                                                         *)

\* A sale leaves what the wish leaves.
LEMMA SaleLeaves ==
  ASSUME NEW i \in Intents, NEW w \in 0 .. 4, lot[i].qty \in Nat, lot[i].entry \in Nat, Reduce(i, w) # 0
  PROVE  /\ w = 0 \/ lot[i].entry > 0
         /\ Stays(i, lot[i].entry, w) <= lot[i].qty - Reduce(i, w)
<1> DEFINE keep == Keep(lot[i].entry, w)
<1>1. keep \in Nat
  BY KeepIs
<1>2. CASE w = 0
  <2>1. Stays(i, lot[i].entry, w) = 0 /\ Reduce(i, w) = lot[i].qty
    BY <1>2, StaysIs DEF Reduce
  <2> QED BY <1>2, <2>1
<1>3. CASE w # 0 /\ keep * Price[i] < MinValue(i)
  <2>1. lot[i].entry # 0 /\ Reduce(i, w) = lot[i].qty /\ Stays(i, lot[i].entry, w) = 0
    BY <1>3 DEF Reduce, Stays
  <2> QED BY <2>1
<1>4. CASE w # 0 /\ ~(keep * Price[i] < MinValue(i))
  <2>1. lot[i].entry # 0 /\ Reduce(i, w) = lot[i].qty - keep /\ Stays(i, lot[i].entry, w) = keep
    BY <1>4 DEF Reduce, Stays
  <2> QED BY <1>1, <2>1
<1> QED
  BY <1>2, <1>3, <1>4

\* The last snapshot of a source asks to sell no more of its lot than leaves what is kept
Bound(i, s) == /\ i \in Of(s) /\ lot[i].scope = s.scope /\ lot[i].kid \in {"", s.kid}
               /\ snap[s][i] # None /\ (snap[s][i] = 0 \/ lot[i].entry > 0)
KeptOf(i, s) == Bound(i, s) => keeps[i] <= Stays(i, lot[i].entry, snap[s][i])
KeptAt(i) == keeps[i] <= lot[i].qty /\ \A s \in Known : KeptOf(i, s)
Kept == \A i \in Intents : KeptAt(i)

\* What is asked of an intent is a number of quarters.
LEMMA WishIs ==
  ASSUME PInv, NEW s \in Known, NEW i \in Of(s), snap[s][i] # None
  PROVE  snap[s][i] \in 0 .. 4 /\ s \in Sources /\ i \in Intents
BY ReadableIs, Constants DEF Readable, Known

\* A step that sells nothing of what is kept, and publishes nothing for the lot, keeps it.
LEMMA KeptIf ==
  ASSUME PInv, Kept, NEW i \in Intents, keeps'[i] \in Nat, keeps'[i] <= keeps[i],
         \A s \in Sources : snap'[s] = snap[s] \/ snap'[s] = <<>>,
         lot'[i].qty \in Nat, keeps'[i] <= lot'[i].qty,
         lot'[i].entry = lot[i].entry, lot'[i].kid = lot[i].kid, lot'[i].scope = lot[i].scope
  PROVE  KeptAt(i)'
<1> SUFFICES ASSUME NEW s \in Known' PROVE KeptOf(i, s)'
  BY DEF KeptAt
<1>1. snap'[s] = snap[s] /\ s \in Known
  BY DEF Known
<1> SUFFICES ASSUME Bound(i, s) PROVE keeps'[i] <= Stays(i, lot[i].entry, snap[s][i])
  BY <1>1 DEF KeptOf, Bound, Stays
<1>2. keeps[i] <= Stays(i, lot[i].entry, snap[s][i])
  BY <1>1 DEF Kept, KeptAt, KeptOf
<1>3. snap[s][i] \in 0 .. 4 /\ lot[i].entry \in Nat /\ keeps[i] \in Nat
  BY <1>1, WishIs, LotIs DEF Bound, PInv, HistoryOK
<1>4. Stays(i, lot[i].entry, snap[s][i]) \in Nat
  BY <1>3, StaysIs
<1> QED
  BY <1>2, <1>3, <1>4

\* Of a lot that is gone nothing is kept.
LEMMA KeptGone ==
  ASSUME PInv', NEW i \in Intents, keeps'[i] = 0
  PROVE  KeptAt(i)'
<1>1. lot'[i].qty \in Nat /\ lot'[i].entry \in Nat
  BY DEF PInv, LotOK, Lots
<1>2. 0 <= lot'[i].qty
  BY <1>1
<1> SUFFICES ASSUME NEW s \in Known' PROVE KeptOf(i, s)'
  BY <1>2 DEF KeptAt
<1> DEFINE w == snap'[s][i]
<1> SUFFICES ASSUME i \in Of(s), w # None PROVE 0 <= Stays(i, lot'[i].entry, w)
  BY DEF KeptOf, Bound, Stays
<1>3. w \in Wants[i]
  BY DEF PInv, SnapOK, Known
<1>4. Wants[i] \subseteq (0 .. 4) \cup {None}
  BY PlanAssumption, Zenon
<1> HIDE DEF w
<1>5. w \in 0 .. 4
  BY <1>3, <1>4
<1>6. Stays(i, lot'[i].entry, w) \in Nat
  BY <1>1, <1>5, StaysIs
<1> QED
  BY <1>6

\* A tick sells no share that its publisher never asked to sell.
LEMMA KeptTick ==
  ASSUME PInv, PInv', Kept, Trade, NEW i \in Intents
  PROVE  KeptAt(i)'
<1>1. PICK phase \in Phases, works \in BOOLEAN, liquidate \in BOOLEAN, bar \in Bars :
        Tick(phase, works, liquidate, bar)
  BY DEF Trade
<1> DEFINE p == PlanOf(liquidate, phase, bar)
           e == FirstOf(p.enters, i)
           q == QtyOf(p, phase, i)
<1>2. snap' = snap
  BY <1>1, TickShape
<1>3. /\ lot[i].qty \in Nat /\ lot[i].entry \in Nat /\ keeps[i] \in Nat /\ keeps[i] <= lot[i].qty
      /\ lot'[i].qty \in Nat /\ keeps'[i] \in Nat
  <2>1. lot[i].qty \in Nat /\ lot[i].entry \in Nat
    BY LotIs
  <2>2. keeps[i] \in Nat /\ keeps[i] <= lot[i].qty
    BY DEF Kept, KeptAt, PInv, HistoryOK
  <2>3. lot'[i].qty \in Nat
    BY DEF PInv, LotOK, Lots
  <2>4. keeps'[i] \in Nat
    BY DEF PInv, HistoryOK
  <2> QED BY <2>1, <2>2, <2>3, <2>4
<1>4. CASE /\ e.id = i /\ e \in Entries
           /\ SoundEntry(e, bar \cup Closed(phase)) /\ Fulfilled(i, e)
  <2> HIDE DEF e
  <2>1. e.src \in Known /\ i \in Of(e.src) /\ snap[e.src][i] # None /\ e.qty \in Nat
    BY <1>4 DEF SoundEntry
  <2>2. e.src \in Sources /\ snap[e.src][i] \in 0 .. 4
    BY <2>1, WishIs
  <2>3. Stays(i, e.qty, snap[e.src][i]) <= e.qty
    BY <2>1, <2>2, StaysIs
  <2>4. /\ lot'[i].qty = e.qty /\ lot'[i].entry = e.qty /\ lot'[i].kid = e.src.kid /\ lot'[i].scope = e.src.scope
        /\ keeps'[i] = Stays(i, e.qty, snap[e.src][i])
    BY <1>4 DEF Fulfilled
  <2>5. e.src.kid # "" /\ \A s \in Sources : e.src.kid = s.kid /\ e.src.scope = s.scope => s = e.src
    BY <2>2, Constants
  <2>6. keeps'[i] <= lot'[i].qty
    BY <2>3, <2>4
  <2> SUFFICES ASSUME NEW s \in Known', lot'[i].scope = s.scope, lot'[i].kid \in {"", s.kid}
               PROVE  keeps'[i] <= Stays(i, lot'[i].entry, snap'[s][i])
    BY <2>6 DEF KeptAt, KeptOf, Bound, Stays
  <2>7. s = e.src
    BY <2>4, <2>5 DEF Known
  <2> QED BY <1>2, <1>3, <2>4, <2>7
<1>5. CASE liquidate /\ Treated(i, p, phase, works, liquidate)
  <2>1. keeps'[i] = 0
    BY <1>5 DEF Treated
  <2> QED BY <2>1, KeptGone
<1>6. CASE ~liquidate /\ Treated(i, p, phase, works, liquidate)
  <2>1. keeps'[i] = keeps[i]
    BY <1>6 DEF Treated
  <2>2. \/ SameLot(i)
        \/ q = lot[i].qty /\ q > 0 /\ lot'[i] = NoLot
        \/ /\ q > 0 /\ q < lot[i].qty /\ lot'[i].qty = lot[i].qty - q /\ lot'[i].entry = lot[i].entry
           /\ lot'[i].kid = lot[i].kid /\ lot'[i].scope = lot[i].scope
    BY <1>6, TreatedKeeps
  <2>3. q \in Nat
    BY PlanOfIs
  <2>4. q > 0 => keeps[i] <= lot[i].qty - q
    <3> SUFFICES ASSUME q > 0 PROVE keeps[i] <= lot[i].qty - q
      OBVIOUS
    <3>0. AskedFor(i, q)
      BY <1>6, PlanOfIs
    <3>1. PICK s \in Known : Asks(s, i) /\ q = Reduce(i, snap[s][i])
      BY <3>0 DEF AskedFor
    <3>2. snap[s][i] \in 0 .. 4 /\ i \in Of(s) /\ snap[s][i] # None /\ i \in HeldBy(s) /\ Reduce(i, snap[s][i]) # 0
      BY <3>1, WishIs DEF Asks
    <3>3. lot[i].scope = s.scope /\ lot[i].kid \in {"", s.kid}
      BY <3>2 DEF HeldBy, Owns
    <3>4. /\ snap[s][i] = 0 \/ lot[i].entry > 0
          /\ Stays(i, lot[i].entry, snap[s][i]) <= lot[i].qty - Reduce(i, snap[s][i])
      BY <1>3, <3>2, SaleLeaves
    <3>5. keeps[i] <= Stays(i, lot[i].entry, snap[s][i])
      BY <3>2, <3>3, <3>4 DEF Kept, KeptAt, KeptOf, Bound
    <3>6. Stays(i, lot[i].entry, snap[s][i]) \in Nat
      BY <1>3, <3>2, StaysIs
    <3> HIDE DEF q
    <3> QED BY <1>3, <2>3, <3>1, <3>4, <3>5, <3>6
  <2> HIDE DEF q
  <2>5. CASE q = lot[i].qty /\ q > 0 /\ lot'[i] = NoLot
    <3>1. keeps'[i] = 0
      BY <1>3, <2>1, <2>4, <2>5
    <3> QED BY <3>1, KeptGone
  <2>6. CASE SameLot(i)
    <3>1. keeps'[i] <= keeps[i] /\ keeps'[i] <= lot'[i].qty
      BY <1>3, <2>1, <2>6 DEF SameLot
    <3> QED BY <1>2, <1>3, <2>6, <3>1, KeptIf DEF SameLot
  <2>7. CASE /\ q > 0 /\ q < lot[i].qty /\ lot'[i].qty = lot[i].qty - q /\ lot'[i].entry = lot[i].entry
             /\ lot'[i].kid = lot[i].kid /\ lot'[i].scope = lot[i].scope
    <3>1. keeps'[i] <= keeps[i] /\ keeps'[i] <= lot'[i].qty
      BY <1>3, <2>1, <2>4, <2>7
    <3> QED BY <1>2, <1>3, <2>7, <3>1, KeptIf
  <2> QED BY <2>2, <2>5, <2>6, <2>7
<1>7. \/ /\ e.id = i /\ e \in Entries
         /\ SoundEntry(e, bar \cup Closed(phase)) /\ Fulfilled(i, e)
      \/ Treated(i, p, phase, works, liquidate)
  BY <1>1, TickTreats
<1> QED
  BY <1>4, <1>5, <1>6, <1>7

\* A publication that asks for less lowers what is kept with it.
LEMMA KeptPublish ==
  ASSUME PInv, PInv', Kept, NEW s \in Sources, Publish(s), NEW i \in Intents
  PROVE  KeptAt(i)'
<1>1. PICK wants \in [Of(s) -> UNION {Wants[j] : j \in Of(s)}] :
        /\ \A j \in Of(s) : wants[j] \in Wants[j]
        /\ snap' = [snap EXCEPT ![s] = wants]
        /\ keeps' = [j \in Intents |-> IF j \in Of(s) /\ j \in Held /\ lot[j].scope = s.scope
                                       THEN Left(j, wants[j]) ELSE keeps[j]]
        /\ lot' = lot
  BY DEF Publish
<1>2. /\ lot[i].qty \in Nat /\ lot[i].entry \in Nat /\ keeps[i] \in Nat /\ keeps[i] <= lot[i].qty
      /\ keeps'[i] \in Nat
  BY LotIs DEF Kept, KeptAt, PInv, HistoryOK
<1>3. snap'[s] = wants /\ \A t \in Sources : t # s => snap'[t] = snap[t]
  BY <1>1 DEF PInv, SnapOK
<1>4. ASSUME i \in Of(s), wants[i] # None
      PROVE  wants[i] \in 0 .. 4 /\ Stays(i, lot[i].entry, wants[i]) \in Nat
  <2>1. Wants[i] \subseteq (0 .. 4) \cup {None}
    BY PlanAssumption, Zenon
  <2>2. wants[i] \in 0 .. 4
    BY <1>1, <1>4, <2>1
  <2> QED BY <1>2, <2>2, StaysIs
<1>5. keeps'[i] = keeps[i] \/ (i \in Of(s) /\ keeps'[i] = Left(i, wants[i]))
  BY <1>1
<1>6. keeps'[i] <= keeps[i]
  <2>1. CASE keeps'[i] = keeps[i]
    BY <1>2, <2>1
  <2>2. CASE i \in Of(s) /\ keeps'[i] = Left(i, wants[i])
    <3>1. CASE wants[i] = None
      BY <1>2, <2>2, <3>1 DEF Left
    <3>2. CASE wants[i] # None
      BY <1>2, <1>4, <2>2, <3>2 DEF Left, AtMost
    <3> QED BY <3>1, <3>2
  <2> QED BY <1>5, <2>1, <2>2
<1>7. keeps'[i] <= lot[i].qty
  BY <1>2, <1>6
<1> SUFFICES ASSUME NEW t \in Known' PROVE KeptOf(i, t)'
  BY <1>1, <1>7 DEF KeptAt
<1> DEFINE w == snap'[t][i]
<1> SUFFICES ASSUME Bound(i, t)' PROVE keeps'[i] <= Stays(i, lot[i].entry, w)
  BY <1>1 DEF KeptOf, Stays
<1>8. CASE t # s
  <2>1. w = snap[t][i] /\ t \in Known /\ i \in Of(t) /\ w # None /\ Bound(i, t)
    BY <1>1, <1>3, <1>8 DEF Known, Bound
  <2> HIDE DEF w
  <2>2. keeps[i] <= Stays(i, lot[i].entry, w)
    BY <2>1 DEF Kept, KeptAt, KeptOf
  <2>3. Stays(i, lot[i].entry, w) \in Nat
    BY <1>2, <2>1, WishIs, StaysIs
  <2> QED BY <1>2, <1>6, <2>2, <2>3
<1>9. CASE t = s
  <2>1. /\ w = wants[i] /\ i \in Of(s) /\ lot[i].scope = s.scope /\ w # None
        /\ w = 0 \/ lot[i].entry > 0
    BY <1>1, <1>3, <1>9 DEF Bound
  <2> HIDE DEF w
  <2>2. Stays(i, lot[i].entry, w) \in Nat /\ w \in 0 .. 4
    BY <1>4, <2>1
  <2>3. CASE i \in Held
    <3>1. keeps'[i] = Left(i, w)
      BY <1>1, <2>1, <2>3
    <3>2. ~(w > 0 /\ lot[i].entry = 0)
      BY <1>2, <2>1, <2>2
    <3>3. Left(i, w) = AtMost(keeps[i], Stays(i, lot[i].entry, w))
      BY <2>1, <3>2 DEF Left
    <3> QED BY <1>2, <2>2, <3>1, <3>3 DEF AtMost
  <2>4. CASE i \notin Held
    <3>1. lot[i].qty = 0
      BY <1>2, <2>4 DEF Held
    <3> QED BY <1>2, <1>7, <2>2, <3>1
  <2> QED BY <2>3, <2>4
<1> QED
  BY <1>8, <1>9

\* Kept is inductive.
LEMMA KeptNext ==
  ASSUME PInv, PInv', Kept, [Next]_vars
  PROVE  Kept'
<1> SUFFICES ASSUME NEW i \in Intents PROVE KeptAt(i)'
  BY DEF Kept
<1>1. CASE Trade
  BY <1>1, KeptTick
<1>2. ASSUME NEW s \in Sources, Publish(s) PROVE KeptAt(i)'
  BY <1>2, KeptPublish
<1>3. CASE ~Trade /\ ~\E s \in Sources : Publish(s)
  <2>1. /\ \A s \in Sources : snap'[s] = snap[s] \/ snap'[s] = <<>>
        /\ (SameLot(i) /\ keeps'[i] = keeps[i]) \/ keeps'[i] = 0
    BY <1>3, Between
  <2>2. CASE SameLot(i) /\ keeps'[i] = keeps[i]
    <3>1. keeps[i] \in Nat /\ lot[i].qty \in Nat /\ keeps[i] <= lot[i].qty
      BY LotIs DEF Kept, KeptAt, PInv, HistoryOK
    <3>2. /\ keeps'[i] \in Nat /\ keeps'[i] <= keeps[i] /\ lot'[i].qty \in Nat /\ keeps'[i] <= lot'[i].qty
          /\ lot'[i].entry = lot[i].entry /\ lot'[i].kid = lot[i].kid /\ lot'[i].scope = lot[i].scope
      BY <2>2, <3>1 DEF SameLot
    <3> QED BY <2>1, <3>2, KeptIf
  <2>3. CASE keeps'[i] = 0
    BY <2>3, KeptGone
  <2> QED BY <2>1, <2>2, <2>3
<1> QED
  BY <1>1, <1>2, <1>3

\* Nothing is kept at the start but what is held.
LEMMA KeptInit ==
  ASSUME Init
  PROVE  Kept
<1>1. \A i \in Intents : keeps[i] <= lot[i].qty
  <2>1. PICK old \in SUBSET Legacy, entry \in {0, LegacyQty}, scope \in {s.scope : s \in Sources} :
          /\ lot = [i \in Intents |-> IF i \in old
                      THEN [NoLot EXCEPT !.qty = LegacyQty, !.entry = entry, !.scope = scope]
                      ELSE NoLot]
          /\ keeps = [i \in Intents |-> IF i \in old THEN LegacyQty ELSE 0]
    BY DEF Init
  <2> DEFINE o == [NoLot EXCEPT !.qty = LegacyQty, !.entry = entry, !.scope = scope]
  <2>2. o.qty = LegacyQty
    BY OldLot
  <2> HIDE DEF o
  <2>3. \A i \in Intents : lot[i] = (IF i \in old THEN o ELSE NoLot)
    BY <2>1 DEF o
  <2>4. NoLot.qty = 0
    BY DEF NoLot
  <2> QED BY <2>1, <2>2, <2>3, <2>4 DEF LegacyQty
<1>2. Known = {}
  BY DEF Init, Known
<1> QED
  BY <1>1, <1>2 DEF Kept, KeptAt

\* What a publisher has never asked to sell is not sold by the plan, for any fraction of it
\* and however often the same snapshot is planned again.
THEOREM ShareIsKept == Spec => []KeptShare
<1>1. Init => Kept
  BY KeptInit
<1>2. PInv /\ PInv' /\ Kept /\ [Next]_vars => Kept'
  BY KeptNext
<1>3. PInv /\ Kept => KeptShare
  <2> SUFFICES ASSUME PInv, Kept, NEW i \in Intents PROVE lot[i].qty >= keeps[i]
    BY DEF KeptShare
  <2>1. lot[i].qty \in Nat /\ keeps[i] \in Nat /\ keeps[i] <= lot[i].qty
    BY LotIs DEF Kept, KeptAt, PInv, HistoryOK
  <2> QED BY <2>1
<1> QED
  BY <1>1, <1>2, <1>3, Types, PTL DEF Spec

-----------------------------------------------------------------------------
(* A plan sells everything that a snapshot asks for.                       *)

\* The plans that sell a given number of shares of an intent
Selling(e) == {p \in Passes : e \in p.exits}

\* The passes that have an exit among theirs.
LEMMA SellingIs ==
  ASSUME NEW e, NEW p
  PROVE  p \in Selling(e) <=> p \in Passes /\ e \in p.exits
BY DEF Selling

\* An exit that was planned stays planned when one more target is.
LEMMA TargetSelling ==
  ASSUME NEW e, NEW p \in Selling(e), NEW s \in Known, NEW i \in Of(s), NEW bar, Readable
  PROVE  PlanTarget(p, s, i, bar) \in Selling(e)
<1> DEFINE q == PlanTarget(p, s, i, bar)
           a == Admit(p.gate, i, Size(s, i))
<1>1. p \in Passes /\ e \in p.exits
  BY SellingIs
<1>2. q \in Passes
  BY <1>1, PlanTargetType
<1>3. \/ q = p
      \/ q = [p EXCEPT !.exits = @ \cup {[id |-> i, qty |-> Reduce(i, snap[s][i])]}]
      \/ q = [p EXCEPT !.gate = a.gate, !.spent = @ + a.qty * Price[i],
                       !.enters = Append(@, [id |-> i, qty |-> a.qty, src |-> s])]
  BY <1>1, PlanTargetIs
<1> HIDE DEF q, a
<1>4. e \in q.exits
  BY <1>1, <1>3 DEF Passes
<1> QED
  BY <1>2, <1>4, SellingIs DEF q

\* The plan of a source exits each lot that its snapshot asks to reduce: the order cap
\* cuts entries alone.
LEMMA BuildSells ==
  ASSUME NEW g \in Gates, NEW s \in Known, NEW bar, Readable, NEW i, Asks(s, i)
  PROVE  [id |-> i, qty |-> Reduce(i, snap[s][i])] \in Build(g, s, bar).exits
<1> DEFINE e == [id |-> i, qty |-> Reduce(i, snap[s][i])]
           n == Len(Targets[s])
<1>1. PICK f : /\ \A k \in 1 .. n : f[k] = PlanTarget(f[k - 1], s, Targets[s][k], bar)
               /\ \A k \in 0 .. n : f[k] \in Passes
               /\ Build(g, s, bar) = OrderCap(f[n])
  BY TargetSteps
<1>2. s \in Sources /\ n \in Nat /\ \A k \in 1 .. n : Targets[s][k] \in Of(s)
  BY Constants DEF Known
<1>3. PICK j \in 1 .. n : Targets[s][j] = i
  BY <1>2 DEF Asks, Of
<1>4. f[j] \in Selling(e)
  <2> DEFINE p == f[j - 1]
  <2>1. p \in Passes
    BY <1>1, <1>2
  <2>2. f[j] = PlanTarget(p, s, i, bar) /\ f[j] \in Passes
    BY <1>1, <1>2, <1>3
  <2> HIDE DEF p
  <2>3. PlanTarget(p, s, i, bar) = Sell(p, i, Reduce(i, snap[s][i]))
    BY DEF PlanTarget, Asks
  <2>4. Sell(p, i, Reduce(i, snap[s][i])) = [p EXCEPT !.exits = @ \cup {e}]
    BY DEF Sell, Asks
  <2> HIDE DEF e
  <2>5. e \in f[j].exits
    BY <2>1, <2>2, <2>3, <2>4 DEF Passes
  <2> QED BY <2>2, <2>5, SellingIs
<1> HIDE DEF e
<1>5. \A k \in 1 .. n : k > j /\ f[k - 1] \in Selling(e) => f[k] \in Selling(e)
  BY <1>1, <1>2, TargetSelling
<1> HIDE DEF n
<1>6. f[n] \in Selling(e)
  <2>1. j \in 0 .. n
    BY <1>2
  <2> QED BY <1>2, <1>4, <1>5, <2>1, PassKeeps
<1>7. e \in Build(g, s, bar).exits
  BY <1>1, <1>6, SellingIs, OrderCapIs
<1> QED
  BY <1>7 DEF e

\* The plan of a tick exits each lot that the snapshot of any source asks to reduce.
LEMMA PlanAllSells ==
  ASSUME NEW seen, \A t \in NightBooks : seen[t] \in Nat, NEW bar, Readable,
         NEW s \in Known, NEW i, Asks(s, i)
  PROVE  [id |-> i, qty |-> Reduce(i, snap[s][i])] \in PlanAll(seen, bar).exits
<1> DEFINE e == [id |-> i, qty |-> Reduce(i, snap[s][i])]
           n == Len(SourceOrder)
<1>1. PICK f : /\ \A k \in 1 .. n : f[k] = Joined(f[k - 1], SourceOrder[k], bar)
               /\ \A k \in 0 .. n : f[k] \in Passes
               /\ PlanAll(seen, bar) = OrderCap(f[n])
  BY SourceSteps
<1>2. n \in Nat /\ \A k \in 1 .. n : SourceOrder[k] \in Sources
  BY Constants
<1>3. PICK j \in 1 .. n : SourceOrder[j] = s
  BY DEF Known, Sources
<1>4. f[j] \in Selling(e)
  <2> DEFINE p == f[j - 1]
             b == Build(p.gate, s, bar)
  <2>1. p \in Passes
    BY <1>1, <1>2
  <2>2. f[j] = Joined(p, s, bar) /\ f[j] \in Passes /\ s \in Sources
    BY <1>1, <1>2, <1>3 DEF Known
  <2> HIDE DEF p
  <2>3. p.gate \in Gates
    BY <2>1 DEF Passes
  <2>4. e \in b.exits
    BY <2>3, BuildSells
  <2>5. Joined(p, s, bar).exits = p.exits \cup b.exits
    BY <2>1, <2>2, JoinedIs
  <2> HIDE DEF b, e
  <2>6. e \in f[j].exits
    BY <2>2, <2>4, <2>5
  <2> QED BY <2>2, <2>6, SellingIs
<1> HIDE DEF e
<1>5. \A k \in 1 .. n : k > j /\ f[k - 1] \in Selling(e) => f[k] \in Selling(e)
  <2> SUFFICES ASSUME NEW k \in 1 .. n, f[k - 1] \in Selling(e) PROVE f[k] \in Selling(e)
    OBVIOUS
  <2> DEFINE p == f[k - 1]
             t == SourceOrder[k]
  <2>1. p \in Passes /\ e \in p.exits /\ t \in Sources /\ f[k] = Joined(p, t, bar)
    BY <1>1, <1>2, SellingIs
  <2> HIDE DEF p, t
  <2>2. Joined(p, t, bar) \in Passes /\ p.exits \subseteq Joined(p, t, bar).exits
    BY <2>1, JoinedIs
  <2> QED BY <2>1, <2>2, SellingIs
<1> HIDE DEF n
<1>6. f[n] \in Selling(e)
  <2>1. j \in 0 .. n
    BY <1>2
  <2> QED BY <1>2, <1>4, <1>5, <2>1, PassKeeps
<1>7. e \in PlanAll(seen, bar).exits
  BY <1>1, <1>6, SellingIs, OrderCapIs
<1> QED
  BY <1>7 DEF e

\* With the market open the tick of a working broker sells all that is asked and nothing else.
LEMMA OpenTickSells ==
  ASSUME PInv, NEW bar, NEW s \in Known, NEW i, i \in Of(s), i \in HeldBy(s), snap[s][i] # None
  PROVE  LET p == PlanOf(FALSE, "continuous", bar)
             r == Reduce(i, snap[s][i])
         IN  /\ r \in Nat /\ QtyOf(p, "continuous", i) = r
             /\ r > 0 => i \in SoldOf(p, "continuous", TRUE)
             /\ r = 0 => i \notin {e.id : e \in p.exits}
<1> DEFINE B == bar \cup Closed("continuous")
           p == PlanAll(Seen, B)
           r == Reduce(i, snap[s][i])
<1>1. PlanOf(FALSE, "continuous", bar) = p
  BY DEF PlanOf
<1>2. s \in Sources /\ i \in Intents /\ snap[s][i] \in 0 .. 4
  BY WishIs
<1>3. r \in Nat
  BY <1>2, LotIs, ReduceIs
<1>4. Readable /\ \A t \in NightBooks : Seen[t] \in Nat
  BY ReadableIs, SeenIs
<1>5. p \in Sound(B)
  BY <1>4, PlanAllSound
<1>6. QtyOf(p, "continuous", i) = ToSell(p.exits, i)
  BY DEF QtyOf, CanExit
<1>7. r > 0 => i \in {e.id : e \in p.exits}
  <2> SUFFICES ASSUME r > 0 PROVE i \in {e.id : e \in p.exits}
    OBVIOUS
  <2>1. Asks(s, i)
    BY <1>3 DEF Asks
  <2>2. [id |-> i, qty |-> r] \in p.exits
    BY <1>4, <2>1, PlanAllSells
  <2> HIDE DEF p, r
  <2>3. [id |-> i, qty |-> r].id = i
    OBVIOUS
  <2> QED BY <2>2, <2>3
<1> HIDE DEF p, B
<1>8. ToSell(p.exits, i) > 0 => ToSell(p.exits, i) = r
  <2> SUFFICES ASSUME ToSell(p.exits, i) > 0 PROVE ToSell(p.exits, i) = r
    OBVIOUS
  <2>1. PICK t \in Known : Asks(t, i) /\ ToSell(p.exits, i) = Reduce(i, snap[t][i])
    BY <1>2, <1>5, PlannedExit
  <2>2. t = s
    BY <2>1, OneOwner DEF Asks
  <2> QED BY <2>1, <2>2
<1>9. ToSell(p.exits, i) \in Nat /\ (i \in {e.id : e \in p.exits} => ToSell(p.exits, i) > 0)
  BY <1>2, <1>5, PlannedExit
<1> HIDE DEF r
<1>10. ToSell(p.exits, i) = r /\ (r = 0 => i \notin {e.id : e \in p.exits})
  BY <1>3, <1>7, <1>8, <1>9
<1>11. r > 0 => i \in SoldOf(p, "continuous", TRUE)
  BY <1>2, <1>6, <1>10 DEF SoldOf, HeldBy
<1> QED
  BY <1>1, <1>3, <1>6, <1>10, <1>11 DEF r

-----------------------------------------------------------------------------
(* Every lot is brought to what its snapshot asks.                         *)

One(b) == IF b THEN 1 ELSE 0

\* Reduce for a lot l
Cut(i, l, w) ==
  LET keep == Keep(l.entry, w)
      sell == l.qty - keep
  IN  IF w = 0 THEN l.qty
      ELSE IF l.entry = 0 THEN 0
      ELSE IF sell <= 0 THEN 0
      ELSE IF keep * Price[i] < MinValue(i) THEN l.qty
      ELSE IF sell * Price[i] < MinValue(i) THEN 0
      ELSE sell

\* Ticks that a lot l may still need: for a partial exit, its stop, its time exit, and its
\* take-profit order, which the exit cancels
TodoOf(i, l, n, w) ==
  One(Cut(i, l, w) > 0) + One(l.stop # n) + One(l.te # n) + One(Cut(i, l, w) > 0 \/ l.tp # n)

\* The store has a number of the lot if the engine has it, and neither has one yet to come
NumbersOK(l, r, n) ==
  /\ n = 0 => /\ l.stop = 0 /\ l.te = 0 /\ r.stop = 0 /\ r.te = 0
              /\ l.tp \in {None, 0} /\ r.tp \in {None, 0}
  /\ l.stop = n => r.stop = n
  /\ l.te = n => r.te = n
  /\ l.tp = n => r.tp = n

\* The source that a lot obeys
Obeys(i, s) == i \in HeldBy(s) /\ i \in Of(s) /\ snap[s][i] # None
Todo(i, s) == TodoOf(i, lot[i], number[i], snap[s][i])
OwedAt(i) ==
  late[i] > 0 => \E s \in Known : Obeys(i, s) /\ late[i] + Todo(i, s) <= MaxLate + 1
NumbersAt(i) == NumbersOK(lot[i], row[i], number[i])
Owed == late \in [Intents -> 0 .. MaxLate] /\ \A i \in Intents : NumbersAt(i) /\ OwedAt(i)

\* What a lot is to be reduced by is not more than it is.
LEMMA CutIs ==
  ASSUME NEW i \in Intents, NEW l \in Lots, NEW w \in 0 .. 4
  PROVE  /\ Cut(i, l, w) \in Nat /\ Cut(i, l, w) <= l.qty
         /\ w = 0 => Cut(i, l, w) = l.qty
<1>1. Keep(l.entry, w) \in Nat /\ l.entry \in Nat /\ l.qty \in Nat
  BY KeepIs DEF Lots
<1> QED
  BY <1>1 DEF Cut

\* Nothing is left to do for a lot exactly when it is what its snapshot asks.
LEMMA TodoIs ==
  ASSUME NEW i \in Intents, NEW l, NEW n, NEW w
  PROVE  /\ TodoOf(i, l, n, w) \in 0 .. 4
         /\ TodoOf(i, l, n, w) = 0 <=> /\ ~(Cut(i, l, w) > 0)
                                       /\ l.stop = n /\ l.te = n /\ l.tp = n
<1> DEFINE a == One(Cut(i, l, w) > 0)
           b == One(l.stop # n)
           c == One(l.te # n)
           d == One(Cut(i, l, w) > 0 \/ l.tp # n)
<1>1. /\ a \in 0 .. 1 /\ (a = 0 <=> ~(Cut(i, l, w) > 0))
      /\ b \in 0 .. 1 /\ (b = 0 <=> l.stop = n)
      /\ c \in 0 .. 1 /\ (c = 0 <=> l.te = n)
      /\ d \in 0 .. 1 /\ (d = 0 <=> ~(Cut(i, l, w) > 0) /\ l.tp = n)
  BY DEF One
<1>2. TodoOf(i, l, n, w) = a + b + c + d
  BY DEF TodoOf
<1> HIDE DEF a, b, c, d
<1>3. a + b + c + d \in 0 .. 4 /\ (a + b + c + d = 0 <=> a = 0 /\ b = 0 /\ c = 0 /\ d = 0)
  BY <1>1
<1> QED
  BY <1>1, <1>2, <1>3

\* A partial exit is done with one tick.
LEMMA SaleDoes ==
  ASSUME NEW i \in Intents, NEW l \in Lots, NEW n \in {0, 1}, NEW w \in 0 .. 4,
         Cut(i, l, w) > 0, Cut(i, l, w) # l.qty
  PROVE  LET m == [l EXCEPT !.qty = @ - Cut(i, l, w), !.tp = None]
         IN  TodoOf(i, m, n, w) + 1 <= TodoOf(i, l, n, w)
<1> DEFINE c == Cut(i, l, w)
           keep == Keep(l.entry, w)
           m == [l EXCEPT !.qty = @ - c, !.tp = None]
<1>1. keep \in Nat /\ l.entry \in Nat /\ l.qty \in Nat
  BY KeepIs DEF Lots
<1>2. w # 0 /\ l.entry # 0 /\ c = l.qty - keep
  BY DEF Cut
<1> HIDE DEF c, keep
<1>3. m.qty = keep /\ m.entry = l.entry /\ m.stop = l.stop /\ m.te = l.te /\ m.tp = None
  BY <1>1, <1>2 DEF Lots
<1> HIDE DEF m
<1>4. Cut(i, m, w) = 0
  <2>1. m.qty - Keep(m.entry, w) = 0
    BY <1>1, <1>3 DEF keep
  <2> QED BY <1>2, <1>3, <2>1 DEF Cut
<1>5. None # n
  <2>1. None \notin Nat
    BY PlanAssumption, Zenon
  <2> QED BY <2>1
<1> DEFINE b == One(l.stop # n)
           d == One(l.te # n)
<1>6. b \in 0 .. 1 /\ d \in 0 .. 1
  BY DEF One
<1>7. TodoOf(i, m, n, w) = 0 + b + d + 1
  <2>1. ~(Cut(i, m, w) > 0) /\ (Cut(i, m, w) > 0 \/ m.tp # n)
    BY <1>3, <1>4, <1>5
  <2> QED BY <1>3, <2>1 DEF TodoOf, One
<1>8. TodoOf(i, l, n, w) = 1 + b + d + 1
  <2>1. Cut(i, l, w) > 0
    OBVIOUS
  <2> QED BY <2>1 DEF TodoOf, One
<1> HIDE DEF b, d
<1>9. TodoOf(i, m, n, w) + 1 <= TodoOf(i, l, n, w)
  BY <1>6, <1>7, <1>8
<1> QED
  BY <1>9 DEF m, c

\* Fewer numbers that differ are less to do.
LEMMA FewerNumbers ==
  ASSUME NEW i \in Intents, NEW l, NEW m, NEW n, NEW w, m.qty = l.qty, m.entry = l.entry,
         l.stop = n => m.stop = n, l.te = n => m.te = n, l.tp = n => m.tp = n
  PROVE  /\ TodoOf(i, m, n, w) <= TodoOf(i, l, n, w)
         /\ /\ ~(Cut(i, l, w) > 0)
            /\ \/ l.stop # n /\ m.stop = n
               \/ l.te # n /\ m.te = n
               \/ l.tp # n /\ m.tp = n
            => TodoOf(i, m, n, w) + 1 <= TodoOf(i, l, n, w)
<1> DEFINE x == Cut(i, l, w) > 0
           b == One(l.stop # n)
           c == One(l.te # n)
           d == One(x \/ l.tp # n)
           b1 == One(m.stop # n)
           c1 == One(m.te # n)
           d1 == One(x \/ m.tp # n)
<1>1. Cut(i, m, w) = Cut(i, l, w)
  BY DEF Cut
<1>2. TodoOf(i, l, n, w) = One(x) + b + c + d /\ TodoOf(i, m, n, w) = One(x) + b1 + c1 + d1
  BY <1>1 DEF TodoOf
<1>3. One(x) \in 0 .. 1 /\ b \in 0 .. 1 /\ c \in 0 .. 1 /\ d \in 0 .. 1 /\ b1 \in 0 .. 1 /\ c1 \in 0 .. 1 /\ d1 \in 0 .. 1
  BY DEF One
<1>4. b1 <= b /\ c1 <= c /\ d1 <= d
  BY DEF One
<1>5. /\ l.stop # n /\ m.stop = n => b1 + 1 <= b
      /\ l.te # n /\ m.te = n => c1 + 1 <= c
      /\ ~x /\ l.tp # n /\ m.tp = n => d1 + 1 <= d
  BY DEF One
<1> DEFINE y == One(x)
<1> HIDE DEF b, c, d, b1, c1, d1, y, x
<1>6. TodoOf(i, m, n, w) <= TodoOf(i, l, n, w)
  BY <1>2, <1>3, <1>4 DEF y
<1>7. b1 + 1 <= b \/ c1 + 1 <= c \/ d1 + 1 <= d => TodoOf(i, m, n, w) + 1 <= TodoOf(i, l, n, w)
  BY <1>2, <1>3, <1>4 DEF y
<1> QED
  BY <1>5, <1>6, <1>7 DEF x

\* What reconcile reduces a lot by, of this state and of the next.
LEMMA ReduceOf ==
  ASSUME NEW i, NEW s
  PROVE  /\ Reduce(i, snap[s][i]) = Cut(i, lot[i], snap[s][i])
         /\ Reduce(i, snap[s][i])' = Cut(i, lot'[i], snap'[s][i])
BY DEF Reduce, Cut

\* None is no number.
LEMMA NoneIs == None \notin Nat /\ \A n \in {0, 1} : None # n
<1>1. None \notin Nat
  BY PlanAssumption, Zenon
<1> QED
  BY <1>1

\* What a step writes of an intent keeps its numbers right.
LEMMA NumbersWritten ==
  ASSUME PInv, NEW i \in Intents, NumbersAt(i), number'[i] = number[i], NEW tps,
         \/ lot'[i] = NoLot /\ row'[i] = NoNumbers
         \/ /\ lot'[i].stop = number[i] /\ lot'[i].te = number[i] /\ lot'[i].tp = None
            /\ row'[i] = [stop |-> number[i], te |-> number[i], tp |-> None]
         \/ /\ lot'[i].stop = lot[i].stop /\ lot'[i].te = lot[i].te /\ lot'[i].tp = None
            /\ row'[i] = [row[i] EXCEPT !.tp = None]
         \/ /\ lot'[i] = [lot[i] EXCEPT !.stop = row[i].stop, !.te = row[i].te, !.tp = row[i].tp]
            /\ row'[i] = row[i]
         \/ lot'[i] = Updated(i, tps) /\ row'[i] = Written(i, tps)
         \/ lot'[i] = lot[i] /\ row'[i] = row[i]
  PROVE  NumbersAt(i)'
<1> DEFINE l == lot[i]
           r == row[i]
           n == number[i]
           m == lot'[i]
           v == row'[i]
<1>1. l \in Lots /\ r \in Numbers /\ n \in {0, 1}
  BY LotIs
<1>2. NumbersOK(l, r, n)
  BY DEF NumbersAt
<1> SUFFICES NumbersOK(m, v, n)
  BY DEF NumbersAt
<1>3. None # 0 /\ None # 1 /\ None # n
  BY <1>1, NoneIs
<1>4. ASSUME lot'[i] = Updated(i, tps), row'[i] = Written(i, tps)
      PROVE  NumbersOK(m, v, n)
  <2>1. v = [stop |-> IF i \in tps THEN l.stop ELSE IF l.stop # n THEN n ELSE r.stop,
             te   |-> n,
             tp   |-> IF i \in tps THEN n ELSE IF l.stop # n THEN l.tp ELSE r.tp]
    BY <1>4 DEF Written
  <2>2. m = IF i \in tps THEN [l EXCEPT !.tp = n]
            ELSE IF l.te # n THEN [l EXCEPT !.te = n]
            ELSE [l EXCEPT !.stop = n]
    BY <1>4 DEF Updated
  <2> HIDE DEF l, r, n, m, v
  <2>3. CASE i \in tps
    <3>1. m.stop = l.stop /\ m.te = l.te /\ m.tp = n /\ v.stop = l.stop /\ v.te = n /\ v.tp = n
      BY <1>1, <2>1, <2>2, <2>3 DEF Lots
    <3> QED BY <1>2, <3>1 DEF NumbersOK
  <2>4. CASE i \notin tps /\ l.te # n
    <3>1. m.stop = l.stop /\ m.te = n /\ m.tp = l.tp
      BY <1>1, <2>2, <2>4 DEF Lots
    <3>2. v.stop = (IF l.stop # n THEN n ELSE r.stop) /\ v.te = n /\ v.tp = IF l.stop # n THEN l.tp ELSE r.tp
      BY <2>1, <2>4
    <3> QED BY <1>2, <3>1, <3>2 DEF NumbersOK
  <2>5. CASE i \notin tps /\ l.te = n
    <3>1. m.stop = n /\ m.te = l.te /\ m.tp = l.tp
      BY <1>1, <2>2, <2>5 DEF Lots
    <3>2. v.stop = (IF l.stop # n THEN n ELSE r.stop) /\ v.te = n /\ v.tp = IF l.stop # n THEN l.tp ELSE r.tp
      BY <2>1, <2>5
    <3> QED BY <1>2, <2>5, <3>1, <3>2 DEF NumbersOK
  <2> QED BY <2>3, <2>4, <2>5
<1>5. ASSUME m.stop = l.stop, m.te = l.te, m.tp = None, row'[i] = [row[i] EXCEPT !.tp = None]
      PROVE  NumbersOK(m, v, n)
  <2>1. v = [r EXCEPT !.tp = None]
    BY <1>5
  <2> HIDE DEF l, r, n, m, v
  <2>2. v.stop = r.stop /\ v.te = r.te /\ v.tp = None
    BY <1>1, <2>1 DEF Numbers
  <2> QED BY <1>2, <1>3, <1>5, <2>2 DEF NumbersOK
<1>6. ASSUME lot'[i] = [lot[i] EXCEPT !.stop = row[i].stop, !.te = row[i].te, !.tp = row[i].tp], row'[i] = row[i]
      PROVE  NumbersOK(m, v, n)
  <2>1. m = [l EXCEPT !.stop = r.stop, !.te = r.te, !.tp = r.tp] /\ v = r
    BY <1>6
  <2> HIDE DEF l, r, n, m, v
  <2>2. m.stop = r.stop /\ m.te = r.te /\ m.tp = r.tp
    BY <1>1, <2>1 DEF Lots
  <2> QED BY <1>2, <2>1, <2>2 DEF NumbersOK
<1>7. CASE m = NoLot /\ v = NoNumbers
  <2> HIDE DEF n, m, v
  <2>1. m.stop = 0 /\ m.te = 0 /\ m.tp = None /\ v.stop = 0 /\ v.te = 0 /\ v.tp = None
    BY <1>7 DEF NoLot, NoNumbers
  <2> QED BY <1>3, <2>1 DEF NumbersOK
<1>8. CASE /\ m.stop = n /\ m.te = n /\ m.tp = None
           /\ v = [stop |-> n, te |-> n, tp |-> None]
  BY <1>3, <1>8 DEF NumbersOK
<1>9. CASE m = l /\ v = r
  BY <1>2, <1>9
<1> QED
  BY <1>4, <1>5, <1>6, <1>7, <1>8, <1>9

\* The numbers of a lot and of its row stay in order in a tick and in a local exit.
LEMMA NumbersTick ==
  ASSUME PInv, Trade, NEW i \in Intents, NumbersAt(i)
  PROVE  NumbersAt(i)'
<1>1. PICK phase \in Phases, works \in BOOLEAN, liquidate \in BOOLEAN, bar \in Bars :
        Tick(phase, works, liquidate, bar)
  BY DEF Trade
<1> DEFINE p == PlanOf(liquidate, phase, bar)
           e == FirstOf(p.enters, i)
           q == QtyOf(p, phase, i)
           tps == TpsOf(p, phase, works, liquidate)
<1>2. number' = number
  BY <1>1, TickShape
<1>3. lot[i] \in Lots
  BY LotIs
<1>4. Fulfilled(i, e) \/ Treated(i, p, phase, works, liquidate)
  BY <1>1, TickTreats
<1>5. CASE Fulfilled(i, e)
  <2>1. /\ lot'[i].stop = number[i] /\ lot'[i].te = number[i] /\ lot'[i].tp = None
        /\ row'[i] = [stop |-> number[i], te |-> number[i], tp |-> None]
    BY <1>5 DEF Fulfilled
  <2> QED BY <1>2, <2>1, NumbersWritten
<1>6. CASE Treated(i, p, phase, works, liquidate)
  <2>1. \/ /\ lot'[i] = Sold(lot[i], q)
           /\ row'[i] = IF q = lot[i].qty THEN NoNumbers ELSE [row[i] EXCEPT !.tp = None]
        \/ lot'[i] = Updated(i, tps) /\ row'[i] = Written(i, tps)
        \/ lot'[i] = [lot[i] EXCEPT !.tp = None] /\ row'[i] = [row[i] EXCEPT !.tp = None]
        \/ lot'[i] = lot[i] /\ row'[i] = row[i]
    BY <1>6 DEF Treated
  <2> HIDE DEF p, q, tps
  <2>2. CASE /\ lot'[i] = Sold(lot[i], q)
             /\ row'[i] = IF q = lot[i].qty THEN NoNumbers ELSE [row[i] EXCEPT !.tp = None]
    <3>1. CASE q = lot[i].qty
      <4>1. lot'[i] = NoLot /\ row'[i] = NoNumbers
        BY <2>2, <3>1 DEF Sold
      <4> QED BY <1>2, <4>1, NumbersWritten
    <3>2. CASE q # lot[i].qty
      <4>1. lot'[i] = [lot[i] EXCEPT !.qty = @ - q, !.tp = None] /\ row'[i] = [row[i] EXCEPT !.tp = None]
        BY <2>2, <3>2 DEF Sold
      <4>2. lot'[i].stop = lot[i].stop /\ lot'[i].te = lot[i].te /\ lot'[i].tp = None
        BY <1>3, <4>1 DEF Lots
      <4> QED BY <1>2, <4>1, <4>2, NumbersWritten
    <3> QED BY <3>1, <3>2
  <2>3. CASE lot'[i] = Updated(i, tps) /\ row'[i] = Written(i, tps)
    BY <1>2, <2>3, NumbersWritten
  <2>4. CASE lot'[i] = [lot[i] EXCEPT !.tp = None] /\ row'[i] = [row[i] EXCEPT !.tp = None]
    <3>1. lot'[i].stop = lot[i].stop /\ lot'[i].te = lot[i].te /\ lot'[i].tp = None
      BY <1>3, <2>4 DEF Lots
    <3> QED BY <1>2, <2>4, <3>1, NumbersWritten
  <2>5. CASE lot'[i] = lot[i] /\ row'[i] = row[i]
    BY <1>2, <2>5, NumbersWritten
  <2> QED BY <2>1, <2>2, <2>3, <2>4, <2>5
<1> QED
  BY <1>4, <1>5, <1>6

\* New numbers in a snapshot touch neither lot nor row.
LEMMA NumbersPublish ==
  ASSUME PInv, NEW s \in Sources, Publish(s), NEW i \in Intents, NumbersAt(i)
  PROVE  NumbersAt(i)'
<1>1. PICK wants \in [Of(s) -> UNION {Wants[j] : j \in Of(s)}],
           new \in SUBSET {j \in Renumbered \cap Of(s) : number[j] = 0} :
        /\ number' = [j \in Intents |-> IF j \in new THEN 1 ELSE number[j]]
        /\ lot' = lot /\ row' = row
  BY DEF Publish
<1>2. lot'[i] = lot[i] /\ row'[i] = row[i] /\ number'[i] = IF i \in new THEN 1 ELSE number[i]
  BY <1>1
<1>3. NumbersOK(lot[i], row[i], number[i])
  BY DEF NumbersAt
<1>4. CASE number'[i] = number[i]
  BY <1>2, <1>3, <1>4 DEF NumbersAt
<1>5. CASE number'[i] # number[i]
  <2>1. number'[i] = 1 /\ number[i] = 0
    BY <1>1, <1>2, <1>5
  <2>2. None # 1
    BY NoneIs
  <2>3. NumbersOK(lot[i], row[i], 1)
    BY <1>3, <2>1, <2>2 DEF NumbersOK
  <2> QED BY <1>2, <2>1, <2>3 DEF NumbersAt
<1> QED
  BY <1>4, <1>5

\* The numbers of a lot and of its row stay in order.
LEMMA NumbersNext ==
  ASSUME PInv, [Next]_vars, NEW i \in Intents, NumbersAt(i)
  PROVE  NumbersAt(i)'
<1>1. CASE UNCHANGED vars \/ NewDay \/ ShareOut
  BY <1>1 DEF vars, NewDay, ShareOut, NumbersAt
<1>2. CASE Sync \/ Restart
  <2>1. /\ number' = number /\ row' = row
        /\ lot'[i] = [lot[i] EXCEPT !.stop = row[i].stop, !.te = row[i].te, !.tp = row[i].tp]
    BY <1>2 DEF Sync, Restart, Recorded
  <2> QED BY <2>1, NumbersWritten
<1>3. ASSUME NEW j \in Intents, NEW works \in BOOLEAN, LocalExit(j, works)
      PROVE  NumbersAt(i)'
  <2>1. /\ number' = number
        /\ lot' = [lot EXCEPT ![j] = IF works THEN NoLot ELSE [@ EXCEPT !.tp = None]]
        /\ row' = [row EXCEPT ![j] = IF works THEN NoNumbers ELSE [@ EXCEPT !.tp = None]]
    BY <1>3 DEF LocalExit
  <2>2. lot \in [Intents -> Lots] /\ row \in [Intents -> Numbers] /\ lot[i] \in Lots
    BY LotIs DEF PInv, LotOK
  <2>3. CASE i # j
    <3>1. lot'[i] = lot[i] /\ row'[i] = row[i]
      BY <2>1, <2>2, <2>3
    <3> QED BY <2>1, <3>1, NumbersWritten
  <2>4. CASE i = j /\ works
    <3>1. lot'[i] = NoLot /\ row'[i] = NoNumbers
      BY <2>1, <2>2, <2>4
    <3> QED BY <2>1, <3>1, NumbersWritten
  <2>5. CASE i = j /\ ~works
    <3>1. lot'[i] = [lot[i] EXCEPT !.tp = None] /\ row'[i] = [row[i] EXCEPT !.tp = None]
      BY <2>1, <2>2, <2>5
    <3>2. lot'[i].stop = lot[i].stop /\ lot'[i].te = lot[i].te /\ lot'[i].tp = None
      BY <2>2, <3>1 DEF Lots
    <3> QED BY <2>1, <3>1, <3>2, NumbersWritten
  <2> QED BY <2>3, <2>4, <2>5
<1> QED
  BY <1>1, <1>2, <1>3, NumbersTick, NumbersPublish DEF Next

\* A lot that is there after a tick that did not enter it was there before.
LEMMA TreatedOwner ==
  ASSUME PInv, PInv', NEW phase, NEW works \in BOOLEAN, NEW liquidate \in BOOLEAN, NEW bar, NEW i \in Intents,
         LET p == PlanOf(liquidate, phase, bar) IN Treated(i, p, phase, works, liquidate),
         snap' = snap, NEW s \in Known, i \in HeldBy(s)'
  PROVE  i \in HeldBy(s)
<1> DEFINE q == QtyOf(PlanOf(liquidate, phase, bar), phase, i)
<1>1. lot'[i].qty > 0
  BY DEF HeldBy, Held
<1>2. lot'[i].scope = s.scope /\ (lot'[i].kid = s.kid \/ (lot'[i].kid = "" /\ {b \in Known : b.scope = s.scope} = {s}))
  <2>1. Known' = Known
    BY DEF Known
  <2> QED BY <2>1 DEF HeldBy, Owns
<1>3. /\ lot'[i].kid = lot[i].kid /\ lot'[i].scope = lot[i].scope
      /\ lot'[i].qty = lot[i].qty \/ (q > 0 /\ q < lot[i].qty)
  <2>1. lot'[i] # NoLot
    <3>1. NoLot.qty = 0
      BY DEF NoLot
    <3> SUFFICES ASSUME lot'[i] = NoLot PROVE FALSE
      OBVIOUS
    <3>2. lot'[i].qty = 0
      BY <3>1
    <3> QED BY <1>1, <3>2
  <2> QED BY <2>1, TreatedKeeps DEF SameLot
<1>4. lot[i].qty > 0
  <2>1. q \in Nat /\ lot[i].qty \in Nat
    BY LotIs, PlanOfIs
  <2> HIDE DEF q
  <2> QED BY <1>1, <1>3, <2>1
<1> QED
  BY <1>2, <1>3, <1>4 DEF HeldBy, Held, Owns

\* A tick that leaves a lot behind did one of the things that were to do.
LEMMA TreatedDoes ==
  ASSUME PInv, NEW bar, NEW i \in Intents, NEW s \in Known, Obeys(i, s),
         LET p == PlanOf(FALSE, "continuous", bar) IN Treated(i, p, "continuous", TRUE, FALSE),
         lot'[i].qty > 0, NEW n, n = number[i], NEW w, w = snap[s][i],
         TodoOf(i, lot'[i], n, w) # 0
  PROVE  TodoOf(i, lot'[i], n, w) + 1 <= TodoOf(i, lot[i], n, w)
<1> DEFINE p == PlanOf(FALSE, "continuous", bar)
           q == QtyOf(p, "continuous", i)
           tps == TpsOf(p, "continuous", TRUE, FALSE)
           l == lot[i]
           m == lot'[i]
           r == Cut(i, l, w)
<1>1. s \in Sources /\ i \in Of(s) /\ i \in HeldBy(s) /\ w # None /\ w \in 0 .. 4 /\ l \in Lots /\ n \in {0, 1}
  BY WishIs, LotIs DEF Obeys
<1>2. /\ r \in Nat /\ q = r
      /\ r > 0 => i \in SoldOf(p, "continuous", TRUE)
      /\ r = 0 => i \notin {e.id : e \in p.exits}
  <2>1. Reduce(i, snap[s][i]) = r
    BY ReduceOf
  <2> HIDE DEF r
  <2> QED BY <1>1, <2>1, OpenTickSells
<1>3. CASE r > 0
  <2>1. m = Sold(l, q)
    BY <1>2, <1>3 DEF Treated
  <2>2. q # l.qty
    <3>1. NoLot.qty = 0
      BY DEF NoLot
    <3>2. q = l.qty => m = NoLot
      BY <2>1 DEF Sold
    <3>3. m.qty > 0
      OBVIOUS
    <3> HIDE DEF m, q, l
    <3>4. m # NoLot
      BY <3>1, <3>3
    <3> QED BY <3>2, <3>4
  <2>3. m = [l EXCEPT !.qty = @ - r, !.tp = None]
    BY <1>2, <2>1, <2>2 DEF Sold
  <2>4. r # l.qty
    BY <1>2, <2>2
  <2> HIDE DEF m, l
  <2>5. TodoOf(i, m, n, w) + 1 <= TodoOf(i, l, n, w)
    BY <1>1, <1>3, <2>3, <2>4, SaleDoes
  <2> QED BY <2>5 DEF m, l
<1>4. CASE r = 0
  <2>1. i \notin SoldOf(p, "continuous", TRUE) /\ q = 0
    <3>1. q = 0
      BY <1>2, <1>4
    <3>2. ~(q > 0)
      <4> HIDE DEF q
      <4> QED BY <3>1
    <3>3. i \notin SoldOf(p, "continuous", TRUE)
      BY <3>2 DEF SoldOf
    <3> QED BY <3>1, <3>3
  <2>2. l.qty > 0 /\ i \in Held
    BY <1>1 DEF HeldBy, Held
  <2>3. w # 0
    <3>1. w = 0 => r = l.qty
      BY <1>1, CutIs
    <3> HIDE DEF l, r
    <3> QED BY <1>4, <2>2, <3>1
  <2>4. i \in FreeOf(p, FALSE)
    BY <1>1, <1>2, <1>4, <2>2, <2>3 DEF FreeOf, Governed
  <2>5. i \in tps <=> l.tp # n
    BY <2>4 DEF TpsOf, CanEnter
  <2>6. i \in MovedOf(p, "continuous", TRUE, FALSE) <=> (l.stop # n \/ l.te # n \/ l.tp # n)
    BY <2>4, <2>5 DEF MovedOf
  <2>7. ~(Cut(i, l, w) > 0)
    BY <1>4
  <2>8. CASE i \notin MovedOf(p, "continuous", TRUE, FALSE)
    <3>1. m = l
      <4>1. i \notin SoldOf(p, "continuous", TRUE) /\ ~(q > 0)
        <5>1. q = 0
          BY <2>1
        <5>2. ~(q > 0)
          <6> HIDE DEF q
          <6> QED BY <5>1
        <5> QED BY <2>1, <5>2
      <4> QED BY <2>8, <4>1 DEF Treated
    <3>2. l.stop = n /\ l.te = n /\ l.tp = n
      BY <2>6, <2>8
    <3> HIDE DEF l, m
    <3>3. TodoOf(i, l, n, w) = 0
      BY <2>7, <3>2, TodoIs
    <3> QED BY <3>1, <3>3 DEF l, m
  <2>9. CASE i \in MovedOf(p, "continuous", TRUE, FALSE)
    <3>1. m = Updated(i, tps)
      BY <2>1, <2>9 DEF Treated
    <3> HIDE DEF tps, p
    <3>2. m = IF i \in tps THEN [l EXCEPT !.tp = n]
              ELSE IF l.te # n THEN [l EXCEPT !.te = n]
              ELSE [l EXCEPT !.stop = n]
      BY <3>1 DEF Updated
    <3>3. l.stop # n \/ l.te # n \/ l.tp # n
      BY <2>6, <2>9
    <3> HIDE DEF l, m, q, r
    <3>4. m.qty = l.qty /\ m.entry = l.entry
      BY <1>1, <3>2 DEF Lots
    <3>5. \/ l.tp # n /\ m.tp = n /\ m.te = l.te /\ m.stop = l.stop
          \/ l.te # n /\ m.te = n /\ m.tp = l.tp /\ m.stop = l.stop
          \/ l.stop # n /\ m.stop = n /\ m.tp = l.tp /\ m.te = l.te
      <4>1. CASE i \in tps
        BY <1>1, <2>5, <3>2, <4>1 DEF Lots
      <4>2. CASE i \notin tps /\ l.te # n
        BY <1>1, <3>2, <4>2 DEF Lots
      <4>3. CASE i \notin tps /\ l.te = n
        BY <1>1, <2>5, <3>2, <3>3, <4>3 DEF Lots
      <4> QED BY <4>1, <4>2, <4>3
    <3>6. (l.stop = n => m.stop = n) /\ (l.te = n => m.te = n) /\ (l.tp = n => m.tp = n)
      BY <3>5, Zenon
    <3>7. (l.stop # n /\ m.stop = n) \/ (l.te # n /\ m.te = n) \/ (l.tp # n /\ m.tp = n)
      BY <3>5, Zenon
    <3>8. TodoOf(i, m, n, w) + 1 <= TodoOf(i, l, n, w)
      BY <2>7, <3>4, <3>6, <3>7, FewerNumbers
    <3> QED BY <3>8 DEF l, m
  <2> QED BY <2>8, <2>9
<1> QED
  BY <1>2, <1>3, <1>4

\* What is behind has something to do.
LEMMA BehindIs ==
  ASSUME NEW i \in Intents, NEW s \in Known', (i \in HeldBy(s) /\ i \in Of(s))', snap'[s][i] # None,
         \/ (Reduce(i, snap[s][i]) > 0)'
         \/ \E n \in {lot'[i].stop, lot'[i].te, lot'[i].tp} : n # number'[i]
  PROVE  Obeys(i, s)' /\ Todo(i, s)' # 0 /\ Todo(i, s)' \in 0 .. 4
<1> PICK l, n, w : l = lot'[i] /\ n = number'[i] /\ w = snap'[s][i]
  OBVIOUS
<1>1. Cut(i, l, w) > 0 \/ l.stop # n \/ l.te # n \/ l.tp # n
  BY ReduceOf
<1>2. TodoOf(i, l, n, w) # 0 /\ TodoOf(i, l, n, w) \in 0 .. 4
  BY <1>1, TodoIs
<1>3. Todo(i, s)' = TodoOf(i, l, n, w)
  BY DEF Todo
<1> QED
  BY <1>2, <1>3 DEF Obeys

\* An intent that is entered is not of a lot that was late.
LEMMA EnteredOwes ==
  ASSUME OwnIntents, PInv, PInv', Owed, NEW i \in Intents, NEW e, NEW bar,
         e.id = i, e \in Entries, SoundEntry(e, bar), Fulfilled(i, e),
         snap' = snap, number' = number, NEW s \in Known, Obeys(i, s)'
  PROVE  late[i] = 0 /\ Todo(i, s)' <= 2
<1>1. e.src \in Known /\ i \in Of(e.src) /\ i \notin HeldBy(e.src) /\ e.src \in Sources
  BY DEF SoundEntry, Known
<1>2. late[i] \in 0 .. MaxLate
  BY DEF Owed
<1>3. late[i] = 0
  <2> SUFFICES ASSUME late[i] > 0 PROVE FALSE
    BY <1>2 DEF MaxLate
  <2>1. PICK t \in Known : Obeys(i, t)
    BY DEF Owed, OwedAt
  <2>2. t = e.src
    BY <1>1, <2>1 DEF OwnIntents, Obeys, Known
  <2> QED BY <1>1, <2>1, <2>2 DEF Obeys
<1> PICK l, n, w : l = lot'[i] /\ n = number'[i] /\ w = snap'[s][i]
  OBVIOUS
<1>4. l.stop = n /\ l.te = n
  BY DEF Fulfilled
<1>5. One(Cut(i, l, w) > 0) \in 0 .. 1 /\ One(Cut(i, l, w) > 0 \/ l.tp # n) \in 0 .. 1
  BY DEF One
<1>6. TodoOf(i, l, n, w) <= 2
  <2>1. One(l.stop # n) = 0 /\ One(l.te # n) = 0
    BY <1>4 DEF One
  <2> QED BY <1>5, <2>1 DEF TodoOf
<1>7. Todo(i, s)' = TodoOf(i, l, n, w)
  BY DEF Todo
<1> QED
  BY <1>3, <1>6, <1>7

\* A tick leaves a late lot with less to do than there are ticks left.
LEMMA OwedTick ==
  ASSUME OwnIntents, PInv, PInv', Owed, Trade, NEW i \in Intents
  PROVE  late'[i] \in 0 .. MaxLate /\ OwedAt(i)'
<1>1. PICK phase \in Phases, works \in BOOLEAN, liquidate \in BOOLEAN, bar \in Bars :
        Tick(phase, works, liquidate, bar)
  BY DEF Trade
<1> DEFINE p == PlanOf(liquidate, phase, bar)
           e == FirstOf(p.enters, i)
<1>2. /\ snap' = snap /\ number' = number
      /\ late'[i] = IF phase = "continuous" /\ works /\ ~liquidate /\ Behind(i)'
                    THEN AtMost(MaxLate + 1, late[i] + 1) ELSE 0
  BY <1>1, TickShape
<1>3. late[i] \in 0 .. MaxLate /\ OwedAt(i)
  BY DEF Owed
<1>4. CASE ~(phase = "continuous" /\ works /\ ~liquidate /\ Behind(i)')
  <2>1. late'[i] = 0
    BY <1>2, <1>4
  <2> QED BY <2>1 DEF OwedAt, MaxLate
<1>5. CASE phase = "continuous" /\ works /\ ~liquidate /\ Behind(i)'
  <2>1. late'[i] = late[i] + 1
    BY <1>2, <1>3, <1>5 DEF AtMost, MaxLate
  <2>2. Known' = Known
    BY <1>2 DEF Known
  <2>3. PICK s \in Known' :
          /\ (i \in HeldBy(s) /\ i \in Of(s))' /\ snap'[s][i] # None
          /\ \/ (Reduce(i, snap[s][i]) > 0)'
             \/ \E n \in {lot'[i].stop, lot'[i].te, lot'[i].tp} : n # number'[i]
    BY <1>5 DEF Behind
  <2>4. Obeys(i, s)' /\ Todo(i, s)' # 0 /\ Todo(i, s)' \in 0 .. 4
    BY <2>3, BehindIs
  <2>5. s \in Known
    BY <2>2
  <2>6. CASE /\ e.id = i /\ e \in Entries
             /\ SoundEntry(e, bar \cup Closed(phase)) /\ Fulfilled(i, e)
    <3>1. late[i] = 0 /\ Todo(i, s)' <= 2
      BY <1>2, <2>4, <2>5, <2>6, EnteredOwes
    <3>2. late'[i] \in 0 .. MaxLate /\ late'[i] + Todo(i, s)' <= MaxLate + 1
      <4> DEFINE t == Todo(i, s)'
      <4>1. late'[i] = 1 /\ t <= 2 /\ t \in 0 .. 4
        BY <2>1, <2>4, <3>1
      <4> HIDE DEF t
      <4>2. late'[i] \in 0 .. MaxLate /\ late'[i] + t <= MaxLate + 1
        BY <4>1 DEF MaxLate
      <4> QED BY <4>2 DEF t
    <3> QED BY <2>4, <3>2 DEF OwedAt
  <2>7. CASE Treated(i, p, phase, works, liquidate)
    <3>1. i \in HeldBy(s)
      BY <1>2, <2>4, <2>5, <2>7, TreatedOwner DEF Obeys
    <3>2. Obeys(i, s)
      BY <1>2, <2>4, <3>1 DEF Obeys
    <3> PICK n, w : n = number[i] /\ w = snap[s][i]
      OBVIOUS
    <3>3. Todo(i, s) = TodoOf(i, lot[i], n, w) /\ Todo(i, s)' = TodoOf(i, lot'[i], n, w)
      BY <1>2 DEF Todo
    <3>4. lot'[i].qty > 0
      BY <2>4 DEF Obeys, HeldBy, Held
    <3>5. TodoOf(i, lot'[i], n, w) + 1 <= TodoOf(i, lot[i], n, w)
      <4>1. TodoOf(i, lot'[i], n, w) # 0
        BY <2>4, <3>3
      <4>2. Treated(i, PlanOf(FALSE, "continuous", bar), "continuous", TRUE, FALSE)
        <5>1. phase = "continuous" /\ works = TRUE /\ liquidate = FALSE
          BY <1>5
        <5> QED BY <2>7, <5>1
      <4> QED BY <2>5, <3>2, <3>4, <4>1, <4>2, TreatedDoes
    <3> DEFINE a == TodoOf(i, lot[i], n, w)
               b == TodoOf(i, lot'[i], n, w)
    <3>6. a \in 0 .. 4 /\ b \in 0 .. 4
      BY TodoIs
    <3>7. late[i] + a <= MaxLate + 1
      <4>1. CASE late[i] = 0
        <5> HIDE DEF a
        <5> QED BY <3>6, <4>1 DEF MaxLate
      <4>2. CASE late[i] > 0
        <5>1. PICK t \in Known : Obeys(i, t) /\ late[i] + Todo(i, t) <= MaxLate + 1
          BY <1>3, <4>2 DEF OwedAt
        <5>2. t = s
          BY <2>5, <3>2, <5>1, OneOwner DEF Obeys
        <5> QED BY <3>3, <5>1, <5>2
      <4> QED BY <1>3, <4>1, <4>2
    <3>8. b # 0 /\ b + 1 <= a
      BY <2>4, <3>3, <3>5
    <3>9. late'[i] \in 0 .. MaxLate /\ late'[i] + b <= MaxLate + 1
      <4> HIDE DEF a, b
      <4> QED BY <1>3, <2>1, <3>6, <3>7, <3>8 DEF MaxLate
    <3>10. late'[i] \in 0 .. MaxLate /\ late'[i] + Todo(i, s)' <= MaxLate + 1
      BY <3>3, <3>9
    <3> QED BY <2>4, <3>10 DEF OwedAt
  <2>8. \/ /\ e.id = i /\ e \in Entries
           /\ SoundEntry(e, bar \cup Closed(phase)) /\ Fulfilled(i, e)
        \/ Treated(i, p, phase, works, liquidate)
    BY <1>1, TickTreats
  <2> QED BY <2>6, <2>7, <2>8
<1> QED
  BY <1>4, <1>5

\* A step that leaves a lot, but for numbers that the store gives back, leaves what is owed.
LEMMA OwedSame ==
  ASSUME PInv, Owed, NEW i \in Intents, snap' = snap, number' = number, late'[i] = late[i], SameLot(i),
         \/ lot'[i] = lot[i]
         \/ lot'[i] = [lot[i] EXCEPT !.stop = row[i].stop, !.te = row[i].te, !.tp = row[i].tp]
  PROVE  OwedAt(i)'
<1> SUFFICES ASSUME late[i] > 0
    PROVE  (\E s \in Known : Obeys(i, s) /\ late[i] + Todo(i, s) <= MaxLate + 1)'
  BY DEF OwedAt
<1>1. PICK s \in Known : Obeys(i, s) /\ late[i] + Todo(i, s) <= MaxLate + 1
  BY DEF Owed, OwedAt
<1>2. Known' = Known
  BY DEF Known
<1>3. Obeys(i, s)'
  BY <1>1, <1>2 DEF Obeys, HeldBy, Held, Owns, SameLot
<1> PICK n, w : n = number[i] /\ w = snap[s][i]
  OBVIOUS
<1>4. Todo(i, s) = TodoOf(i, lot[i], n, w) /\ Todo(i, s)' = TodoOf(i, lot'[i], n, w)
  BY DEF Todo
<1>5. NumbersOK(lot[i], row[i], n) /\ lot[i] \in Lots
  BY LotIs DEF Owed, NumbersAt
<1> DEFINE l == lot[i]
           m == lot'[i]
           r == row[i]
<1>6. m.qty = l.qty /\ m.entry = l.entry
  BY DEF SameLot
<1>7. (l.stop = n => m.stop = n) /\ (l.te = n => m.te = n) /\ (l.tp = n => m.tp = n)
  <2>1. CASE m = l
    BY <2>1
  <2>2. CASE m = [l EXCEPT !.stop = r.stop, !.te = r.te, !.tp = r.tp]
    <3> HIDE DEF l, m, r
    <3>1. m.stop = r.stop /\ m.te = r.te /\ m.tp = r.tp
      BY <1>5, <2>2 DEF Lots, l
    <3> QED BY <1>5, <3>1 DEF NumbersOK, l, r
  <2> QED BY <2>1, <2>2
<1> HIDE DEF l, m
<1>8. TodoOf(i, m, n, w) <= TodoOf(i, l, n, w)
  BY <1>6, <1>7, FewerNumbers
<1>9. TodoOf(i, m, n, w) \in 0 .. 4 /\ TodoOf(i, l, n, w) \in 0 .. 4 /\ late[i] \in 0 .. MaxLate
  BY TodoIs DEF Owed
<1>10. late[i] + TodoOf(i, m, n, w) <= MaxLate + 1
  <2>1. late[i] + TodoOf(i, l, n, w) <= MaxLate + 1
    BY <1>1, <1>4 DEF l
  <2> QED BY <1>8, <1>9, <2>1 DEF MaxLate
<1>11. late'[i] + Todo(i, s)' <= MaxLate + 1
  BY <1>4, <1>10 DEF m
<1> QED
  BY <1>2, <1>3, <1>11

\* Owed is inductive.
LEMMA OwedNext ==
  ASSUME OwnIntents, PInv, PInv', Owed, [Next]_vars
  PROVE  Owed'
<1>1. late' = [i \in Intents |-> late'[i]]
  <2>1. late = [i \in Intents |-> late[i]]
    BY DEF Owed
  <2>2. CASE UNCHANGED vars \/ NewDay \/ ShareOut \/ Sync
    BY <2>1, <2>2 DEF vars, NewDay, ShareOut, Sync
  <2>3. CASE Restart \/ \E s \in Sources : Publish(s)
    BY <2>3 DEF Restart, Publish
  <2>4. CASE Trade
    BY <2>4, TickShape DEF Trade
  <2>5. ASSUME NEW j \in Intents, NEW works \in BOOLEAN, LocalExit(j, works)
        PROVE  late' = [i \in Intents |-> late'[i]]
    <3>1. late' = [late EXCEPT ![j] = 0]
      BY <2>5 DEF LocalExit
    <3> QED BY <2>1, <3>1
  <2> QED BY <2>2, <2>3, <2>4, <2>5 DEF Next
<1> SUFFICES ASSUME NEW i \in Intents PROVE NumbersAt(i)' /\ late'[i] \in 0 .. MaxLate /\ OwedAt(i)'
  BY <1>1 DEF Owed
<1>2. NumbersAt(i)'
  BY NumbersNext DEF Owed
<1>3. late[i] \in 0 .. MaxLate /\ OwedAt(i)
  BY DEF Owed
<1>4. CASE UNCHANGED vars \/ NewDay \/ ShareOut
  <2>1. snap' = snap /\ number' = number /\ late' = late /\ lot' = lot
    BY <1>4 DEF vars, NewDay, ShareOut
  <2>2. SameLot(i)
    BY <2>1 DEF SameLot
  <2> QED BY <1>2, <1>3, <2>1, <2>2, OwedSame
<1>5. CASE Sync
  <2>1. snap' = snap /\ number' = number /\ late' = late /\ lot' = Recorded
    BY <1>5 DEF Sync
  <2>2. lot'[i] = [lot[i] EXCEPT !.stop = row[i].stop, !.te = row[i].te, !.tp = row[i].tp]
    BY <2>1 DEF Recorded
  <2>3. SameLot(i)
    BY <2>1, RecordedSame
  <2> QED BY <1>2, <1>3, <2>1, <2>2, <2>3, OwedSame
<1>6. CASE Restart \/ \E s \in Sources : Publish(s)
  <2>1. late'[i] = 0
    BY <1>6 DEF Restart, Publish
  <2> QED BY <1>2, <2>1 DEF OwedAt, MaxLate
<1>7. CASE Trade
  BY <1>2, <1>7, OwedTick
<1>8. ASSUME NEW j \in Intents, NEW works \in BOOLEAN, LocalExit(j, works)
      PROVE  late'[i] \in 0 .. MaxLate /\ OwedAt(i)'
  <2>1. /\ snap' = snap /\ number' = number /\ late' = [late EXCEPT ![j] = 0]
        /\ lot' = [lot EXCEPT ![j] = IF works THEN NoLot ELSE [@ EXCEPT !.tp = None]]
    BY <1>8 DEF LocalExit
  <2>2. late \in [Intents -> 0 .. MaxLate] /\ lot \in [Intents -> Lots]
    BY DEF Owed, PInv, LotOK
  <2>3. CASE i = j
    <3>1. late'[i] = 0
      BY <2>1, <2>2, <2>3
    <3> QED BY <3>1 DEF OwedAt, MaxLate
  <2>4. CASE i # j
    <3>1. late'[i] = late[i] /\ lot'[i] = lot[i]
      BY <2>1, <2>2, <2>4
    <3>2. SameLot(i)
      BY <3>1 DEF SameLot
    <3> QED BY <1>3, <2>1, <3>1, <3>2, OwedSame
  <2> QED BY <2>3, <2>4
<1> QED
  BY <1>2, <1>4, <1>5, <1>6, <1>7, <1>8 DEF Next

\* No lot is late at the start.
LEMMA OwedInit ==
  ASSUME Init
  PROVE  Owed
<1>1. PICK old \in SUBSET Legacy, entry \in {0, LegacyQty}, scope \in {s.scope : s \in Sources} :
        lot = [i \in Intents |-> IF i \in old
                 THEN [NoLot EXCEPT !.qty = LegacyQty, !.entry = entry, !.scope = scope]
                 ELSE NoLot]
  BY DEF Init
<1>2. /\ row = [i \in Intents |-> NoNumbers] /\ number = [i \in Intents |-> 0]
      /\ late = [i \in Intents |-> 0]
  BY DEF Init
<1>3. late \in [Intents -> 0 .. MaxLate]
  BY <1>2 DEF MaxLate
<1> SUFFICES ASSUME NEW i \in Intents PROVE NumbersAt(i) /\ OwedAt(i)
  BY <1>3 DEF Owed
<1>4. OwedAt(i)
  BY <1>2 DEF OwedAt
<1> DEFINE o == [NoLot EXCEPT !.qty = LegacyQty, !.entry = entry, !.scope = scope]
<1>5. o.stop = 0 /\ o.te = 0 /\ o.tp = None /\ NoLot.stop = 0 /\ NoLot.te = 0 /\ NoLot.tp = None
  BY DEF NoLot
<1>6. lot[i] = o \/ lot[i] = NoLot
  BY <1>1
<1> HIDE DEF o
<1>7. lot[i].stop = 0 /\ lot[i].te = 0 /\ lot[i].tp = None
  BY <1>5, <1>6
<1>8. row[i].stop = 0 /\ row[i].te = 0 /\ row[i].tp = None /\ number[i] = 0
  BY <1>2 DEF NoNumbers
<1>9. NumbersAt(i)
  BY <1>7, <1>8 DEF NumbersAt, NumbersOK
<1> QED
  BY <1>4, <1>9

\* An exit, a partial exit and new numbers reach every lot within four ticks in a row with the
\* market open and the broker taking orders, however the updates of a lot undo each other.
THEOREM AllObeyed ==
  ASSUME OwnIntents
  PROVE  Spec => []Obeyed
<1>1. Init => Owed
  BY OwedInit
<1>2. PInv /\ PInv' /\ Owed /\ [Next]_vars => Owed'
  BY OwedNext
<1>3. Owed => Obeyed
  BY DEF Owed, Obeyed, MaxLate
<1> QED
  BY <1>1, <1>2, <1>3, Types, PTL DEF Spec

-----------------------------------------------------------------------------
(* What the entries of a plan cost.                                        *)

CostOf(e) == e.qty * Price[e.id]
Bill(e, K) == IF e \in K THEN CostOf(e) ELSE 0

\* An account f of the entries of q that are in K, of no more than x
Account(f, q, K, x) ==
  /\ f[0] = 0 /\ \A n \in 0 .. Len(q) : f[n] \in Nat /\ f[n] <= x
  /\ \A n \in 1 .. Len(q) : f[n - 1] + Bill(q[n], K) <= f[n]

\* The entries of q that are in K cost no more than x
Within(q, K, x) == x \in Nat /\ \E f : Account(f, q, K, x)

\* What an entry costs, and what it costs of a kind.
LEMMA BillIs ==
  ASSUME NEW e \in Entries, NEW K
  PROVE  CostOf(e) \in Nat /\ Bill(e, K) \in Nat /\ (e.qty > 0 => CostOf(e) > 0)
<1>1. e.qty \in Nat /\ Price[e.id] \in Nat /\ Price[e.id] > 0
  BY Constants DEF Entries
<1>2. CostOf(e) \in Nat /\ (e.qty > 0 => CostOf(e) > 0)
  BY <1>1, TimesIs DEF CostOf
<1> QED
  BY <1>2 DEF Bill

\* Entries of other kinds cost nothing of this one.
LEMMA WithinNone ==
  ASSUME NEW q \in EntrySeqs, NEW K, \A e \in In(q) : e \notin K
  PROVE  Within(q, K, 0)
<1> DEFINE f == [n \in 0 .. Len(q) |-> 0]
<1>1. Len(q) \in Nat
  BY EntrySeqIs
<1>2. \A n \in 1 .. Len(q) : Bill(q[n], K) = 0
  BY DEF Bill, In
<1>3. (\A n \in 0 .. Len(q) : f[n] = 0) /\ (\A n \in 1 .. Len(q) : n - 1 \in 0 .. Len(q) /\ n \in 0 .. Len(q)) /\ 0 \in 0 .. Len(q)
  BY <1>1
<1> HIDE DEF f
<1>4. Account(f, q, K, 0)
  BY <1>2, <1>3 DEF Account
<1> QED
  BY <1>4 DEF Within

\* One more entry adds its bill.
LEMMA WithinAppend ==
  ASSUME NEW q \in EntrySeqs, NEW K, NEW x, Within(q, K, x), NEW e \in Entries
  PROVE  Within(Append(q, e), K, x + Bill(e, K))
<1> DEFINE r == Append(q, e)
           b == Bill(e, K)
           y == x + b
           n == Len(q)
<1>1. PICK f : Account(f, q, K, x)
  BY DEF Within
<1>2. x \in Nat /\ b \in Nat /\ n \in Nat
  BY BillIs, EntrySeqIs DEF Within
<1>3. Len(r) = n + 1 /\ r[n + 1] = e /\ \A k \in 1 .. n : r[k] = q[k]
  <2>1. q \in Seq(Entries)
    BY DEF EntrySeqs
  <2> QED BY <2>1
<1> DEFINE g == [k \in 0 .. n + 1 |-> IF k = n + 1 THEN y ELSE f[k]]
<1>4. g[n + 1] = y /\ (\A k \in 0 .. n : g[k] = f[k])
  BY <1>2
<1> HIDE DEF g, r, n
<1>5. f[0] = 0 /\ (\A k \in 0 .. n : f[k] \in Nat /\ f[k] <= x) /\ (\A k \in 1 .. n : f[k - 1] + Bill(q[k], K) <= f[k])
  BY <1>1 DEF Account, n
<1>6. y \in Nat /\ x <= y
  BY <1>2
<1>7. g[0] = 0 /\ \A k \in 0 .. n + 1 : g[k] \in Nat /\ g[k] <= y
  <2>1. g[0] = 0
    BY <1>2, <1>4, <1>5
  <2>2. ASSUME NEW k \in 0 .. n + 1 PROVE g[k] \in Nat /\ g[k] <= y
    <3> HIDE DEF y
    <3>1. CASE k = n + 1
      BY <1>4, <1>6, <3>1
    <3>2. CASE k # n + 1
      <4>1. k \in 0 .. n
        BY <1>2, <3>2
      <4> QED BY <1>2, <1>4, <1>5, <1>6, <4>1
    <3> QED BY <3>1, <3>2
  <2> QED BY <2>1, <2>2
<1>8. \A k \in 1 .. n + 1 : g[k - 1] + Bill(r[k], K) <= g[k]
  <2> TAKE k \in 1 .. n + 1
  <2>1. CASE k = n + 1
    <3>1. g[k - 1] = f[n] /\ n \in 0 .. n /\ r[k] = e /\ g[k] = y
      BY <1>2, <1>3, <1>4, <2>1
    <3>2. f[n] \in Nat /\ f[n] <= x
      BY <1>5, <3>1
    <3>3. Bill(r[k], K) = b
      BY <3>1
    <3> HIDE DEF b
    <3> QED BY <1>2, <3>1, <3>2, <3>3
  <2>2. CASE k # n + 1
    <3>1. k \in 1 .. n /\ k - 1 \in 0 .. n /\ k \in 0 .. n
      BY <1>2, <2>2
    <3>2. g[k - 1] = f[k - 1] /\ g[k] = f[k] /\ r[k] = q[k]
      BY <1>3, <1>4, <3>1
    <3> QED BY <1>5, <3>1, <3>2
  <2> QED BY <2>1, <2>2
<1>9. Account(g, r, K, y)
  BY <1>3, <1>7, <1>8 DEF Account
<1> QED
  BY <1>6, <1>9 DEF Within, r

\* The bills of two sequences add up.
LEMMA WithinJoin ==
  ASSUME NEW q \in EntrySeqs, NEW r \in EntrySeqs, NEW K, NEW x, NEW y, Within(q, K, x), Within(r, K, y)
  PROVE  Within(q \o r, K, x + y)
<1> DEFINE m == Len(q)
           n == Len(r)
           j == q \o r
<1>1. PICK f : Account(f, q, K, x)
  BY DEF Within
<1>2. PICK h : Account(h, r, K, y)
  BY DEF Within
<1>3. x \in Nat /\ y \in Nat /\ m \in Nat /\ n \in Nat
  BY EntrySeqIs DEF Within
<1>4. Len(j) = m + n /\ \A k \in 1 .. m + n : j[k] = IF k <= m THEN q[k] ELSE r[k - m]
  <2>1. q \in Seq(Entries) /\ r \in Seq(Entries)
    BY DEF EntrySeqs
  <2> QED BY <2>1
<1> DEFINE g == [k \in 0 .. m + n |-> IF k <= m THEN f[k] ELSE x + h[k - m]]
<1>5. \A k \in 0 .. m + n : g[k] = IF k <= m THEN f[k] ELSE x + h[k - m]
  OBVIOUS
<1> HIDE DEF g, j, m, n
<1>6. f[0] = 0 /\ (\A k \in 0 .. m : f[k] \in Nat /\ f[k] <= x) /\ (\A k \in 1 .. m : f[k - 1] + Bill(q[k], K) <= f[k])
  BY <1>1 DEF Account, m
<1>7. h[0] = 0 /\ (\A k \in 0 .. n : h[k] \in Nat /\ h[k] <= y) /\ (\A k \in 1 .. n : h[k - 1] + Bill(r[k], K) <= h[k])
  BY <1>2 DEF Account, n
<1>8. ASSUME NEW k \in 0 .. m + n PROVE g[k] \in Nat /\ g[k] <= x + y
  <2>1. CASE k <= m
    <3>1. k \in 0 .. m
      BY <1>3, <2>1
    <3> QED BY <1>3, <1>5, <1>6, <2>1, <3>1
  <2>2. CASE ~(k <= m)
    <3>1. k - m \in 0 .. n
      BY <1>3, <2>2
    <3>2. h[k - m] \in Nat /\ h[k - m] <= y
      BY <1>7, <3>1
    <3>3. g[k] = x + h[k - m]
      BY <1>5, <2>2
    <3> QED BY <1>3, <3>2, <3>3
  <2> QED BY <2>1, <2>2
<1>9. g[0] = 0
  BY <1>3, <1>5, <1>6
<1>10. ASSUME NEW k \in 1 .. m + n PROVE g[k - 1] + Bill(j[k], K) <= g[k]
  <2>1. k \in 0 .. m + n /\ k - 1 \in 0 .. m + n
    BY <1>3
  <2>2. CASE k <= m
    <3>1. k \in 1 .. m /\ k - 1 <= m
      BY <1>3, <2>2
    <3>2. g[k] = f[k] /\ g[k - 1] = f[k - 1] /\ j[k] = q[k]
      BY <1>4, <1>5, <2>1, <2>2, <3>1
    <3> QED BY <1>6, <3>1, <3>2
  <2>3. CASE k = m + 1
    <3>1. ~(k <= m) /\ k - m = 1 /\ k - 1 = m /\ 1 \in 1 .. n /\ m \in 0 .. m
      BY <1>3, <2>3
    <3>2. g[k] = x + h[1] /\ g[k - 1] = f[m] /\ j[k] = r[1]
      BY <1>3, <1>4, <1>5, <2>1, <3>1
    <3>3. f[m] \in Nat /\ f[m] <= x
      BY <1>6, <3>1
    <3>4. h[0] + Bill(r[1], K) <= h[1] /\ h[0] = 0 /\ h[1] \in Nat
      <4>1. h[1 - 1] + Bill(r[1], K) <= h[1]
        BY <1>7, <3>1
      <4>2. 1 - 1 = 0 /\ 1 \in 0 .. n
        BY <3>1
      <4>3. h[0] = 0 /\ h[1] \in Nat
        BY <1>7, <4>2
      <4> QED BY <4>1, <4>2, <4>3
    <3>5. Bill(r[1], K) \in Nat
      BY <3>1, EntrySeqIs, BillIs DEF n
    <3> QED BY <1>3, <3>2, <3>3, <3>4, <3>5
  <2>4. CASE k > m + 1
    <3>1. ~(k <= m) /\ ~(k - 1 <= m) /\ k - m \in 1 .. n /\ k - m \in 0 .. n /\ (k - 1) - m = (k - m) - 1 /\ (k - m) - 1 \in 0 .. n
      BY <1>3, <2>4
    <3>2. g[k] = x + h[k - m] /\ g[k - 1] = x + h[(k - m) - 1] /\ j[k] = r[k - m]
      BY <1>4, <1>5, <2>1, <3>1
    <3>3. h[(k - m) - 1] + Bill(r[k - m], K) <= h[k - m]
      BY <1>7, <3>1
    <3>4. h[(k - m) - 1] \in Nat /\ h[k - m] \in Nat /\ Bill(r[k - m], K) \in Nat
      BY <1>7, <3>1, EntrySeqIs, BillIs DEF n
    <3> QED BY <1>3, <3>2, <3>3, <3>4
  <2> QED BY <1>3, <2>2, <2>3, <2>4
<1>11. Account(g, j, K, x + y)
  BY <1>4, <1>8, <1>9, <1>10 DEF Account
<1> QED
  BY <1>3, <1>11 DEF Within, j

\* A sequence cut short costs no more.
LEMMA WithinPrefix ==
  ASSUME NEW q \in EntrySeqs, NEW K, NEW x, Within(q, K, x), NEW m \in 0 .. Len(q)
  PROVE  Within(SubSeq(q, 1, m), K, x)
<1>1. PICK f : Account(f, q, K, x)
  BY DEF Within
<1>2. /\ Len(q) \in Nat /\ Len(SubSeq(q, 1, m)) = m
      /\ \A n \in 1 .. m : SubSeq(q, 1, m)[n] = q[n] /\ n \in 1 .. Len(q)
      /\ \A n \in 0 .. m : n \in 0 .. Len(q)
  <2>1. q \in Seq(Entries)
    BY DEF EntrySeqs
  <2> QED BY <2>1
<1>3. Account(f, SubSeq(q, 1, m), K, x)
  BY <1>1, <1>2 DEF Account
<1> QED
  BY <1>3 DEF Within

\* Intents whose first entries are in K cost no more than the entries that are.
LEMMA WithinCosts ==
  ASSUME NEW q \in EntrySeqs, NEW K, NEW x, Within(q, K, x), NEW I \in SUBSET Intents, NEW c,
         \A i \in I : i \in {e.id : e \in In(q)} /\ FirstOf(q, i) \in K /\ c[i] = CostOf(FirstOf(q, i))
  PROVE  /\ SumFunctionOnSet(c, I) \in Nat /\ SumFunctionOnSet(c, I) <= x
         /\ \A i \in I : c[i] \in Nat /\ c[i] <= SumFunctionOnSet(c, I)
<1> DEFINE L == Len(q)
           at(i) == Min({n \in 1 .. L : q[n].id = i})
           B(n) == {i \in I : at(i) <= n}
           s(n) == SumFunctionOnSet(c, B(n))
<1>1. PICK f : Account(f, q, K, x)
  BY DEF Within
<1>2. x \in Nat /\ L \in Nat /\ IsFiniteSet(I)
  BY EntrySeqIs, Constants, FS_Subset DEF Within
<1>3. \A i \in I : at(i) \in 1 .. L /\ q[at(i)].id = i /\ FirstOf(q, i) = q[at(i)]
  <2> TAKE i \in I
  <2> DEFINE N == {n \in 1 .. L : q[n].id = i}
  <2>1. N \in SUBSET Nat /\ N # {}
    BY <1>2 DEF In
  <2>2. Min(N) \in N
    <3> HIDE DEF N
    <3> QED BY <2>1, MinIs
  <2> QED BY <2>2 DEF FirstOf
<1>4. \A i \in I : c[i] \in Nat /\ c[i] = Bill(q[at(i)], K)
  <2> TAKE i \in I
  <2>1. FirstOf(q, i) \in Entries /\ FirstOf(q, i) \in K /\ c[i] = CostOf(FirstOf(q, i))
    BY FirstIs
  <2>2. Bill(FirstOf(q, i), K) = CostOf(FirstOf(q, i))
    BY <2>1 DEF Bill
  <2> HIDE DEF at
  <2> QED BY <1>3, <2>1, <2>2, BillIs
<1> HIDE DEF at, L
<1>5. \A n : B(n) \in SUBSET I /\ IsFiniteSet(B(n))
  <2> SUFFICES ASSUME NEW n PROVE B(n) \in SUBSET I /\ IsFiniteSet(B(n))
    OBVIOUS
  <2>1. B(n) \in SUBSET I
    OBVIOUS
  <2> HIDE DEF B
  <2> QED BY <1>2, <2>1, FS_Subset
<1>6. \A n \in 1 .. L : s(n - 1) + Bill(q[n], K) <= f[n] + s(n - 1) - f[n - 1]
  <2> TAKE n \in 1 .. L
  <2>1. f[n - 1] + Bill(q[n], K) <= f[n] /\ f[n] \in Nat /\ f[n - 1] \in Nat
    <3>1. n \in 0 .. L /\ n - 1 \in 0 .. L
      BY <1>2
    <3> QED BY <1>1, <3>1 DEF Account, L
  <2>2. Bill(q[n], K) \in Nat
    BY EntrySeqIs, BillIs DEF L
  <2>3. s(n - 1) \in Int
    <3>1. \A i \in B(n - 1) : c[i] \in Int
      BY <1>4
    <3> QED BY <1>5, <3>1, SumType
  <2> HIDE DEF s, B
  <2> QED BY <2>1, <2>2, <2>3
<1>7. \A n \in 1 .. L : s(n) <= s(n - 1) + Bill(q[n], K)
  <2> TAKE n \in 1 .. L
  <2>1. \A i \in I : at(i) \in Nat
    BY <1>2, <1>3
  <2>2. Bill(q[n], K) \in Nat
    BY EntrySeqIs, BillIs DEF L
  <2>3. \A i \in B(n) : c[i] \in Int
    BY <1>4
  <2>4. CASE \E i \in I : at(i) = n
    <3>1. PICK i \in I : at(i) = n
      BY <2>4
    <3>2. \A j \in I : at(j) = n => j = i
      BY <1>3, <3>1
    <3>3. B(n) \ {i} = B(n - 1) /\ i \in B(n)
      <4>1. \A j \in I : at(j) <= n - 1 <=> at(j) <= n /\ j # i
        BY <2>1, <3>1, <3>2
      <4> QED BY <3>1, <4>1
    <3>4. s(n) = c[i] + SumFunctionOnSet(c, B(n) \ {i})
      <4> HIDE DEF B
      <4> QED BY <1>5, <2>3, <3>3, SumTake DEF s
    <3>5. c[i] = Bill(q[n], K)
      BY <1>4, <3>1
    <3>6. s(n - 1) \in Int
      <4>1. \A j \in B(n - 1) : c[j] \in Int
        BY <1>4
      <4> QED BY <1>5, <4>1, SumType
    <3>7. s(n) = c[i] + s(n - 1)
      BY <3>3, <3>4
    <3> HIDE DEF s, B
    <3> QED BY <2>2, <3>5, <3>6, <3>7
  <2>5. CASE ~\E i \in I : at(i) = n
    <3>1. B(n) = B(n - 1)
      <4>1. \A j \in I : at(j) <= n - 1 <=> at(j) <= n
        BY <2>1, <2>5
      <4> QED BY <4>1
    <3>2. s(n) = s(n - 1)
      BY <3>1
    <3>3. s(n - 1) \in Int
      <4>1. \A j \in B(n - 1) : c[j] \in Int
        BY <1>4
      <4> QED BY <1>5, <4>1, SumType
    <3> HIDE DEF s, B
    <3> QED BY <2>2, <3>2, <3>3
  <2> QED BY <2>4, <2>5
<1> DEFINE g == [n \in 0 .. L |-> n]
           Ok == {n \in 0 .. L : s(n) <= f[n]}
<1>8. g[0] \in Ok
  <2>1. B(0) = {}
    <3>1. \A i \in I : ~(at(i) <= 0)
      BY <1>2, <1>3
    <3> QED BY <3>1
  <2>2. s(0) = 0 /\ f[0] = 0 /\ 0 \in 0 .. L
    <3>1. s(0) = 0
      BY <2>1, SumEmpty
    <3>2. f[0] = 0
      BY <1>1 DEF Account
    <3> QED BY <1>2, <3>1, <3>2
  <2> HIDE DEF s, B
  <2> QED BY <2>2
<1>9. \A n \in 1 .. L : n > 0 /\ g[n - 1] \in Ok => g[n] \in Ok
  <2> TAKE n \in 1 .. L
  <2>1. n - 1 \in 0 .. L /\ n \in 0 .. L
    BY <1>2
  <2>2. s(n) \in Int /\ s(n - 1) \in Int
    <3>1. (\A j \in B(n - 1) : c[j] \in Int) /\ \A j \in B(n) : c[j] \in Int
      BY <1>4
    <3> QED BY <1>5, <3>1, SumType
  <2>3. f[n] \in Nat /\ f[n - 1] \in Nat /\ Bill(q[n], K) \in Nat
    BY <1>1, <2>1, EntrySeqIs, BillIs DEF Account, L
  <2> HIDE DEF s, B
  <2>4. s(n) <= s(n - 1) + Bill(q[n], K) /\ s(n - 1) + Bill(q[n], K) <= f[n] + s(n - 1) - f[n - 1]
    BY <1>6, <1>7
  <2>5. s(n - 1) <= f[n - 1] => s(n) <= f[n]
    BY <2>2, <2>3, <2>4
  <2> QED BY <2>1, <2>5
<1>10. g[L] \in Ok
  <2>1. 0 \in 0 .. L
    BY <1>2
  <2> HIDE DEF g, Ok
  <2> QED BY <1>2, <1>8, <1>9, <2>1, PassKeeps
<1>11. B(L) = I
  <2>1. \A i \in I : at(i) <= L
    BY <1>2, <1>3
  <2> QED BY <2>1
<1>12. s(L) = SumFunctionOnSet(c, I) /\ s(L) <= f[L] /\ f[L] <= x /\ f[L] \in Nat
  <2>1. s(L) = SumFunctionOnSet(c, I)
    BY <1>11
  <2> HIDE DEF s
  <2>2. L \in 0 .. L /\ s(L) <= f[L]
    BY <1>2, <1>10
  <2> QED BY <1>1, <2>1, <2>2 DEF Account, L
<1>13. SumFunctionOnSet(c, I) \in Nat
  BY <1>2, <1>4, SumPart
<1>14. \A i \in I : c[i] <= SumFunctionOnSet(c, I)
  <2> TAKE i \in I
  <2>1. SumFunctionOnSet(c, I) = c[i] + SumFunctionOnSet(c, I \ {i})
    BY <1>2, <1>4, SumTake
  <2>2. I \ {i} \in SUBSET I
    OBVIOUS
  <2>3. SumFunctionOnSet(c, I \ {i}) \in Nat
    BY <1>2, <1>4, <2>2, SumPart
  <2> QED BY <1>4, <2>1, <2>3
<1> HIDE DEF s, B
<1> QED
  BY <1>2, <1>4, <1>12, <1>13, <1>14

\* What a plan may take from gate g to gate h, d of it for stocks of the day
Spends(g, h, d) ==
  LET t == g.free - h.free
      n == g.nightLeft - h.nightLeft
  IN  /\ t \in Nat /\ n \in Nat /\ d \in Nat /\ d + n <= t
      /\ h.reserve >= g.reserve - n
      /\ capital # 0 => /\ t = 0 \/ h.free >= 0
                        /\ n = 0 \/ h.nightLeft >= 0
                        /\ d = 0 \/ d + g.reserve <= g.free

NightEntries == {e \in Entries : NightTarget(e.id)}
DayEntries == {e \in Entries : DayTarget(e.id)}
From(s) == {e \in Entries : e.src = s}

\* A plan that began with gate g has entries of what was taken from it
PaidWith(g, h, q, d) ==
  /\ Spends(g, h, d) /\ Within(q, Entries, g.free - h.free)
  /\ Within(q, NightEntries, g.nightLeft - h.nightLeft) /\ Within(q, DayEntries, d)
Paid(g, h, q) == \E d : PaidWith(g, h, q, d)

\* The entries of a source fit beside its lots
Room(q, s) == \E y : Within(q, From(s), y) /\ (y = 0 \/ y <= Limit(s) - Value(HeldBy(s)))

\* What an entry takes from the gate it may take.
LEMMA SpendsAdmit ==
  ASSUME NEW g \in Gates, NEW i \in Intents, NEW qty \in Nat
  PROVE  LET a == Admit(g, i, qty)
             spent == a.qty * Price[i]
         IN  a.qty # 0 => Spends(g, a.gate, IF DayTarget(i) THEN spent ELSE 0)
<1> DEFINE a == Admit(g, i, qty)
           spent == a.qty * Price[i]
           h == a.gate
<1>1. /\ a.qty \in Nat /\ h \in Gates /\ spent \in Nat
      /\ h.free = g.free - spent
      /\ h.nightLeft = g.nightLeft - IF NightTarget(i) THEN spent ELSE 0
      /\ h.reserve >= g.reserve - IF NightTarget(i) THEN spent ELSE 0
      /\ capital # 0 /\ a.qty > 0 =>
           /\ h.free >= IF DayTarget(i) THEN g.reserve ELSE 0
           /\ NightTarget(i) => h.nightLeft >= 0
  BY AdmitIs
<1>2. DayTarget(i) => ~NightTarget(i)
  BY DEF DayTarget
<1>3. g.free \in Int /\ g.nightLeft \in Int /\ g.reserve \in Nat /\ h.reserve \in Nat
  BY <1>1 DEF Gates
<1> SUFFICES ASSUME a.qty # 0 PROVE Spends(g, h, IF DayTarget(i) THEN spent ELSE 0)
  OBVIOUS
<1> HIDE DEF spent, h, a
<1>4. CASE DayTarget(i)
  <2>1. h.nightLeft = g.nightLeft /\ h.reserve >= g.reserve /\ (capital # 0 => h.free >= g.reserve)
    BY <1>1, <1>2, <1>3, <1>4
  <2>2. g.free - h.free = spent /\ g.nightLeft - h.nightLeft = 0
    BY <1>1, <1>3, <2>1
  <2>3. capital # 0 => h.free >= 0 /\ spent + g.reserve <= g.free
    BY <1>1, <1>3, <2>1
  <2>4. Spends(g, h, spent)
    BY <1>1, <1>3, <2>1, <2>2, <2>3 DEF Spends
  <2> QED BY <1>4, <2>4
<1>5. CASE ~DayTarget(i) /\ NightTarget(i)
  <2>1. /\ h.nightLeft = g.nightLeft - spent /\ h.reserve >= g.reserve - spent
        /\ capital # 0 => h.free >= 0 /\ h.nightLeft >= 0
    BY <1>1, <1>3, <1>5
  <2>2. g.free - h.free = spent /\ g.nightLeft - h.nightLeft = spent
    BY <1>1, <1>3, <2>1
  <2>3. Spends(g, h, 0)
    BY <1>1, <1>3, <2>1, <2>2 DEF Spends
  <2> QED BY <1>5, <2>3
<1>6. CASE ~DayTarget(i) /\ ~NightTarget(i)
  <2>1. /\ h.nightLeft = g.nightLeft /\ h.reserve >= g.reserve
        /\ capital # 0 => h.free >= 0
    BY <1>1, <1>3, <1>6
  <2>2. g.free - h.free = spent /\ g.nightLeft - h.nightLeft = 0
    BY <1>1, <1>3, <2>1
  <2>3. Spends(g, h, 0)
    BY <1>1, <1>3, <2>1, <2>2 DEF Spends
  <2> QED BY <1>6, <2>3
<1> QED
  BY <1>4, <1>5, <1>6

\* What is taken in two parts is taken.
LEMMA SpendsTwice ==
  ASSUME NEW g \in Gates, NEW h \in Gates, NEW k \in Gates, NEW d, NEW e, Spends(g, h, d), Spends(h, k, e)
  PROVE  Spends(g, k, d + e)
<1> DEFINE t == g.free - h.free
           n == g.nightLeft - h.nightLeft
           u == h.free - k.free
           m == h.nightLeft - k.nightLeft
<1>1. /\ g.free \in Int /\ g.nightLeft \in Int /\ g.reserve \in Nat
      /\ h.free \in Int /\ h.nightLeft \in Int /\ h.reserve \in Nat
      /\ k.free \in Int /\ k.nightLeft \in Int /\ k.reserve \in Nat
  BY DEF Gates
<1>2. /\ t \in Nat /\ n \in Nat /\ d \in Nat /\ d + n <= t /\ h.reserve >= g.reserve - n
      /\ capital # 0 => /\ t = 0 \/ h.free >= 0
                        /\ n = 0 \/ h.nightLeft >= 0
                        /\ d = 0 \/ d + g.reserve <= g.free
  BY DEF Spends
<1>3. /\ u \in Nat /\ m \in Nat /\ e \in Nat /\ e + m <= u /\ k.reserve >= h.reserve - m
      /\ capital # 0 => /\ u = 0 \/ k.free >= 0
                        /\ m = 0 \/ k.nightLeft >= 0
                        /\ e = 0 \/ e + h.reserve <= h.free
  BY DEF Spends
<1>4. g.free - k.free = t + u /\ g.nightLeft - k.nightLeft = n + m /\ h.free = g.free - t /\ k.free = h.free - u
      /\ h.nightLeft = g.nightLeft - n /\ k.nightLeft = h.nightLeft - m
  BY <1>1
<1> HIDE DEF t, n, u, m
<1>5. t + u \in Nat /\ n + m \in Nat /\ d + e \in Nat /\ (d + e) + (n + m) <= t + u /\ k.reserve >= g.reserve - (n + m)
  BY <1>1, <1>2, <1>3
<1>6. capital # 0 => t + u = 0 \/ k.free >= 0
  BY <1>1, <1>2, <1>3, <1>4
<1>7. capital # 0 => n + m = 0 \/ k.nightLeft >= 0
  BY <1>1, <1>2, <1>3, <1>4
<1>8. capital # 0 => d + e = 0 \/ (d + e) + g.reserve <= g.free
  <2>1. CASE e = 0
    BY <1>2, <1>3, <2>1
  <2>2. CASE e # 0
    <3> SUFFICES ASSUME capital # 0 PROVE (d + e) + g.reserve <= g.free
      OBVIOUS
    <3>1. e + h.reserve <= h.free
      BY <1>3, <2>2
    <3>2. d + n <= t /\ h.reserve >= g.reserve - n /\ h.free = g.free - t
      BY <1>2, <1>4
    <3> QED BY <1>1, <1>2, <1>3, <3>1, <3>2
  <2> QED BY <2>1, <2>2
<1> QED
  BY <1>4, <1>5, <1>6, <1>7, <1>8 DEF Spends

\* A plan that entered nothing took nothing.
LEMMA PaidNothing ==
  ASSUME NEW g \in Gates
  PROVE  Paid(g, g, <<>>)
<1>1. <<>> \in EntrySeqs /\ In(<<>>) = {}
  BY DEF EntrySeqs, In
<1>2. \A K : Within(<<>>, K, 0)
  BY <1>1, WithinNone
<1>3. g.free - g.free = 0 /\ g.nightLeft - g.nightLeft = 0 /\ g.reserve \in Nat
  BY DEF Gates
<1>4. Spends(g, g, 0)
  BY <1>3 DEF Spends
<1>5. PaidWith(g, g, <<>>, 0)
  BY <1>2, <1>3, <1>4 DEF PaidWith
<1> QED
  BY <1>5 DEF Paid

\* An entry that the gate admits is paid from it.
LEMMA PaidAppend ==
  ASSUME NEW g \in Gates, NEW h \in Gates, NEW q \in EntrySeqs, Paid(g, h, q), NEW e \in Entries, NEW qty \in Nat,
         LET a == Admit(h, e.id, qty) IN a.qty = e.qty /\ a.qty # 0
  PROVE  Paid(g, Admit(h, e.id, qty).gate, Append(q, e))
<1> DEFINE i == e.id
           a == Admit(h, i, qty)
           k == a.gate
           spent == a.qty * Price[i]
           d1 == IF DayTarget(i) THEN spent ELSE 0
<1>1. PICK d : PaidWith(g, h, q, d)
  BY DEF Paid
<1>2. i \in Intents
  BY DEF Entries
<1>3. /\ k \in Gates /\ spent \in Nat /\ k.free = h.free - spent
      /\ k.nightLeft = h.nightLeft - IF NightTarget(i) THEN spent ELSE 0
  BY <1>2, AdmitIs
<1>4. Spends(h, k, d1)
  BY <1>2, SpendsAdmit
<1>5. /\ Bill(e, Entries) = spent
      /\ Bill(e, NightEntries) = IF NightTarget(i) THEN spent ELSE 0
      /\ Bill(e, DayEntries) = d1
  BY DEF Bill, CostOf, NightEntries, DayEntries
<1> HIDE DEF a, k, spent, d1
<1>6. Spends(g, k, d + d1)
  BY <1>1, <1>3, <1>4, SpendsTwice DEF PaidWith
<1>7. /\ Within(Append(q, e), Entries, (g.free - h.free) + Bill(e, Entries))
      /\ Within(Append(q, e), NightEntries, (g.nightLeft - h.nightLeft) + Bill(e, NightEntries))
      /\ Within(Append(q, e), DayEntries, d + Bill(e, DayEntries))
  BY <1>1, WithinAppend DEF PaidWith
<1>8. /\ (g.free - h.free) + Bill(e, Entries) = g.free - k.free
      /\ (g.nightLeft - h.nightLeft) + Bill(e, NightEntries) = g.nightLeft - k.nightLeft
  <2>1. g.free \in Int /\ h.free \in Int /\ g.nightLeft \in Int /\ h.nightLeft \in Int
    BY DEF Gates
  <2> QED BY <1>3, <1>5, <2>1
<1>9. PaidWith(g, k, Append(q, e), d + d1)
  BY <1>5, <1>6, <1>7, <1>8 DEF PaidWith
<1> QED
  BY <1>9 DEF Paid, k, a

\* What is paid from one gate and then from what is left of it is paid from the first.
LEMMA PaidJoin ==
  ASSUME NEW g \in Gates, NEW h \in Gates, NEW k \in Gates, NEW q \in EntrySeqs, NEW r \in EntrySeqs,
         Paid(g, h, q), Paid(h, k, r)
  PROVE  Paid(g, k, q \o r)
<1>1. PICK d : PaidWith(g, h, q, d)
  BY DEF Paid
<1>2. PICK e : PaidWith(h, k, r, e)
  BY DEF Paid
<1>3. Spends(g, k, d + e)
  BY <1>1, <1>2, SpendsTwice DEF PaidWith
<1>4. /\ Within(q \o r, Entries, (g.free - h.free) + (h.free - k.free))
      /\ Within(q \o r, NightEntries, (g.nightLeft - h.nightLeft) + (h.nightLeft - k.nightLeft))
      /\ Within(q \o r, DayEntries, d + e)
  BY <1>1, <1>2, WithinJoin DEF PaidWith
<1>5. /\ (g.free - h.free) + (h.free - k.free) = g.free - k.free
      /\ (g.nightLeft - h.nightLeft) + (h.nightLeft - k.nightLeft) = g.nightLeft - k.nightLeft
  BY DEF Gates
<1>6. PaidWith(g, k, q \o r, d + e)
  BY <1>3, <1>4, <1>5 DEF PaidWith
<1> QED
  BY <1>6 DEF Paid

\* What is cut from a paid sequence leaves the rest paid.
LEMMA PaidPrefix ==
  ASSUME NEW g, NEW h, NEW q \in EntrySeqs, Paid(g, h, q), NEW m \in 0 .. Len(q)
  PROVE  Paid(g, h, SubSeq(q, 1, m))
<1>1. PICK d : PaidWith(g, h, q, d)
  BY DEF Paid
<1>2. PaidWith(g, h, SubSeq(q, 1, m), d)
  BY <1>1, WithinPrefix DEF PaidWith
<1> QED
  BY <1>2 DEF Paid

\* A sequence cut short leaves no less room in a book.
LEMMA RoomPrefix ==
  ASSUME NEW q \in EntrySeqs, NEW s, Room(q, s), NEW m \in 0 .. Len(q)
  PROVE  Room(SubSeq(q, 1, m), s)
<1>1. PICK y : Within(q, From(s), y) /\ (y = 0 \/ y <= Limit(s) - Value(HeldBy(s)))
  BY DEF Room
<1>2. Within(SubSeq(q, 1, m), From(s), y)
  BY <1>1, WithinPrefix
<1> QED
  BY <1>1, <1>2 DEF Room

\* The passes of source s that began with gate g
Tab(g, s) ==
  {p \in Passes : /\ Paid(g, p.gate, p.enters)
                  /\ Within(p.enters, From(s), p.spent - Value(HeldBy(s)))
                  /\ p.spent = Value(HeldBy(s)) \/ p.spent <= Limit(s)
                  /\ \A e \in In(p.enters) : e.src = s}

\* The passes whose entries are one source's, paid from the gate and within the book.
LEMMA TabIs ==
  ASSUME NEW g, NEW s, NEW p
  PROVE  p \in Tab(g, s) <=> /\ p \in Passes /\ Paid(g, p.gate, p.enters)
                             /\ Within(p.enters, From(s), p.spent - Value(HeldBy(s)))
                             /\ p.spent = Value(HeldBy(s)) \/ p.spent <= Limit(s)
                             /\ \A e \in In(p.enters) : e.src = s
BY DEF Tab

\* reconcile of one target keeps the account: what it admits is paid, and fits the book.
LEMMA TabTarget ==
  ASSUME NEW g \in Gates, NEW s \in Known, NEW p \in Tab(g, s), NEW i \in Of(s), NEW bar, Readable
  PROVE  PlanTarget(p, s, i, bar) \in Tab(g, s)
<1> DEFINE q == PlanTarget(p, s, i, bar)
           a == Admit(p.gate, i, Size(s, i))
           v == Value(HeldBy(s))
<1>1. s \in Sources /\ i \in Intents
  BY Constants DEF Known
<1>2. /\ p \in Passes /\ Paid(g, p.gate, p.enters) /\ Within(p.enters, From(s), p.spent - v)
      /\ p.spent = v \/ p.spent <= Limit(s)
      /\ \A e \in In(p.enters) : e.src = s
  BY TabIs
<1>3. q \in Passes
  BY <1>2, PlanTargetType
<1>4. p.gate \in Gates /\ p.enters \in EntrySeqs /\ p.spent \in Int
  BY <1>2 DEF Passes
<1>5. v \in Nat
  <2>1. HeldBy(s) \in SUBSET Intents
    BY DEF HeldBy, Held
  <2> QED BY <2>1, ValueIs DEF Readable
<1>6. CASE q = p
  BY <1>6
<1>7. ASSUME q = [p EXCEPT !.exits = @ \cup {[id |-> i, qty |-> Reduce(i, snap[s][i])]}]
      PROVE  q \in Tab(g, s)
  <2>1. q.gate = p.gate /\ q.spent = p.spent /\ q.enters = p.enters
    BY <1>2, <1>7 DEF Passes
  <2> HIDE DEF q, v
  <2>2. q \in Tab(g, s)
    BY <1>2, <1>3, <2>1, TabIs DEF v
  <2> QED BY <2>2
<1>8. ASSUME Size(s, i) > 0, Size(s, i) * Price[i] <= Limit(s) - p.spent, a.qty # 0,
             q = [p EXCEPT !.gate = a.gate, !.spent = @ + a.qty * Price[i],
                           !.enters = Append(@, [id |-> i, qty |-> a.qty, src |-> s])]
      PROVE  q \in Tab(g, s)
  <2> DEFINE e == [id |-> i, qty |-> a.qty, src |-> s]
             c == a.qty * Price[i]
  <2>1. Size(s, i) \in Nat
    BY <1>1, SizeIs DEF Readable
  <2>2. a.qty \in Nat /\ c \in Nat /\ c <= Size(s, i) * Price[i]
    BY <1>1, <1>4, <2>1, AdmitIs
  <2>3. e.id = i /\ e.qty = a.qty /\ e.src = s /\ e \in Entries
    BY <1>1, <2>2 DEF Entries
  <2>4. q.gate = a.gate /\ q.spent = p.spent + c /\ q.enters = Append(p.enters, e)
    BY <1>2, <1>8 DEF Passes
  <2>5. Bill(e, From(s)) = c
    BY <2>3 DEF Bill, CostOf, From
  <2>6. Size(s, i) * Price[i] \in Nat /\ Limit(s) \in Nat
    <3>1. Price[i] \in Nat
      BY <1>1, Constants
    <3>2. Size(s, i) * Price[i] \in Nat
      BY <2>1, <3>1, TimesIs
    <3> QED BY <1>1, <3>2, BaseIs DEF Readable
  <2> DEFINE z == Size(s, i) * Price[i]
  <2> HIDE DEF e
  <2>7. Paid(g, a.gate, Append(p.enters, e))
    <3>1. a = Admit(p.gate, e.id, Size(s, i)) /\ a.qty = e.qty /\ a.qty # 0
      BY <1>8, <2>3
    <3> HIDE DEF a
    <3> QED BY <1>2, <1>4, <2>1, <2>3, <3>1, PaidAppend
  <2> HIDE DEF q, v, a, c
  <2>8. Within(q.enters, From(s), q.spent - v)
    <3>1. Within(Append(p.enters, e), From(s), (p.spent - v) + c)
      BY <1>2, <1>4, <2>3, <2>5, WithinAppend
    <3>2. (p.spent - v) + c = q.spent - v
      BY <1>4, <1>5, <2>2, <2>4
    <3> QED BY <2>4, <3>1, <3>2
  <2>9. q.spent <= Limit(s)
    <3>1. z \in Nat /\ c <= z /\ z <= Limit(s) - p.spent
      BY <1>8, <2>2, <2>6
    <3> HIDE DEF z
    <3> QED BY <1>4, <2>2, <2>4, <2>6, <3>1
  <2>10. \A x \in In(q.enters) : x.src = s
    BY <1>2, <1>4, <2>3, <2>4, AppendedIn
  <2>11. q \in Tab(g, s)
    BY <1>3, <2>4, <2>7, <2>8, <2>9, <2>10, TabIs DEF v
  <2> QED BY <2>11
<1>9. \/ q = p
      \/ /\ snap[s][i] # None /\ i \in HeldBy(s) /\ Reduce(i, snap[s][i]) \in Nat \ {0}
         /\ q = [p EXCEPT !.exits = @ \cup {[id |-> i, qty |-> Reduce(i, snap[s][i])]}]
      \/ /\ snap[s][i] \notin {None, 0} /\ i \notin HeldBy(s) /\ Enterable(s, i, bar)
         /\ Size(s, i) > 0 /\ Size(s, i) * Price[i] <= Limit(s) - p.spent
         /\ a.qty # 0
         /\ q = [p EXCEPT !.gate = a.gate, !.spent = @ + a.qty * Price[i],
                          !.enters = Append(@, [id |-> i, qty |-> a.qty, src |-> s])]
  BY <1>2, PlanTargetIs, Zenon
<1> HIDE DEF q, a
<1> QED
  BY <1>6, <1>7, <1>8, <1>9 DEF q

\* The plan of a source is paid from the gate, has room beside its lots, and is only its own.
LEMMA BuildPaid ==
  ASSUME NEW g \in Gates, NEW s \in Sources, NEW bar, Readable
  PROVE  LET b == Build(g, s, bar) IN
         /\ Paid(g, b.gate, b.enters) /\ Room(b.enters, s)
         /\ \A e \in In(b.enters) : e.src = s
<1> DEFINE b == Build(g, s, bar)
           v == Value(HeldBy(s))
<1>1. v \in Nat
  <2>1. HeldBy(s) \in SUBSET Intents
    BY DEF HeldBy, Held
  <2> QED BY <2>1, ValueIs DEF Readable
<1>2. Fresh(g, s) \in Tab(g, s)
  <2> DEFINE p == Fresh(g, s)
  <2>1. p.gate = g /\ p.spent = v /\ p.enters = <<>> /\ p \in Passes
    BY FreshType DEF Fresh
  <2>2. <<>> \in EntrySeqs /\ In(<<>>) = {}
    BY DEF EntrySeqs, In
  <2>3. Within(<<>>, From(s), 0) /\ Paid(g, g, <<>>)
    BY <2>2, WithinNone, PaidNothing
  <2> HIDE DEF p, v
  <2>4. p.spent - v = 0
    BY <1>1, <2>1
  <2>5. p \in Tab(g, s)
    BY <2>1, <2>2, <2>3, <2>4, TabIs DEF v
  <2> QED BY <2>5 DEF p
<1>3. \E p \in Tab(g, s) : b = OrderCap(p) \/ b = p
  <2>1. CASE s \notin Known
    BY <1>2, <2>1 DEF Build, Fresh
  <2>2. CASE s \in Known
    <3> DEFINE n == Len(Targets[s])
    <3>1. PICK f : /\ f[0] = Fresh(g, s)
                   /\ \A k \in 1 .. n : f[k] = PlanTarget(f[k - 1], s, Targets[s][k], bar)
                   /\ b = OrderCap(f[n])
      BY <2>2, TargetSteps
    <3>2. n \in Nat /\ \A k \in 1 .. n : Targets[s][k] \in Of(s)
      BY Constants
    <3>3. \A k \in 1 .. n : k > 0 /\ f[k - 1] \in Tab(g, s) => f[k] \in Tab(g, s)
      BY <2>2, <3>1, <3>2, TabTarget
    <3>4. 0 \in 0 .. n /\ f[0] \in Tab(g, s)
      BY <1>2, <3>1, <3>2
    <3> HIDE DEF n, b
    <3>5. f[n] \in Tab(g, s)
      BY <3>2, <3>3, <3>4, PassKeeps
    <3> QED BY <3>1, <3>5
  <2> QED BY <2>1, <2>2
<1> HIDE DEF b
<1>4. PICK p \in Tab(g, s) : b = OrderCap(p) \/ b = p
  BY <1>3
<1>5. /\ p \in Passes /\ Paid(g, p.gate, p.enters) /\ Within(p.enters, From(s), p.spent - v)
      /\ p.spent = v \/ p.spent <= Limit(s)
      /\ \A e \in In(p.enters) : e.src = s
  BY TabIs
<1>6. p.enters \in EntrySeqs /\ p.spent \in Int
  BY <1>5 DEF Passes
<1>7. Limit(s) \in Nat
  BY BaseIs DEF Readable
<1> DEFINE y == p.spent - v
<1>8. y = 0 \/ y <= Limit(s) - v
  <2>1. p.spent = v => y = 0
    BY <1>1, <1>6
  <2>2. p.spent <= Limit(s) => y <= Limit(s) - v
    <3> HIDE DEF v
    <3> QED BY <1>1, <1>6, <1>7
  <2> QED BY <1>5, <2>1, <2>2
<1>9. Room(p.enters, s)
  <2>1. Within(p.enters, From(s), y)
    BY <1>5
  <2> HIDE DEF y
  <2> QED BY <1>8, <2>1 DEF Room
<1>10. CASE b = p
  BY <1>5, <1>9, <1>10 DEF b
<1>11. CASE b = OrderCap(p)
  <2>1. b.gate = p.gate /\ \E m \in 0 .. Len(p.enters) : b.enters = SubSeq(p.enters, 1, m)
    BY <1>5, <1>11, OrderCapIs
  <2>2. PICK m \in 0 .. Len(p.enters) : b.enters = SubSeq(p.enters, 1, m)
    BY <2>1
  <2>3. Paid(g, b.gate, b.enters) /\ Room(b.enters, s)
    BY <1>5, <1>6, <1>9, <2>1, <2>2, PaidPrefix, RoomPrefix
  <2>4. \A e \in In(b.enters) : e.src = s
    BY <1>5, <1>6, <2>2, PrefixIn
  <2> QED BY <2>3, <2>4 DEF b
<1> QED
  BY <1>4, <1>10, <1>11

\* The entries of a source that comes later in the order are not there yet
Portioned(q, k) ==
  \A j \in 1 .. Len(SourceOrder) :
    IF j <= k THEN Room(q, SourceOrder[j]) ELSE \A e \in In(q) : e.src # SourceOrder[j]

\* The entries of one source leave the room in another's book alone.
LEMMA RoomJoin ==
  ASSUME NEW q \in EntrySeqs, NEW r \in EntrySeqs, NEW s,
         \/ Room(q, s) /\ \A e \in In(r) : e.src # s
         \/ Room(r, s) /\ \A e \in In(q) : e.src # s
  PROVE  Room(q \o r, s)
<1>1. CASE Room(q, s) /\ \A e \in In(r) : e.src # s
  <2>1. PICK y : Within(q, From(s), y) /\ (y = 0 \/ y <= Limit(s) - Value(HeldBy(s)))
    BY <1>1 DEF Room
  <2>2. Within(r, From(s), 0)
    BY <1>1, WithinNone DEF From
  <2>3. Within(q \o r, From(s), y + 0) /\ y \in Nat
    BY <2>1, <2>2, WithinJoin DEF Within
  <2>4. y + 0 = y
    BY <2>3
  <2> QED BY <2>1, <2>3, <2>4 DEF Room
<1>2. CASE Room(r, s) /\ \A e \in In(q) : e.src # s
  <2>1. PICK y : Within(r, From(s), y) /\ (y = 0 \/ y <= Limit(s) - Value(HeldBy(s)))
    BY <1>2 DEF Room
  <2>2. Within(q, From(s), 0)
    BY <1>2, WithinNone DEF From
  <2>3. Within(q \o r, From(s), 0 + y) /\ y \in Nat
    BY <2>1, <2>2, WithinJoin DEF Within
  <2>4. 0 + y = y
    BY <2>3
  <2> QED BY <2>1, <2>3, <2>4 DEF Room
<1> QED
  BY <1>1, <1>2

\* One more source adds its own entries, within its own book.
LEMMA PortionedNext ==
  ASSUME NEW q \in EntrySeqs, NEW r \in EntrySeqs, NEW k \in 1 .. Len(SourceOrder),
         Portioned(q, k - 1), Room(r, SourceOrder[k]), \A e \in In(r) : e.src = SourceOrder[k]
  PROVE  Portioned(q \o r, k)
<1>1. Len(SourceOrder) \in Nat /\ \A m, j \in 1 .. Len(SourceOrder) : SourceOrder[m] = SourceOrder[j] => m = j
  BY Constants, PlanAssumption
<1> SUFFICES ASSUME NEW j \in 1 .. Len(SourceOrder)
             PROVE  IF j <= k THEN Room(q \o r, SourceOrder[j]) ELSE \A e \in In(q \o r) : e.src # SourceOrder[j]
  BY DEF Portioned
<1>2. CASE j = k
  <2>1. j <= k /\ ~(j <= k - 1)
    BY <1>1, <1>2
  <2>2. \A e \in In(q) : e.src # SourceOrder[j]
    BY <2>1 DEF Portioned
  <2>3. Room(q \o r, SourceOrder[j])
    BY <1>2, <2>2, RoomJoin
  <2> QED BY <2>1, <2>3
<1>3. CASE j # k
  <2>1. \A e \in In(r) : e.src # SourceOrder[j]
    BY <1>1, <1>3
  <2>2. CASE j <= k
    <3>1. j <= k - 1
      BY <1>1, <1>3, <2>2
    <3>2. Room(q, SourceOrder[j])
      BY <3>1 DEF Portioned
    <3>3. Room(q \o r, SourceOrder[j])
      BY <2>1, <3>2, RoomJoin
    <3> QED BY <2>2, <3>3
  <2>3. CASE ~(j <= k)
    <3>1. ~(j <= k - 1)
      BY <1>1, <2>3
    <3>2. \A e \in In(q) : e.src # SourceOrder[j]
      BY <3>1 DEF Portioned
    <3>3. \A e \in In(q \o r) : e.src # SourceOrder[j]
      BY <2>1, <3>2, JoinedIn
    <3> QED BY <2>3, <3>3
  <2> QED BY <2>2, <2>3
<1> QED
  BY <1>2, <1>3

\* The plan of a tick is paid from its gate and has room beside the lots of every source.
LEMMA PlanAllPaid ==
  ASSUME NEW seen, \A s \in NightBooks : seen[s] \in Nat, NEW bar, Readable
  PROVE  LET p == PlanAll(seen, bar) IN
         /\ p \in Passes /\ Paid(NewGate(seen), p.gate, p.enters)
         /\ \A s \in Sources : Room(p.enters, s)
<1> DEFINE n == Len(SourceOrder)
           g == NewGate(seen)
           Good == {x \in Passes \X (0 .. n) : Paid(g, x[1].gate, x[1].enters) /\ Portioned(x[1].enters, x[2])}
<1>1. PICK f : /\ f[0] = Begun(seen)
               /\ \A k \in 1 .. n : f[k] = Joined(f[k - 1], SourceOrder[k], bar)
               /\ \A k \in 0 .. n : f[k] \in Passes
               /\ PlanAll(seen, bar) = OrderCap(f[n])
  BY SourceSteps
<1>2. n \in Nat /\ \A k \in 1 .. n : SourceOrder[k] \in Sources
  BY Constants
<1>3. g \in Gates
  BY NewGateIs DEF Readable
<1> DEFINE h == [k \in 0 .. n |-> <<f[k], k>>]
<1>4. \A p, k : <<p, k>> \in Good <=> /\ p \in Passes /\ k \in 0 .. n
                                      /\ Paid(g, p.gate, p.enters) /\ Portioned(p.enters, k)
  OBVIOUS
<1>5. \A k \in 0 .. n : h[k] = <<f[k], k>>
  OBVIOUS
<1> HIDE DEF h, Good
<1>6. h[0] \in Good
  <2>1. f[0].gate = g /\ f[0].enters = <<>> /\ f[0] \in Passes /\ 0 \in 0 .. n
    BY <1>1, <1>2 DEF Begun
  <2>2. Portioned(<<>>, 0)
    <3>1. In(<<>>) = {}
      BY DEF In
    <3>2. \A j \in 1 .. n : ~(j <= 0)
      BY <1>2
    <3> QED BY <3>1, <3>2 DEF Portioned
  <2> HIDE DEF g, n
  <2> QED BY <1>3, <1>4, <1>5, <2>1, <2>2, PaidNothing
<1>7. \A k \in 1 .. n : k > 0 /\ h[k - 1] \in Good => h[k] \in Good
  <2> SUFFICES ASSUME NEW k \in 1 .. n, h[k - 1] \in Good PROVE h[k] \in Good
    OBVIOUS
  <2> DEFINE p == f[k - 1]
             s == SourceOrder[k]
             b == Build(p.gate, s, bar)
             j == Joined(p, s, bar)
  <2>1. k - 1 \in 0 .. n /\ k \in 0 .. n
    BY <1>2
  <2>2. p \in Passes /\ Paid(g, p.gate, p.enters) /\ Portioned(p.enters, k - 1)
    BY <1>4, <1>5, <2>1
  <2>3. s \in Sources /\ f[k] = j
    BY <1>1, <1>2
  <2> HIDE DEF p, g
  <2>4. p.gate \in Gates /\ p.enters \in EntrySeqs
    BY <2>2 DEF Passes
  <2>5. Paid(p.gate, b.gate, b.enters) /\ Room(b.enters, s) /\ \A e \in In(b.enters) : e.src = s
    BY <2>3, <2>4, BuildPaid
  <2>6. b \in Passes /\ j \in Passes /\ j.gate = b.gate /\ j.enters = p.enters \o b.enters
    BY <2>2, <2>3, JoinedIs
  <2> HIDE DEF j, b
  <2>7. b.enters \in EntrySeqs /\ b.gate \in Gates
    BY <2>6 DEF Passes
  <2>8. Paid(g, j.gate, j.enters)
    BY <1>3, <2>2, <2>4, <2>5, <2>6, <2>7, PaidJoin
  <2>9. Portioned(j.enters, k)
    BY <2>2, <2>4, <2>5, <2>6, <2>7, PortionedNext
  <2> HIDE DEF s
  <2> QED BY <1>4, <1>5, <2>1, <2>3, <2>6, <2>8, <2>9
<1>8. h[n] \in Good
  <2>1. 0 \in 0 .. n
    BY <1>2
  <2> HIDE DEF n
  <2> QED BY <1>2, <1>6, <1>7, <2>1, PassKeeps
<1> DEFINE p == f[n]
<1>9. p \in Passes /\ Paid(g, p.gate, p.enters) /\ Portioned(p.enters, n)
  <2>1. n \in 0 .. n
    BY <1>2
  <2> HIDE DEF n, g
  <2> QED BY <1>4, <1>5, <1>8, <2>1
<1>10. \A s \in Sources : Room(p.enters, s)
  <2> TAKE s \in Sources
  <2>1. PICK j \in 1 .. n : SourceOrder[j] = s
    BY DEF Sources
  <2>2. j <= n
    BY <1>2
  <2> HIDE DEF p
  <2> QED BY <1>9, <2>1, <2>2 DEF Portioned
<1> HIDE DEF p, g
<1> DEFINE c == OrderCap(p)
<1>11. c \in Passes /\ c.gate = p.gate /\ \E m \in 0 .. Len(p.enters) : c.enters = SubSeq(p.enters, 1, m)
  BY <1>9, OrderCapIs
<1>12. PICK m \in 0 .. Len(p.enters) : c.enters = SubSeq(p.enters, 1, m)
  BY <1>11
<1>13. p.enters \in EntrySeqs
  BY <1>9 DEF Passes
<1> HIDE DEF c
<1>14. Paid(g, c.gate, c.enters) /\ \A s \in Sources : Room(c.enters, s)
  BY <1>9, <1>10, <1>11, <1>12, <1>13, PaidPrefix, RoomPrefix
<1>15. PlanAll(seen, bar) = c
  BY <1>1 DEF c, p
<1> QED
  BY <1>11, <1>14, <1>15 DEF g

\* The entries q of a tick that left the gate as h: what is newly bought is bought with them
Purchase(q, h) ==
  /\ q \in EntrySeqs /\ h \in Gates /\ Paid(NewGate(Seen), h, q) /\ \A s \in Sources : Room(q, s)
  /\ \A i \in Newly :
       LET e == FirstOf(q, i)
       IN  /\ i \in {x.id : x \in In(q)} /\ e.id = i /\ e \in Entries /\ e.qty > 0
           /\ e.src \in Sources /\ i \in Of(e.src) /\ (capital = 0 => Fixed(e.src))
           /\ lot'[i].qty = e.qty /\ lot'[i].kid = e.src.kid /\ lot'[i].scope = e.src.scope

\* Nothing is bought but by a tick, and that buys what its plan enters.
LEMMA NewlyBought ==
  ASSUME PInv, [Next]_vars, Newly # {}
  PROVE  \E q, h : Purchase(q, h)
<1>1. PICK j \in Newly : TRUE
  OBVIOUS
<1>2. j \in Intents /\ bought'[j] > bought[j]
  BY <1>1 DEF Newly
<1>3. bought'[j] # bought[j]
  <2>1. bought[j] \in Nat
    BY <1>2 DEF PInv, HistoryOK
  <2> QED BY <1>2, <2>1
<1>4. ~\E s \in Sources : Publish(s)
  BY <1>3 DEF Publish
<1>5. Trade
  BY <1>2, <1>3, <1>4, Between
<1>6. PICK phase \in Phases, works \in BOOLEAN, liquidate \in BOOLEAN, bar \in Bars :
        Tick(phase, works, liquidate, bar)
  BY <1>5 DEF Trade
<1> DEFINE p == PlanOf(liquidate, phase, bar)
           B == bar \cup Closed(phase)
           q == p.enters
<1>7. \A i \in Newly : LET e == FirstOf(q, i)
        IN  /\ ~liquidate /\ i \in {x.id : x \in In(q)} /\ e.id = i /\ e \in Entries /\ e.qty > 0
            /\ e.src \in Sources /\ i \in Of(e.src) /\ (capital = 0 => Fixed(e.src))
            /\ lot'[i].qty = e.qty /\ lot'[i].kid = e.src.kid /\ lot'[i].scope = e.src.scope
  <2> SUFFICES ASSUME NEW i \in Newly
        PROVE  LET e == FirstOf(q, i)
               IN  /\ ~liquidate /\ i \in {x.id : x \in In(q)} /\ e.id = i /\ e \in Entries /\ e.qty > 0
                   /\ e.src \in Sources /\ i \in Of(e.src) /\ (capital = 0 => Fixed(e.src))
                   /\ lot'[i].qty = e.qty /\ lot'[i].kid = e.src.kid /\ lot'[i].scope = e.src.scope
    OBVIOUS
  <2> DEFINE e == FirstOf(q, i)
  <2>1. i \in Intents /\ bought'[i] > bought[i] /\ bought[i] \in Nat
    BY DEF Newly, PInv, HistoryOK
  <2>2. ~Treated(i, p, phase, works, liquidate)
    <3> SUFFICES ASSUME Treated(i, p, phase, works, liquidate) PROVE FALSE
      OBVIOUS
    <3>1. bought'[i] = bought[i]
      BY DEF Treated
    <3> QED BY <2>1, <3>1
  <2>3. /\ ~liquidate /\ e \in In(q) /\ e.id = i /\ e \in Entries
        /\ SoundEntry(e, B) /\ Fulfilled(i, e)
    BY <1>6, <2>1, <2>2, TickTreats
  <2> HIDE DEF e, q, B
  <2>4. /\ e.src \in Sources /\ i \in Of(e.src) /\ (capital = 0 => Fixed(e.src)) /\ e.qty > 0
    BY <2>3 DEF SoundEntry, Known
  <2>5. lot'[i].qty = e.qty /\ lot'[i].kid = e.src.kid /\ lot'[i].scope = e.src.scope
    BY <2>3 DEF Fulfilled
  <2>6. i \in {x.id : x \in In(q)}
    BY <2>3
  <2> QED BY <2>3, <2>4, <2>5, <2>6 DEF e
<1>8. ~liquidate
  BY <1>1, <1>7
<1>9. p = PlanAll(Seen, B)
  BY <1>8 DEF PlanOf
<1>10. p \in Passes /\ Paid(NewGate(Seen), p.gate, q) /\ \A s \in Sources : Room(q, s)
  BY <1>9, ReadableIs, SeenIs, PlanAllPaid
<1>11. q \in EntrySeqs /\ p.gate \in Gates
  BY <1>10 DEF Passes
<1> HIDE DEF p, B
<1>12. Purchase(q, p.gate)
  <2> HIDE DEF q
  <2> QED BY <1>7, <1>10, <1>11 DEF Purchase
<1> QED
  BY <1>12

\* What is bought of some intents costs no more than the entries that it was bought with.
LEMMA NewlyCosts ==
  ASSUME NEW q, NEW h, Purchase(q, h), NEW I, I \subseteq Newly, NEW K, NEW x, Within(q, K, x),
         \A i \in I : FirstOf(q, i) \in K
  PROVE  Cost(I) \in Nat /\ Cost(I) <= x /\ (I # {} => Cost(I) > 0)
<1> DEFINE c == [i \in I |-> lot'[i].qty * Price[i]]
<1>1. Cost(I) = SumFunctionOnSet(c, I)
  BY DEF Cost, SumFunction
<1>2. q \in EntrySeqs
  BY DEF Purchase
<1>3. I \in SUBSET Intents
  BY DEF Newly
<1>4. \A i \in I : /\ i \in {e.id : e \in In(q)} /\ FirstOf(q, i) \in Entries /\ FirstOf(q, i).qty > 0
                   /\ c[i] = CostOf(FirstOf(q, i))
  <2> TAKE i \in I
  <2> DEFINE e == FirstOf(q, i)
  <2>1. /\ i \in {z.id : z \in In(q)} /\ e.id = i /\ e \in Entries /\ e.qty > 0 /\ lot'[i].qty = e.qty
    BY DEF Purchase
  <2> HIDE DEF e
  <2>2. c[i] = CostOf(e)
    BY <2>1 DEF CostOf
  <2> HIDE DEF c
  <2> QED BY <2>1, <2>2 DEF e
<1> HIDE DEF c
<1>5. /\ SumFunctionOnSet(c, I) \in Nat /\ SumFunctionOnSet(c, I) <= x
      /\ \A i \in I : c[i] \in Nat /\ c[i] <= SumFunctionOnSet(c, I)
  BY <1>2, <1>3, <1>4, WithinCosts
<1>6. \A i \in I : c[i] > 0
  BY <1>4, BillIs
<1>7. I # {} => SumFunctionOnSet(c, I) > 0
  <2> SUFFICES ASSUME NEW i \in I PROVE SumFunctionOnSet(c, I) > 0
    OBVIOUS
  <2>1. c[i] > 0 /\ c[i] \in Nat /\ c[i] <= SumFunctionOnSet(c, I) /\ SumFunctionOnSet(c, I) \in Nat
    BY <1>5, <1>6
  <2> QED BY <2>1
<1> QED
  BY <1>1, <1>5, <1>7

\* WithinMeans, of a step
FitsMeans ==
  Newly # {} =>
    /\ IF capital > 0 THEN Cost(Newly) <= capital - Value(Held)
       ELSE \A i \in Newly : \E s \in Sources : i \in Of(s) /\ Fixed(s)
    /\ \A i \in Newly : capital > 0 /\ NightTarget(i) =>
         Cost({j \in Newly : NightTarget(j)}) <= NightCap - Value(NightLots)
    /\ \A s \in Sources :
         LET its == {i \in Newly : lot'[i].kid = s.kid /\ lot'[i].scope = s.scope}
         IN  its # {} => Cost(its) <= Limit(s) - Value(HeldBy(s))

\* The gate of a tick
LEMMA GateIs ==
  ASSUME PInv
  PROVE  LET g == NewGate(Seen) IN
         /\ capital \in Nat /\ g \in Gates /\ g.free = capital - Value(Held)
         /\ g.nightLeft = NightCap - Value(NightLots)
         /\ g.free \in Int /\ g.nightLeft \in Int /\ g.reserve \in Nat
<1>1. capital \in Nat /\ QtyNat /\ \A s \in NightBooks : Seen[s] \in Nat
  BY ReadableIs, SeenIs DEF Readable
<1> DEFINE g == NewGate(Seen)
<1>2. g \in Gates /\ g.free = capital - Value(Held) /\ g.nightLeft = NightCap - Value(NightLots)
  BY <1>1, NewGateIs
<1> HIDE DEF g
<1>3. g.free \in Int /\ g.nightLeft \in Int /\ g.reserve \in Nat
  BY <1>2 DEF Gates
<1> QED
  BY <1>1, <1>2, <1>3 DEF g

\* Every step fits the means.
LEMMA FitsMeansNext ==
  ASSUME PInv, [Next]_vars
  PROVE  FitsMeans
<1> SUFFICES ASSUME Newly # {}
      PROVE  /\ IF capital > 0 THEN Cost(Newly) <= capital - Value(Held)
                ELSE \A i \in Newly : \E s \in Sources : i \in Of(s) /\ Fixed(s)
             /\ \A i \in Newly : capital > 0 /\ NightTarget(i) =>
                  Cost({j \in Newly : NightTarget(j)}) <= NightCap - Value(NightLots)
             /\ \A s \in Sources :
                  LET its == {i \in Newly : lot'[i].kid = s.kid /\ lot'[i].scope = s.scope}
                  IN  its # {} => Cost(its) <= Limit(s) - Value(HeldBy(s))
  BY DEF FitsMeans
<1>1. PICK q, h : Purchase(q, h)
  BY NewlyBought
<1> DEFINE g == NewGate(Seen)
<1>2. /\ capital \in Nat /\ g \in Gates /\ g.free = capital - Value(Held)
      /\ g.nightLeft = NightCap - Value(NightLots)
      /\ g.free \in Int /\ g.nightLeft \in Int
  BY GateIs
<1>3. h \in Gates /\ h.free \in Int /\ h.nightLeft \in Int
  BY <1>1 DEF Purchase, Gates
<1>4. PICK d : PaidWith(g, h, q, d)
  BY <1>1 DEF Purchase, Paid
<1> HIDE DEF g
<1>5. \A i \in Newly : FirstOf(q, i) \in Entries /\ FirstOf(q, i).id = i
  BY <1>1 DEF Purchase
<1>6. capital > 0 => Cost(Newly) <= capital - Value(Held)
  <2>1. Within(q, Entries, g.free - h.free)
    BY <1>4 DEF PaidWith
  <2>2. Cost(Newly) \in Nat /\ Cost(Newly) <= g.free - h.free /\ Cost(Newly) > 0
    BY <1>1, <1>5, <2>1, NewlyCosts
  <2>3. capital # 0 => g.free - h.free = 0 \/ h.free >= 0
    BY <1>4 DEF PaidWith, Spends
  <2>4. capital > 0 => Cost(Newly) <= g.free
    BY <1>2, <1>3, <2>2, <2>3
  <2> QED BY <1>2, <2>4
<1>7. ~(capital > 0) => \A i \in Newly : \E s \in Sources : i \in Of(s) /\ Fixed(s)
  <2>1. ~(capital > 0) => capital = 0
    BY <1>2
  <2> QED BY <1>1, <2>1 DEF Purchase
<1>8. ASSUME NEW i \in Newly, capital > 0, NightTarget(i)
      PROVE  Cost({j \in Newly : NightTarget(j)}) <= NightCap - Value(NightLots)
  <2> DEFINE J == {j \in Newly : NightTarget(j)}
  <2>1. J \subseteq Newly /\ J # {} /\ \A j \in J : NightTarget(j)
    BY <1>8
  <2> HIDE DEF J
  <2>2. Within(q, NightEntries, g.nightLeft - h.nightLeft)
    BY <1>4 DEF PaidWith
  <2>3. \A j \in J : FirstOf(q, j) \in NightEntries
    BY <1>5, <2>1 DEF NightEntries
  <2>4. Cost(J) \in Nat /\ Cost(J) <= g.nightLeft - h.nightLeft /\ Cost(J) > 0
    BY <1>1, <2>1, <2>2, <2>3, NewlyCosts
  <2>5. g.nightLeft - h.nightLeft = 0 \/ h.nightLeft >= 0
    <3>1. capital # 0
      BY <1>2, <1>8
    <3> QED BY <1>4, <3>1 DEF PaidWith, Spends
  <2>6. Cost(J) <= g.nightLeft
    BY <1>2, <1>3, <2>4, <2>5
  <2> QED BY <1>2, <2>6 DEF J
<1>9. ASSUME NEW s \in Sources, {i \in Newly : lot'[i].kid = s.kid /\ lot'[i].scope = s.scope} # {}
      PROVE  Cost({i \in Newly : lot'[i].kid = s.kid /\ lot'[i].scope = s.scope}) <= Limit(s) - Value(HeldBy(s))
  <2> DEFINE J == {i \in Newly : lot'[i].kid = s.kid /\ lot'[i].scope = s.scope}
  <2>1. J \subseteq Newly /\ J # {} /\ \A j \in J : lot'[j].kid = s.kid /\ lot'[j].scope = s.scope
    BY <1>9
  <2> HIDE DEF J
  <2>2. \A j \in J : FirstOf(q, j) \in From(s)
    <3> TAKE j \in J
    <3> DEFINE e == FirstOf(q, j)
    <3>1. e \in Entries /\ e.src \in Sources /\ lot'[j].kid = e.src.kid /\ lot'[j].scope = e.src.scope
      BY <1>1, <2>1 DEF Purchase
    <3> HIDE DEF e
    <3>2. e.src = s
      BY <2>1, <3>1, Constants
    <3> QED BY <3>1, <3>2 DEF From, e
  <2>3. PICK y : Within(q, From(s), y) /\ (y = 0 \/ y <= Limit(s) - Value(HeldBy(s)))
    BY <1>1 DEF Purchase, Room
  <2>4. Cost(J) \in Nat /\ Cost(J) <= y /\ Cost(J) > 0
    BY <1>1, <2>1, <2>2, <2>3, NewlyCosts
  <2>5. y \in Nat /\ Limit(s) \in Nat /\ Value(HeldBy(s)) \in Nat
    <3>1. HeldBy(s) \in SUBSET Intents
      BY DEF HeldBy, Held
    <3>2. Value(HeldBy(s)) \in Nat
      BY <3>1, ReadableIs, ValueIs DEF Readable
    <3> QED BY <1>2, <2>3, <3>2, BaseIs DEF Within
  <2>6. Cost(J) <= Limit(s) - Value(HeldBy(s))
    BY <2>3, <2>4, <2>5
  <2> QED BY <2>6 DEF J
<1> QED
  BY <1>6, <1>7, <1>8, <1>9

\* What a tick buys, for all sources together, fits beside what is held: in the entrusted money,
\* in the night's limit and in each book; with nothing entrusted only a fixed book buys.
THEOREM MeansKept == Spec => WithinMeans
<1>1. PInv /\ [Next]_vars => [FitsMeans]_vars
  BY FitsMeansNext
<1> QED
  BY <1>1, Types, PTL DEF Spec, WithinMeans, FitsMeans

\* ReserveKept, of a step
LeavesReserve ==
  LET dayCost   == Cost({i \in Newly : DayTarget(i)})
      nightCost == Cost({i \in Newly : NightTarget(i)})
  IN  capital > 0 /\ dayCost > 0 =>
        dayCost + AtLeast(NewGate(Seen).reserve, nightCost) <= capital - Value(Held)

\* Every step leaves the reserve.
LEMMA LeavesReserveNext ==
  ASSUME PInv, [Next]_vars
  PROVE  LeavesReserve
<1> DEFINE D == {i \in Newly : DayTarget(i)}
           N == {i \in Newly : NightTarget(i)}
           g == NewGate(Seen)
<1> SUFFICES ASSUME capital > 0, Cost(D) > 0
             PROVE  Cost(D) + AtLeast(g.reserve, Cost(N)) <= capital - Value(Held)
  BY DEF LeavesReserve
<1>1. /\ D \subseteq Newly /\ (\A i \in D : DayTarget(i))
      /\ N \subseteq Newly /\ (\A i \in N : NightTarget(i))
  OBVIOUS
<1> HIDE DEF D, N
<1>2. D # {}
  <2> SUFFICES ASSUME D = {} PROVE FALSE
    OBVIOUS
  <2> DEFINE c == [i \in D |-> lot'[i].qty * Price[i]]
  <2>1. Cost(D) = SumFunctionOnSet(c, DOMAIN c) /\ DOMAIN c = {}
    BY DEF Cost, SumFunction
  <2> HIDE DEF c
  <2>2. Cost(D) = 0
    BY <2>1, SumEmpty
  <2> QED BY <2>2
<1>3. PICK q, h : Purchase(q, h)
  BY <1>1, <1>2, NewlyBought
<1>4. /\ capital \in Nat /\ g \in Gates /\ g.free = capital - Value(Held)
      /\ g.free \in Int /\ g.nightLeft \in Int /\ g.reserve \in Nat
  BY GateIs
<1>5. h \in Gates /\ h.free \in Int /\ h.nightLeft \in Int
  BY <1>3 DEF Purchase, Gates
<1>6. PICK d : PaidWith(g, h, q, d)
  BY <1>3 DEF Purchase, Paid
<1> HIDE DEF g
<1>7. \A i \in Newly : FirstOf(q, i) \in Entries /\ FirstOf(q, i).id = i
  BY <1>3 DEF Purchase
<1>8. Cost(D) \in Nat /\ Cost(D) <= d
  <2>1. Within(q, DayEntries, d)
    BY <1>6 DEF PaidWith
  <2>2. \A i \in D : FirstOf(q, i) \in DayEntries
    BY <1>1, <1>7 DEF DayEntries
  <2> QED BY <1>1, <1>3, <2>1, <2>2, NewlyCosts
<1> DEFINE t == g.free - h.free
           n == g.nightLeft - h.nightLeft
<1>9. Cost(N) \in Nat /\ Cost(N) <= n
  <2>1. Within(q, NightEntries, n)
    BY <1>6 DEF PaidWith
  <2>2. \A i \in N : FirstOf(q, i) \in NightEntries
    BY <1>1, <1>7 DEF NightEntries
  <2> HIDE DEF n
  <2> QED BY <1>1, <1>3, <2>1, <2>2, NewlyCosts
<1>10. /\ t \in Nat /\ n \in Nat /\ d \in Nat /\ d + n <= t
       /\ t = 0 \/ h.free >= 0
       /\ d = 0 \/ d + g.reserve <= g.free
  <2>1. capital # 0
    BY <1>4
  <2> QED BY <1>6, <2>1 DEF PaidWith, Spends
<1>11. t <= g.free
  <2>1. t > 0
    <3> HIDE DEF t, n
    <3> QED BY <1>8, <1>10
  <2>2. h.free >= 0
    <3> HIDE DEF t
    <3> QED BY <1>10, <2>1
  <2> QED BY <1>4, <1>5, <2>2
<1> HIDE DEF t, n
<1>12. Cost(D) + g.reserve <= g.free
  BY <1>4, <1>8, <1>10
<1>13. Cost(D) + Cost(N) <= g.free
  BY <1>4, <1>8, <1>9, <1>10, <1>11
<1>14. Cost(D) + AtLeast(g.reserve, Cost(N)) <= g.free
  BY <1>12, <1>13 DEF AtLeast
<1> QED
  BY <1>4, <1>14

\* The stocks of the day leave the night books the money set aside for their next trades, in
\* which what those take in the same tick counts.
THEOREM ReserveSpared == Spec => ReserveKept
<1>1. PInv /\ [Next]_vars => [LeavesReserve]_vars
  BY LeavesReserveNext
<1> QED
  BY <1>1, Types, PTL DEF Spec, ReserveKept, LeavesReserve
=============================================================================
