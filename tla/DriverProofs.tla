---------------------------- MODULE DriverProofs ----------------------------
(***************************************************************************)
(* Driver: what waitFill tells is true, and the drivers keep the promise   *)
(* of OrderCall, that no submission becomes two orders and that what is    *)
(* answered as refused is not at the exchange.                             *)
(*                                                                         *)
(* The proofs go by what an answer makes of the operation in hand.  Either *)
(* the request is made again (Same), which for an order happens only when  *)
(* it was not processed; or the call returns, and End or Ask says what the *)
(* caller is told or asks next.                                            *)
(***************************************************************************)
EXTENDS Driver, SumProofs

PCs == {"idle", "send", "go", "file", "issue", "save"}
Ops == {"none"} \cup UNION {scen.ops[p] : p \in Procs}
Tolds == {"none", "accepted", "refused", "short", "maybe", "ok", "filled", "partial", "unfilled"}
Calls ==
  [op : Ops, api : Apis \cup {"none"},
   try : 0 .. 2, renewed : BOOLEAN, force : BOOLEAN, again : BOOLEAN, seen : BOOLEAN,
   kerr : BOOLEAN, blind : BOOLEAN, qty : Qtys, no : 0 .. MaxOrders, last : Qtys, told : Tolds]

\* The parts of TypeOK
TypeOrders ==
  orders \in [Nos -> [side : {"none", "buy", "sell"}, qty : Qtys, filled : Qtys,
                      st : {"none", "open", "done", "cancelled"}]]
TypeTokens ==
  /\ live \in Tokens \cup {0} /\ file \in Tokens \cup {0} /\ old \subseteq Tokens
  /\ mine \in [Procs -> Tokens \cup {0}]
TypeCalls == pc \in [Procs -> PCs] /\ call \in [Procs -> Calls]
TypeRest ==
  /\ scen \in Scenarios
  /\ left \in [Procs -> 0 .. MaxOps] /\ late \in [Procs -> Qtys]
  /\ faults \in 0 .. scen.faults /\ rotations \in 0 .. scen.rotations
  /\ sent \in [Procs -> SUBSET Nos] /\ torn \in [Procs -> BOOLEAN]
  /\ unsaved \in BOOLEAN

\* TypeOK is its parts.
LEMMA TypeParts == TypeOK <=> TypeOrders /\ TypeTokens /\ TypeCalls /\ TypeRest
BY DEF TypeOK, TypeOrders, TypeTokens, TypeCalls, TypeRest, PCs, Ops, Tolds, Calls

\* The least of some numbers is one of them.
LEMMA MinIs ==
  ASSUME NEW S \in SUBSET Nat, S # {}
  PROVE  Min(S) \in S
<1>1. PICK m \in S : \A k \in S : <<k, m>> \notin OpToRel(<, Nat)
  BY NatLessThanWellFounded, WFMin
<1>2. \A k \in S : k \in Nat /\ m \in Nat /\ ~(k < m)
  BY <1>1 DEF OpToRel
<1>3. \A k \in S : m <= k
  BY <1>2
<1> QED
  BY <1>3 DEF Min

\* Finitely many numbers have a bound.
LEMMA FiniteBounded ==
  ASSUME NEW S \in SUBSET Nat, IsFiniteSet(S)
  PROVE  \E n \in Nat : \A x \in S : x <= n
<1> DEFINE Bounded(U) == \E n \in Nat : \A x \in U : x <= n
           T == {U \in SUBSET S : ~Bounded(U)}
<1> SUFFICES ASSUME T # {}
             PROVE  FALSE
  OBVIOUS
<1>0. T \in SUBSET (SUBSET S)
  OBVIOUS
<1> HIDE DEF T
<1>1. PICK U \in T : \A V \in SUBSET U : V # U => V \notin T
  BY <1>0, Smallest
<1> USE DEF T
<1>2. Bounded({})
  OBVIOUS
<1>3. U \subseteq S /\ ~Bounded(U) /\ U # {}
  BY <1>2
<1>4. PICK x \in U : x \in Nat
  BY <1>3
<1>5. U \ {x} \in SUBSET U /\ U \ {x} # U /\ U \ {x} \subseteq S
  BY <1>3
<1>6. Bounded(U \ {x})
  BY <1>1, <1>5
<1>7. PICK n \in Nat : \A y \in U \ {x} : y <= n
  BY <1>6
<1>8. n + x \in Nat /\ \A y \in U : y <= n + x
  BY <1>3, <1>4, <1>7
<1> QED
  BY <1>3, <1>8

\* Quantities are numbers up to a greatest one, and nobody asks for none.
LEMMA QtysBound ==
  ASSUME scen \in Scenarios
  PROVE  /\ Qtys \subseteq Nat /\ 0 \in Qtys /\ scen.want \in Qtys /\ scen.want > 0
         /\ \A q \in Qtys, k \in Nat : k <= q => k \in Qtys
         /\ Max(Qtys) \in Nat /\ \A q \in Qtys : q <= Max(Qtys)
<1> DEFINE W == {s.want : s \in Scenarios}
           f == [s \in Scenarios |-> s.want]
<1>1. scen \in Scenarios /\ \A s \in Scenarios : s.want \in Nat /\ s.want > 0
  BY DriverAssumption
<1>2. W \in SUBSET Nat /\ scen.want \in W
  BY <1>1
<1>3. f \in Surjection(Scenarios, W)
  BY DEF Surjection
<1>4. IsFiniteSet(W)
  BY <1>3, DriverAssumption, FS_Surjection
<1>5. PICK n \in Nat : \A x \in W : x <= n
  BY <1>2, <1>4, FiniteBounded
<1>6. Max(W) \in W /\ \A x \in W : x <= Max(W)
  BY <1>2, <1>5, MaxIs
<1>7. Qtys = 0 .. Max(W)
  BY DEF Qtys
<1> HIDE DEF W
<1>8. Max(W) \in Nat /\ scen.want <= Max(W)
  BY <1>2, <1>6
<1>9. Qtys \subseteq Nat /\ 0 \in Qtys /\ scen.want \in Qtys /\ scen.want > 0
      /\ \A q \in Qtys, k \in Nat : k <= q => k \in Qtys
  BY <1>1, <1>2, <1>7, <1>8
<1>10. Qtys \in SUBSET Nat /\ Qtys # {} /\ \A q \in Qtys : q <= Max(W)
  BY <1>7, <1>8
<1>11. Max(Qtys) \in Qtys /\ \A q \in Qtys : q <= Max(Qtys)
  BY <1>8, <1>10, MaxIs
<1> QED
  BY <1>9, <1>11

\* The same, of a state of the right type.
LEMMA QtysAre ==
  ASSUME TypeRest
  PROVE  /\ Qtys \subseteq Nat /\ 0 \in Qtys /\ scen.want \in Qtys /\ scen.want > 0
         /\ \A q \in Qtys, k \in Nat : k <= q => k \in Qtys
         /\ Max(Qtys) \in Nat /\ \A q \in Qtys : q <= Max(Qtys)
BY QtysBound DEF TypeRest

\* There is always a token that nobody has.
LEMMA NewTokenIs ==
  ASSUME TypeTokens, NEW p \in Procs
  PROVE  NewToken \in Tokens
<1> DEFINE M == {mine[q] : q \in Procs}
           T == Tokens \ ({live, file} \cup M)
<1>1. mine \in Surjection(Procs, M)
  BY DEF TypeTokens, Surjection
<1>2. IsFiniteSet(M) /\ Cardinality(M) <= Cardinality(Procs)
  BY <1>1, DriverAssumption, FS_Surjection
<1>3. IsFiniteSet({live, file}) /\ Cardinality({live, file}) <= 2
  <2>1. IsFiniteSet({live}) /\ Cardinality({live}) = 1
    BY FS_Singleton
  <2>2. {live, file} = {live} \cup {file}
    OBVIOUS
  <2> QED BY <2>1, <2>2, FS_AddElement
<1>4. Cardinality(Procs) \in Nat /\ Cardinality(Procs) # 0
  BY DriverAssumption, FS_CardinalityType, FS_EmptySet
<1>5. Cardinality(M) \in Nat /\ Cardinality({live, file}) \in Nat
  BY <1>2, <1>3, FS_CardinalityType
<1> HIDE DEF M
<1>6. IsFiniteSet({live, file} \cup M)
      /\ Cardinality({live, file} \cup M) <= 2 + Cardinality(Procs)
  <2>1. IsFiniteSet({live, file} \cap M) /\ Cardinality({live, file} \cap M) \in Nat
    BY <1>3, FS_Subset, FS_CardinalityType, {live, file} \cap M \in SUBSET {live, file}
  <2>2. IsFiniteSet({live, file} \cup M)
        /\ Cardinality({live, file} \cup M)
             = Cardinality({live, file}) + Cardinality(M) - Cardinality({live, file} \cap M)
    BY <1>2, <1>3, FS_Union
  <2> QED BY <1>2, <1>3, <1>4, <1>5, <2>1, <2>2
<1>7. ~(Tokens \subseteq {live, file} \cup M)
  <2> SUFFICES ASSUME Tokens \in SUBSET ({live, file} \cup M)
               PROVE  FALSE
    OBVIOUS
  <2>1. Cardinality(Tokens) <= Cardinality({live, file} \cup M)
    BY <1>6, FS_Subset
  <2>2. Cardinality(Tokens) \in Nat /\ Cardinality({live, file} \cup M) \in Nat
    BY <1>6, DriverAssumption, FS_CardinalityType
  <2>3. Cardinality(Tokens) > 2 * Cardinality(Procs) + 1
    BY DriverAssumption
  <2> QED BY <1>4, <1>6, <2>1, <2>2, <2>3
<1>8. T # {} /\ T \in SUBSET Nat
  BY <1>7, DriverAssumption
<1>9. NewToken = Min(T)
  BY DEF NewToken, M
<1> HIDE DEF T
<1>10. NewToken \in T
  BY <1>8, <1>9, MinIs
<1> QED
  BY <1>10 DEF T

-----------------------------------------------------------------------------
(* What a step makes of the operation in hand.                             *)

\* Of the operations, only that of p goes on
OnlyCall(p) ==
  /\ pc' = [pc EXCEPT ![p] = pc'[p]] /\ pc'[p] \in PCs
  /\ call' = [call EXCEPT ![p] = call'[p]] /\ call'[p] \in Calls
  /\ call'[p].op = call[p].op

\* And the number of its order stays
Goes(p) == OnlyCall(p) /\ (call[p].no # 0 => call'[p].no = call[p].no)

\* The operation goes on with the request a, of this order and quantity
AsksFor(p, a, no, qty, last) ==
  /\ OnlyCall(p)
  /\ pc'[p] = "send" /\ call'[p].api = a /\ call'[p].told = call[p].told
  /\ call'[p].no = no /\ call'[p].qty = qty /\ call'[p].last = last

\* The operation is over, and its caller told
IsTold(p, told, no, last, blind) ==
  /\ OnlyCall(p)
  /\ pc'[p] = "idle" /\ call'[p].api = "none" /\ call'[p].told = told
  /\ call'[p].no = no /\ call'[p].qty = call[p].qty /\ call'[p].last = last
  /\ call'[p].blind = blind

\* The request is made again, or a token looked for
Same(p) ==
  /\ OnlyCall(p)
  /\ pc'[p] # "idle"
  /\ \A f \in {"api", "no", "qty", "last", "kerr", "blind", "told"} : call'[p][f] = call[p][f]

\* The call that Ask makes of another one.
LEMMA CallAsked ==
  ASSUME NEW r \in Calls, NEW try \in 0 .. 2, NEW renewed \in BOOLEAN, NEW force \in BOOLEAN
  PROVE  [r EXCEPT !.try = try, !.renewed = renewed, !.force = force] \in Calls
BY DEF Calls

\* Ask keeps the call as it is given.
LEMMA AskIs ==
  ASSUME TypeCalls, NEW p \in Procs, NEW r \in Calls, r.op = call[p].op, r.told = call[p].told,
         Ask(p, r)
  PROVE  AsksFor(p, r.api, r.no, r.qty, r.last) /\ call'[p].kerr = r.kerr
<1>1. pc' = [pc EXCEPT ![p] = "send"]
      /\ call' = [call EXCEPT ![p] = [r EXCEPT !.try = 0, !.renewed = FALSE, !.force = FALSE]]
  BY DEF Ask
<1>2. call'[p] = [r EXCEPT !.try = 0, !.renewed = FALSE, !.force = FALSE] /\ pc'[p] = "send"
  BY <1>1 DEF TypeCalls
<1>3. /\ call'[p].op = r.op /\ call'[p].api = r.api /\ call'[p].no = r.no /\ call'[p].qty = r.qty
      /\ call'[p].last = r.last /\ call'[p].told = r.told /\ call'[p].kerr = r.kerr
  BY <1>2 DEF Calls
<1>4. call'[p] \in Calls
  <2>1. 0 \in 0 .. 2 /\ FALSE \in BOOLEAN
    OBVIOUS
  <2> QED BY ONLY <1>2, <2>1, CallAsked, r \in Calls
<1> QED
  BY <1>1, <1>2, <1>3, <1>4 DEF AsksFor, OnlyCall, PCs, TypeCalls

\* End keeps what the caller is told.
LEMMA EndIs ==
  ASSUME TypeCalls, TypeRest, NEW p \in Procs, NEW r \in Calls, r.op = call[p].op,
         r.qty = call[p].qty, NEW told \in Tolds, End(p, r, told)
  PROVE  IsTold(p, told, r.no, r.last, r.blind)
<1> DEFINE d == [NoCall EXCEPT !.op = r.op, !.qty = r.qty, !.no = r.no, !.last = r.last,
                               !.blind = r.blind, !.told = told]
<1>1. pc' = [pc EXCEPT ![p] = "idle"] /\ call' = [call EXCEPT ![p] = d]
  BY DEF End
<1>2. NoCall \in Calls /\ NoCall.api = "none"
  BY QtysAre, DriverAssumption DEF Calls, NoCall, Ops, Tolds
<1>3. /\ d \in Calls
      /\ d.op = r.op /\ d.qty = r.qty /\ d.no = r.no /\ d.last = r.last /\ d.blind = r.blind
      /\ d.told = told /\ d.api = "none"
  <2>1. /\ r.op \in Ops /\ r.qty \in Qtys /\ r.no \in 0 .. MaxOrders /\ r.last \in Qtys
        /\ r.blind \in BOOLEAN
    BY DEF Calls
  <2>2. d = [NoCall EXCEPT !.op = r.op, !.qty = r.qty, !.no = r.no, !.last = r.last,
                           !.blind = r.blind, !.told = told]
    OBVIOUS
  <2> HIDE DEF d
  <2> QED BY ONLY <1>2, <2>1, <2>2, told \in Tolds DEF Calls
<1> HIDE DEF d
<1>4. call'[p] = d /\ pc'[p] = "idle"
  BY <1>1 DEF TypeCalls
<1> QED
  BY <1>1, <1>3, <1>4 DEF IsTold, OnlyCall, PCs, TypeCalls

\* Ask with one or two fields changed.
LEMMA AskEdited ==
  ASSUME TypeCalls, NEW p \in Procs, NEW c \in Calls, c.op = call[p].op, c.told = call[p].told
  PROVE  /\ \A a \in Apis : Ask(p, [c EXCEPT !.api = a]) =>
              AsksFor(p, a, c.no, c.qty, c.last) /\ call'[p].kerr = c.kerr
         /\ \A a \in Apis, q \in Qtys : Ask(p, [c EXCEPT !.api = a, !.qty = q]) =>
              AsksFor(p, a, c.no, q, c.last)
         /\ \A a \in Apis, n \in 0 .. MaxOrders : Ask(p, [c EXCEPT !.api = a, !.no = n]) =>
              AsksFor(p, a, n, c.qty, c.last)
         /\ \A q \in Qtys, b \in BOOLEAN : Ask(p, [c EXCEPT !.qty = q, !.again = b]) =>
              AsksFor(p, c.api, c.no, q, c.last)
         /\ \A a \in Apis, b \in BOOLEAN : Ask(p, [c EXCEPT !.api = a, !.kerr = b]) =>
              AsksFor(p, a, c.no, c.qty, c.last) /\ call'[p].kerr = b
<1>1. ASSUME NEW a \in Apis, Ask(p, [c EXCEPT !.api = a])
      PROVE  AsksFor(p, a, c.no, c.qty, c.last) /\ call'[p].kerr = c.kerr
  <2> DEFINE r == [c EXCEPT !.api = a]
  <2>1. r \in Calls
    BY DEF Calls
  <2>2. /\ r.api = a /\ r.op = c.op /\ r.told = c.told /\ r.no = c.no /\ r.qty = c.qty
        /\ r.last = c.last /\ r.kerr = c.kerr
    BY DEF Calls
  <2>3. Ask(p, r)
    BY <1>1
  <2> HIDE DEF r
  <2> QED BY <2>1, <2>2, <2>3, AskIs
<1>2. ASSUME NEW a \in Apis, NEW q \in Qtys, Ask(p, [c EXCEPT !.api = a, !.qty = q])
      PROVE  AsksFor(p, a, c.no, q, c.last)
  <2> DEFINE r == [c EXCEPT !.api = a, !.qty = q]
  <2>1. r \in Calls
    BY DEF Calls
  <2>2. /\ r.api = a /\ r.op = c.op /\ r.told = c.told /\ r.no = c.no /\ r.qty = q
        /\ r.last = c.last
    BY DEF Calls
  <2>3. Ask(p, r)
    BY <1>2
  <2> HIDE DEF r
  <2> QED BY <2>1, <2>2, <2>3, AskIs
<1>3. ASSUME NEW a \in Apis, NEW n \in 0 .. MaxOrders, Ask(p, [c EXCEPT !.api = a, !.no = n])
      PROVE  AsksFor(p, a, n, c.qty, c.last)
  <2> DEFINE r == [c EXCEPT !.api = a, !.no = n]
  <2>1. r \in Calls
    BY DEF Calls
  <2>2. /\ r.api = a /\ r.op = c.op /\ r.told = c.told /\ r.no = n /\ r.qty = c.qty
        /\ r.last = c.last
    BY DEF Calls
  <2>3. Ask(p, r)
    BY <1>3
  <2> HIDE DEF r
  <2> QED BY <2>1, <2>2, <2>3, AskIs
<1>4. ASSUME NEW q \in Qtys, NEW b \in BOOLEAN, Ask(p, [c EXCEPT !.qty = q, !.again = b])
      PROVE  AsksFor(p, c.api, c.no, q, c.last)
  <2> DEFINE r == [c EXCEPT !.qty = q, !.again = b]
  <2>1. r \in Calls
    BY DEF Calls
  <2>2. /\ r.api = c.api /\ r.op = c.op /\ r.told = c.told /\ r.no = c.no /\ r.qty = q
        /\ r.last = c.last
    BY DEF Calls
  <2>3. Ask(p, r)
    BY <1>4
  <2> HIDE DEF r
  <2> QED BY <2>1, <2>2, <2>3, AskIs
<1>5. ASSUME NEW a \in Apis, NEW b \in BOOLEAN, Ask(p, [c EXCEPT !.api = a, !.kerr = b])
      PROVE  AsksFor(p, a, c.no, c.qty, c.last) /\ call'[p].kerr = b
  <2> DEFINE r == [c EXCEPT !.api = a, !.kerr = b]
  <2>1. r \in Calls
    BY DEF Calls
  <2>2. /\ r.api = a /\ r.op = c.op /\ r.told = c.told /\ r.no = c.no /\ r.qty = c.qty
        /\ r.last = c.last /\ r.kerr = b
    BY DEF Calls
  <2>3. Ask(p, r)
    BY <1>5
  <2> HIDE DEF r
  <2> QED BY <2>1, <2>2, <2>3, AskIs
<1> QED
  BY <1>1, <1>2, <1>3, <1>4, <1>5

\* Report tells what is known of the order.
LEMMA ReportIs ==
  ASSUME TypeCalls, TypeRest, NEW p \in Procs, NEW c \in Calls, c.op = call[p].op,
         c.qty = call[p].qty, Report(p, c)
  PROVE  \E t \in {"filled", "partial", "unfilled"} :
           IsTold(p, t, c.no, c.last, c.blind) /\ (t = "filled" => c.last = c.qty)
<1>1. {"filled", "partial", "unfilled"} \subseteq Tolds
  BY DEF Tolds
<1>2. CASE c.last = c.qty
  BY <1>1, <1>2, EndIs DEF Report
<1>3. CASE c.last # c.qty /\ c.last = 0
  BY <1>1, <1>3, EndIs DEF Report
<1>4. CASE c.last # c.qty /\ c.last # 0
  BY <1>1, <1>4, EndIs DEF Report
<1> QED
  BY <1>2, <1>3, <1>4

-----------------------------------------------------------------------------
(* The invariant of one program, and the inductive invariant.              *)

\* What an order at the exchange looks like
OrdersOK ==
  \A n \in Nos : orders[n].st # "none" =>
    /\ 0 < orders[n].qty /\ orders[n].filled <= orders[n].qty
    /\ orders[n].st = "open" => orders[n].filled < orders[n].qty

\* The operation in hand of p and the request it is about to make
Asks(p) ==
  LET c == call[p]
  IN /\ pc[p] = "idle" <=> c.api = "none"
     /\ c.api # "none" => c.told = "none" /\ late[p] = 0 /\ ~torn[p]
     /\ c.api \in {"allow", "buy"} => c.op \in {"SubmitBuy", "Buy"}
     /\ c.api = "sell" => c.op \in {"SubmitSell", "Sell", "PlaceTP"}
     /\ c.api \in {"allow", "buy", "sell"} => c.no = 0 /\ c.last = 0 /\ 0 < c.qty
     /\ c.api = "cancel" => c.op = "CancelOrder" /\ c.no # 0 /\ orders[c.no].st # "none"
     /\ c.api = "query" => c.op = "Query"
     /\ c.api \in {"poll", "kill", "recheck"} => c.op \in {"Buy", "Sell"} /\ c.no # 0

\* What waitFill knows is true
Knows(p) ==
  LET c == call[p]
  IN c.api \in {"poll", "kill", "recheck"} =>
       /\ c.last <= orders[c.no].filled
       /\ c.api = "recheck" /\ ~c.kerr => orders[c.no].st # "open"

\* The number of an order stands for the one order sent
Numbered(p) ==
  LET c == call[p]
  IN Submission(p) /\ c.no # 0 =>
       /\ sent[p] = {c.no} /\ late[p] = 0
       /\ orders[c.no].st # "none" /\ orders[c.no].qty = c.qty

\* Without a number, an order is sent or on its way only if the caller was not told
\* that there is none
Unnumbered(p) ==
  LET c == call[p]
  IN /\ ~Submission(p) => sent[p] = {} /\ late[p] = 0
     /\ c.no = 0 /\ c.api # "none" => sent[p] = {}
     /\ Submission(p) /\ c.no = 0 /\ c.api = "none" =>
          \/ c.told \in {"refused", "short"} /\ (sent[p] = {} \/ torn[p]) /\ late[p] = 0
          \/ c.told = "accepted" /\ torn[p] /\ late[p] = 0
          \/ c.told = "maybe"
     /\ sent[p] = {} \/ (late[p] = 0 /\ \E n \in Nos : sent[p] = {n} /\ orders[n].st # "none")

\* What waitFill told is true
Told(p) ==
  LET c == call[p]
      o == orders[c.no]
  IN c.told \in {"filled", "partial", "unfilled"} =>
       /\ Submission(p) /\ c.no # 0
       /\ \/ o.st # "open" /\ o.filled = c.last
          \/ c.blind /\ c.told # "filled"

\* All of it, for one program
ProcOK(p) == Asks(p) /\ Knows(p) /\ Numbered(p) /\ Unnumbered(p) /\ Told(p)

\* The inductive invariant
IInv == TypeOK /\ OrdersOK /\ \A p \in Procs : ProcOK(p)

-----------------------------------------------------------------------------
(* What a call that returns makes of the operation.                        *)

\* A call that fails: what becomes of the operation, by its request.
LEMMA ReturnFails ==
  ASSUME TypeCalls, TypeRest, NEW p \in Procs, Asks(p), NEW v \in {"refused", "maybe"}, NEW val,
         NEW over, Return(p, v, val, over)
  PROVE  LET c == call[p] IN
         /\ c.api = "allow" => AsksFor(p, "buy", c.no, c.qty, c.last)
         /\ Ordering(p) => IsTold(p, v, c.no, c.last, c.blind)
         /\ c.api \in {"cancel", "query"} => IsTold(p, "refused", c.no, c.last, c.blind)
         /\ c.api = "poll" => \E a \in {"poll", "kill"} : AsksFor(p, a, c.no, c.qty, c.last)
         /\ c.api = "kill" => AsksFor(p, "recheck", c.no, c.qty, c.last) /\ call'[p].kerr
         /\ c.api = "recheck" =>
              \E t \in {"maybe", "refused", "filled", "partial", "unfilled"} :
                IsTold(p, t, c.no, c.last, TRUE) /\ (t = "filled" => c.last = c.qty)
<1> DEFINE c == call[p]
<1>1. c \in Calls /\ c.qty \in Qtys /\ c.qty \in Nat /\ v \in Tolds /\ "refused" \in Tolds
      /\ "maybe" \in Tolds /\ v # "ok" /\ v # "short" /\ v # "blank"
  BY QtysAre DEF TypeCalls, Calls, Tolds
<1>2. {"buy", "poll", "kill", "recheck"} \subseteq Apis
  BY DEF Apis
<1>3. ASSUME c.api = "allow"
      PROVE  AsksFor(p, "buy", c.no, c.qty, c.last)
  <2>1. Allowed(p, v, val) /\ AllowedQty(p, v, val) = c.qty /\ c.qty # 0
    BY <1>1, <1>3 DEF Return, AllowedQty, Asks, Ordering
  <2>2. Ask(p, [c EXCEPT !.api = "buy", !.qty = c.qty])
    BY <2>1 DEF Allowed
  <2> HIDE DEF c
  <2> QED BY <1>1, <1>2, <2>2, AskEdited DEF c
<1>4. ASSUME Ordering(p)
      PROVE  IsTold(p, v, c.no, c.last, c.blind)
  <2>1. Submitted(p, v, val) /\ ~Smaller(p, v, val)
    BY <1>1, <1>4 DEF Return, Ordering, Smaller
  <2>2. End(p, c, v)
    BY <1>1, <2>1 DEF Submitted
  <2> QED BY <1>1, <2>2, EndIs
<1>5. ASSUME c.api \in {"cancel", "query"}
      PROVE  IsTold(p, "refused", c.no, c.last, c.blind)
  <2>1. End(p, c, "refused")
    BY <1>1, <1>5 DEF Return, Ordering
  <2> QED BY <1>1, <2>1, EndIs
<1>6. ASSUME c.api = "poll"
      PROVE  \E a \in {"poll", "kill"} : AsksFor(p, a, c.no, c.qty, c.last)
  <2>1. Polled(p, v, val, over)
    BY <1>6 DEF Return, Ordering
  <2>2. PICK a \in {"poll", "kill"} : Ask(p, [c EXCEPT !.api = a])
    BY <1>1, <2>1 DEF Polled
  <2> HIDE DEF c
  <2> QED BY <1>1, <1>2, <2>2, AskEdited DEF c
<1>7. ASSUME c.api = "kill"
      PROVE  AsksFor(p, "recheck", c.no, c.qty, c.last) /\ call'[p].kerr
  <2>1. Ask(p, [c EXCEPT !.api = "recheck", !.kerr = v # "ok"])
    BY <1>7 DEF Return, Ordering, Cancelled
  <2>2. Ask(p, [c EXCEPT !.api = "recheck", !.kerr = TRUE])
    BY <1>1, <2>1
  <2> HIDE DEF c
  <2> QED BY <1>1, <1>2, <2>2, AskEdited DEF c
<1>8. ASSUME c.api = "recheck"
      PROVE  \E t \in {"maybe", "refused", "filled", "partial", "unfilled"} :
               IsTold(p, t, c.no, c.last, TRUE) /\ (t = "filled" => c.last = c.qty)
  <2> DEFINE d == [c EXCEPT !.blind = TRUE]
  <2>1. d \in Calls
    BY <1>1 DEF Calls
  <2>2. d.op = c.op /\ d.qty = c.qty /\ d.no = c.no /\ d.last = c.last /\ d.blind
    BY <1>1 DEF Calls
  <2>3. Rechecked(p, v, val, over)
    BY <1>8 DEF Return, Ordering
  <2>4. IF Kiwoom THEN KiwoomRechecked(p, d) ELSE UpbitRechecked(p, d, v = "ok" /\ over)
    BY <1>1, <2>3 DEF Rechecked
  <2> HIDE DEF d
  <2>5. End(p, d, "maybe") \/ End(p, d, "refused") \/ Report(p, d)
    BY <2>4 DEF KiwoomRechecked, UpbitRechecked
  <2>6. CASE End(p, d, "maybe") \/ End(p, d, "refused")
    BY <1>1, <2>1, <2>2, <2>6, EndIs
  <2>7. CASE Report(p, d)
    <3>1. PICK t \in {"filled", "partial", "unfilled"} :
            IsTold(p, t, d.no, d.last, d.blind) /\ (t = "filled" => d.last = d.qty)
      BY <2>1, <2>2, <2>7, ReportIs
    <3>2. d.blind = TRUE
      BY <2>1, <2>2 DEF Calls
    <3> QED BY <2>2, <3>1, <3>2
  <2> QED BY <2>5, <2>6, <2>7
<1> QED
  BY <1>3, <1>4, <1>5, <1>6, <1>7, <1>8

\* A call that is answered.
LEMMA ReturnGives ==
  ASSUME TypeCalls, TypeRest, NEW p \in Procs, Asks(p), NEW val, NEW over,
         Return(p, "ok", val, over)
  PROVE  LET c == call[p] IN
         /\ c.api = "allow" /\ val \in Nat =>
              \/ IsTold(p, "short", c.no, c.last, c.blind)
              \/ \E q \in Qtys : 0 < q /\ AsksFor(p, "buy", c.no, q, c.last)
         /\ Ordering(p) /\ val \in Nos =>
              \/ c.op \in {"Buy", "Sell"} /\ AsksFor(p, "poll", val, c.qty, c.last)
              \/ IsTold(p, "accepted", val, c.last, c.blind)
         /\ c.api \in {"cancel", "query"} => IsTold(p, "ok", c.no, c.last, c.blind)
         /\ c.api = "poll" /\ val \in Qtys =>
              \/ \E a \in {"poll", "kill"} : AsksFor(p, a, c.no, c.qty, val)
              \/ /\ val = c.qty \/ over
                 /\ \E t \in {"filled", "partial", "unfilled"} : IsTold(p, t, c.no, val, c.blind)
         /\ c.api = "kill" => AsksFor(p, "recheck", c.no, c.qty, c.last) /\ ~call'[p].kerr
         /\ c.api = "recheck" /\ val \in Qtys =>
              \E t \in {"maybe", "refused", "filled", "partial", "unfilled"} :
                IsTold(p, t, c.no, val, c.kerr) /\ (t = "filled" => val = c.qty)
<1> DEFINE c == call[p]
<1>1. c \in Calls /\ c.qty \in Qtys /\ c.qty \in Nat /\ {"refused", "maybe", "short", "ok", "accepted"} \subseteq Tolds
  BY QtysAre DEF TypeCalls, Calls, Tolds
<1>2. {"buy", "poll", "kill", "recheck"} \subseteq Apis
  BY DEF Apis
<1>3. ASSUME c.api = "allow", val \in Nat
      PROVE  \/ IsTold(p, "short", c.no, c.last, c.blind)
             \/ \E q \in Qtys : 0 < q /\ AsksFor(p, "buy", c.no, q, c.last)
  <2> DEFINE q == AllowedQty(p, "ok", val)
  <2>1. Allowed(p, "ok", val)
    BY <1>3 DEF Return, Ordering
  <2>2. q \in Qtys /\ q \in Nat
    BY <1>1, <1>3, QtysAre DEF AllowedQty
  <2>3. IF q = 0 THEN End(p, c, "short") ELSE Ask(p, [c EXCEPT !.api = "buy", !.qty = q])
    BY <2>1 DEF Allowed
  <2>4. CASE q = 0
    BY <1>1, <2>3, <2>4, EndIs
  <2>5. CASE q # 0
    <3>1. Ask(p, [c EXCEPT !.api = "buy", !.qty = q])
      BY <2>3, <2>5
    <3> HIDE DEF q, c
    <3>2. AsksFor(p, "buy", c.no, q, c.last)
      BY <1>1, <1>2, <2>2, <3>1, AskEdited DEF c
    <3> QED BY <2>2, <2>5, <3>2
  <2> QED BY <2>4, <2>5
<1>4. ASSUME Ordering(p), val \in Nos
      PROVE  \/ c.op \in {"Buy", "Sell"} /\ AsksFor(p, "poll", val, c.qty, c.last)
             \/ IsTold(p, "accepted", val, c.last, c.blind)
  <2>1. Submitted(p, "ok", val)
    BY <1>4 DEF Return, Ordering
  <2>4. val \in 0 .. MaxOrders
    BY <1>4, DriverAssumption DEF Nos
  <2>2. CASE c.op \in {"Buy", "Sell"}
    <3>1. Ask(p, [c EXCEPT !.api = "poll", !.no = val])
      BY <2>1, <2>2 DEF Submitted, Smaller
    <3> HIDE DEF c
    <3> QED BY <1>1, <1>2, <2>4, <2>2, <3>1, AskEdited DEF c
  <2>3. CASE c.op \notin {"Buy", "Sell"}
    <3> DEFINE d == [c EXCEPT !.no = val]
    <3>1. End(p, d, "accepted")
      BY <2>1, <2>3 DEF Submitted, Smaller
    <3>2. d \in Calls
      BY <1>1, <2>4 DEF Calls
    <3>3. d.op = c.op /\ d.qty = c.qty /\ d.no = val /\ d.last = c.last /\ d.blind = c.blind
      BY <1>1 DEF Calls
    <3> HIDE DEF d
    <3> QED BY <1>1, <3>1, <3>2, <3>3, EndIs
  <2> QED BY <2>2, <2>3
<1>5. ASSUME c.api \in {"cancel", "query"}
      PROVE  IsTold(p, "ok", c.no, c.last, c.blind)
  <2>1. End(p, c, "ok")
    BY <1>5 DEF Return, Ordering
  <2> QED BY <1>1, <2>1, EndIs
<1>6. ASSUME c.api = "poll", val \in Qtys
      PROVE  \/ \E a \in {"poll", "kill"} : AsksFor(p, a, c.no, c.qty, val)
             \/ /\ val = c.qty \/ over
                /\ \E t \in {"filled", "partial", "unfilled"} : IsTold(p, t, c.no, val, c.blind)
  <2> DEFINE d == [c EXCEPT !.last = val, !.seen = TRUE]
  <2>1. d \in Calls
    BY <1>1, <1>6 DEF Calls
  <2>2. /\ d.op = c.op /\ d.qty = c.qty /\ d.no = c.no /\ d.last = val /\ d.blind = c.blind
        /\ d.told = c.told
    BY <1>1 DEF Calls
  <2>3. Polled(p, "ok", val, over)
    BY <1>6 DEF Return, Ordering
  <2>4. IF Ends(p, val, over) THEN Report(p, d) ELSE \E a \in {"poll", "kill"} : Ask(p, [d EXCEPT !.api = a])
    BY <2>3 DEF Polled
  <2> HIDE DEF d
  <2>5. CASE Ends(p, val, over)
    <3>1. val = c.qty \/ over
      BY <2>5 DEF Ends
    <3>2. Report(p, d)
      BY <2>4, <2>5
    <3> QED BY <2>1, <2>2, <3>1, <3>2, ReportIs
  <2>6. CASE ~Ends(p, val, over)
    <3>1. PICK a \in {"poll", "kill"} : Ask(p, [d EXCEPT !.api = a])
      BY <2>4, <2>6
    <3> QED BY <1>2, <2>1, <2>2, <3>1, AskEdited
  <2> QED BY <2>5, <2>6
<1>7. ASSUME c.api = "kill"
      PROVE  AsksFor(p, "recheck", c.no, c.qty, c.last) /\ ~call'[p].kerr
  <2>1. Ask(p, [c EXCEPT !.api = "recheck", !.kerr = "ok" # "ok"])
    BY <1>7 DEF Return, Ordering, Cancelled
  <2>2. Ask(p, [c EXCEPT !.api = "recheck", !.kerr = FALSE])
    BY <2>1
  <2> HIDE DEF c
  <2> QED BY <1>1, <1>2, <2>2, AskEdited DEF c
<1>8. ASSUME c.api = "recheck", val \in Qtys
      PROVE  \E t \in {"maybe", "refused", "filled", "partial", "unfilled"} :
               IsTold(p, t, c.no, val, c.kerr) /\ (t = "filled" => val = c.qty)
  <2> DEFINE e == [c EXCEPT !.blind = "ok" # "ok" \/ c.kerr]
             d == [e EXCEPT !.last = val, !.seen = TRUE]
  <2>1. e \in Calls
    BY <1>1 DEF Calls
  <2>2. e.op = c.op /\ e.qty = c.qty /\ e.no = c.no /\ e.blind = c.kerr
    BY <1>1 DEF Calls
  <2>3. Rechecked(p, "ok", val, over)
    BY <1>8 DEF Return, Ordering
  <2>4. IF Kiwoom THEN KiwoomRechecked(p, d) ELSE UpbitRechecked(p, d, "ok" = "ok" /\ over)
    BY <2>3 DEF Rechecked
  <2> HIDE DEF e
  <2>5. d \in Calls
    BY <1>8, <2>1 DEF Calls
  <2>6. d.op = c.op /\ d.qty = c.qty /\ d.no = c.no /\ d.last = val /\ d.blind = c.kerr
    BY <2>1, <2>2 DEF Calls
  <2> HIDE DEF d
  <2>7. End(p, d, "maybe") \/ End(p, d, "refused") \/ Report(p, d)
    BY <2>4 DEF KiwoomRechecked, UpbitRechecked
  <2>8. CASE End(p, d, "maybe") \/ End(p, d, "refused")
    BY <1>1, <2>5, <2>6, <2>8, EndIs
  <2>9. CASE Report(p, d)
    BY <2>5, <2>6, <2>9, ReportIs
  <2> QED BY <2>7, <2>8, <2>9
<1> QED
  BY <1>3, <1>4, <1>5, <1>6, <1>7, <1>8

\* An order that the exchange refuses for want of money, or whose number is missing.
LEMMA ReturnShort ==
  ASSUME TypeCalls, TypeRest, NEW p \in Procs, Asks(p), Ordering(p),
         NEW v \in {"short", "blank"}, NEW val, NEW over, Return(p, v, val, over)
  PROVE  LET c == call[p] IN
         /\ v = "short" /\ val \in Nat =>
              \/ IsTold(p, "short", c.no, c.last, c.blind)
              \/ \E q \in Qtys : 0 < q /\ AsksFor(p, c.api, c.no, q, c.last)
         /\ v = "blank" => \E t \in {"accepted", "maybe"} :
                IsTold(p, t, c.no, c.last, c.blind) /\ (t = "accepted" => c.op = "PlaceTP")
<1> DEFINE c == call[p]
<1>1. c \in Calls /\ c.qty \in Qtys /\ c.qty \in Nat /\ {"maybe", "short", "accepted"} \subseteq Tolds
  BY QtysAre DEF TypeCalls, Calls, Tolds
<1>2. Submitted(p, v, val)
  BY DEF Return, Ordering
<1>3. CASE v = "blank"
  <2>1. End(p, c, IF c.op = "PlaceTP" THEN "accepted" ELSE "maybe")
    BY <1>2, <1>3 DEF Submitted, Smaller
  <2> QED BY <1>1, <1>3, <2>1, EndIs
<1>4. CASE v = "short" /\ val \in Nat /\ Smaller(p, v, val)
  <2>1. Ask(p, [c EXCEPT !.qty = val, !.again = TRUE])
    BY <1>2, <1>4 DEF Submitted
  <2>2. val \in Qtys /\ 0 < val
    BY <1>1, <1>4, QtysAre DEF Smaller
  <2> HIDE DEF c
  <2>3. AsksFor(p, c.api, c.no, val, c.last)
    BY <1>1, <2>1, <2>2, AskEdited DEF c
  <2> QED BY <1>4, <2>2, <2>3 DEF c
<1>5. CASE v = "short" /\ ~Smaller(p, v, val)
  <2>1. End(p, c, v)
    BY <1>2, <1>5 DEF Submitted
  <2> QED BY <1>1, <1>5, <2>1, EndIs
<1> QED
  BY <1>3, <1>4, <1>5

-----------------------------------------------------------------------------
(* Answers.                                                                *)

\* Another turn, with what the client read in mind.
LEMMA AgainIs ==
  ASSUME TypeCalls, TypeRest, NEW p \in Procs, Again(p)
  PROVE  Same(p) \/ Return(p, "refused", 0, FALSE)
<1> DEFINE c == call[p]
           d == [c EXCEPT !.try = @ + 1, !.force = FALSE]
<1> SUFFICES ASSUME c.try # 2
             PROVE  Same(p)
  BY DEF Again
<1>1. c \in Calls /\ c.try + 1 \in 0 .. 2
  BY DEF TypeCalls, Calls
<1>2. pc' = [pc EXCEPT ![p] = "send"] /\ call' = [call EXCEPT ![p] = d]
  BY DEF Again
<1>3. d \in Calls
  BY <1>1 DEF Calls
<1>4. d.op = c.op /\ \A f \in {"api", "no", "qty", "last", "kerr", "blind", "told"} : d[f] = c[f]
  BY <1>1 DEF Calls
<1> HIDE DEF d
<1>5. call'[p] = d /\ pc'[p] = "send"
  BY <1>2 DEF TypeCalls
<1> QED
  BY <1>2, <1>3, <1>4, <1>5 DEF Same, OnlyCall, PCs

\* Staying with the call while a token is looked for.
LEMMA StayIs ==
  ASSUME TypeCalls, NEW p \in Procs, NEW at \in PCs, at # "idle", pc' = [pc EXCEPT ![p] = at],
         UNCHANGED call
  PROVE  Same(p)
BY DEF TypeCalls, Same, OnlyCall

\* An answer that is one is what the call returns.
LEMMA ReceiveAnswer ==
  ASSUME NEW p \in Procs, NEW ans \in {"ok", "short", "blank"}, NEW val, NEW over,
         Receive(p, ans, val, over)
  PROVE  Return(p, ans, val, over)
BY DEF Receive, Retries, Verdict

\* The call fails, because of this answer or because it was the last turn
Fails(p, ans, val, over) == \E v \in {"refused", "maybe"} :
  /\ Return(p, v, val, over) \/ Return(p, v, 0, FALSE)
  /\ v = "maybe" => Ordering(p)
  /\ Ordering(p) /\ ans \in {"none", "5xx"} => v = "maybe"

\* What anything else makes of the operation.  An order is sent again only if the server
\* did not know the token or turned it away.
LEMMA ReceiveOther ==
  ASSUME TypeCalls, TypeRest, NEW p \in Procs, NEW ans, ans \notin {"ok", "short", "blank"},
         NEW val, NEW over, Receive(p, ans, val, over)
  PROVE  \/ Same(p) /\ (Ordering(p) => ans \in {"8005", "limit"})
         \/ Fails(p, ans, val, over)
<1> DEFINE c == call[p]
<1>1. CASE ans = "8005" /\ ~c.renewed
  <2> DEFINE d == [c EXCEPT !.renewed = TRUE, !.force = TRUE]
  <2>1. pc' = [pc EXCEPT ![p] = "file"] /\ call' = [call EXCEPT ![p] = d]
    BY <1>1 DEF Receive
  <2>2. c \in Calls /\ TRUE \in BOOLEAN
    BY DEF TypeCalls
  <2>3. d \in Calls
    BY <2>2 DEF Calls
  <2>4. d.op = c.op /\ \A f \in {"api", "no", "qty", "last", "kerr", "blind", "told"} : d[f] = c[f]
    BY <2>2 DEF Calls
  <2> HIDE DEF d
  <2>5. call'[p] = d /\ pc'[p] = "file"
    BY <2>1 DEF TypeCalls
  <2>6. Same(p)
    BY <2>1, <2>3, <2>4, <2>5 DEF Same, OnlyCall, PCs
  <2> QED BY <1>1, <2>6
<1>2. CASE ~(ans = "8005" /\ ~c.renewed) /\ Retries(p, ans)
  <2>1. Again(p)
    BY <1>2 DEF Receive
  <2>2. Ordering(p) => ans = "limit"
    BY <1>2 DEF Retries
  <2>3. Same(p) \/ Return(p, "refused", 0, FALSE)
    BY <2>1, AgainIs
  <2> QED BY <1>2, <2>2, <2>3 DEF Fails, Retries
<1>3. CASE ~(ans = "8005" /\ ~c.renewed) /\ ~Retries(p, ans)
  <2>1. Return(p, Verdict(p, ans), val, over)
    BY <1>3 DEF Receive
  <2>2. /\ Verdict(p, ans) \in {"refused", "maybe"}
        /\ Verdict(p, ans) = "maybe" <=> Ordering(p) /\ ans \in {"none", "5xx"}
    BY DEF Verdict
  <2> QED BY <2>1, <2>2 DEF Fails
<1> QED
  BY <1>1, <1>2, <1>3

-----------------------------------------------------------------------------
(* What the steps of an operation keep.                                    *)

\* Orders are not forgotten, trade on, and do not open again
OrdersGrow ==
  \A n \in Nos : orders[n].st # "none" =>
    /\ orders'[n].st # "none" /\ orders'[n].qty = orders[n].qty
    /\ orders[n].filled <= orders'[n].filled
    /\ orders[n].st # "open" => orders'[n].st # "open" /\ orders'[n].filled = orders[n].filled

\* What the types of a call and of the orders come to, for the leaves below.
LEMMA CallTypes ==
  ASSUME TypeOrders, TypeCalls, TypeRest, NEW p \in Procs
  PROVE  /\ call[p].qty \in Nat /\ call[p].last \in Nat
         /\ call[p].no # 0 => call[p].no \in Nos
         /\ \A n \in Nos : orders[n].filled \in Nat /\ orders[n].qty \in Nat
<1>1. call[p].qty \in Qtys /\ call[p].last \in Qtys /\ call[p].no \in 0 .. MaxOrders
  BY DEF TypeCalls, Calls
<1>2. call[p].no # 0 => call[p].no \in Nos
  BY <1>1, DriverAssumption DEF Nos
<1>3. \A n \in Nos : orders[n].filled \in Qtys /\ orders[n].qty \in Qtys
  BY DEF TypeOrders
<1> QED
  BY <1>1, <1>2, <1>3, QtysAre

\* A program that does nothing meanwhile.
LEMMA OtherKept ==
  ASSUME TypeOrders, TypeCalls, TypeRest, OrdersGrow, TypeOrders', NEW q \in Procs, ProcOK(q),
         pc'[q] = pc[q], call'[q] = call[q], late'[q] = late[q], torn'[q] = torn[q],
         sent'[q] = sent[q]
  PROVE  ProcOK(q)'
<1> DEFINE c == call[q]
<1>1. /\ c.last \in Nat /\ (c.no # 0 => c.no \in Nos)
      /\ \A n \in Nos : orders[n].filled \in Nat
  BY CallTypes
<1>2. \A n \in Nos : orders'[n].filled \in Nat
  BY QtysAre DEF TypeOrders
<1>3. Asks(q)'
  BY <1>1 DEF ProcOK, Asks, OrdersGrow
<1>4. Knows(q)'
  BY <1>1, <1>2 DEF ProcOK, Asks, Numbered, Submission, Knows, OrdersGrow
<1>5. Numbered(q)'
  BY <1>1 DEF ProcOK, Numbered, Submission, OrdersGrow
<1>6. Unnumbered(q)'
  BY <1>1 DEF ProcOK, Unnumbered, Submission, OrdersGrow
<1>7. Told(q)'
  BY <1>1 DEF ProcOK, Numbered, Told, Submission, OrdersGrow
<1> QED
  BY <1>3, <1>4, <1>5, <1>6, <1>7 DEF ProcOK

\* A request that is made again.
LEMMA SameKept ==
  ASSUME TypeOrders, TypeCalls, TypeRest, OrdersGrow, TypeOrders', NEW p \in Procs, ProcOK(p),
         Same(p), pc[p] # "idle", late'[p] = late[p], torn'[p] = torn[p], sent'[p] = sent[p]
  PROVE  ProcOK(p)'
<1> DEFINE c == call[p]
<1>1. /\ c.last \in Nat /\ (c.no # 0 => c.no \in Nos)
      /\ \A n \in Nos : orders[n].filled \in Nat
  BY CallTypes
<1>2. \A n \in Nos : orders'[n].filled \in Nat
  BY QtysAre DEF TypeOrders
<1>3. /\ pc'[p] # "idle" /\ call'[p].op = c.op
      /\ call'[p].api = c.api /\ call'[p].no = c.no /\ call'[p].qty = c.qty
      /\ call'[p].last = c.last /\ call'[p].kerr = c.kerr /\ call'[p].blind = c.blind
      /\ call'[p].told = c.told
  BY DEF Same, OnlyCall
<1>4. Asks(p)'
  BY <1>1, <1>3 DEF ProcOK, Asks, OrdersGrow
<1>5. Knows(p)'
  BY <1>1, <1>2, <1>3 DEF ProcOK, Asks, Numbered, Submission, Knows, OrdersGrow
<1>6. Numbered(p)'
  BY <1>1, <1>3 DEF ProcOK, Numbered, Submission, OrdersGrow
<1>7. Unnumbered(p)'
  BY <1>1, <1>3 DEF ProcOK, Unnumbered, Submission, OrdersGrow
<1>8. Told(p)'
  BY <1>1, <1>3 DEF ProcOK, Numbered, Told, Submission, OrdersGrow
<1> QED
  BY <1>4, <1>5, <1>6, <1>7, <1>8 DEF ProcOK

\* A call that fails: an order is at the exchange, or on its way, only if the caller
\* is told that it may be, or the answer could not be read.
LEMMA FailKept ==
  ASSUME TypeOrders, TypeCalls, TypeRest, OrdersGrow, TypeOrders', OrdersOK', NEW p \in Procs,
         ProcOK(p), pc[p] # "idle", NEW v \in {"refused", "maybe"}, NEW x, NEW y, Return(p, v, x, y),
         v = "maybe" => Ordering(p), torn'[p] \in BOOLEAN, torn'[p] => Ordering(p),
         \/ sent'[p] = sent[p]
         \/ /\ Ordering(p) /\ (v = "maybe" \/ torn'[p])
            /\ \E n \in Nos : sent'[p] = {n} /\ orders'[n].st # "none",
         late'[p] = 0 \/ (v = "maybe" /\ sent'[p] = sent[p])
  PROVE  ProcOK(p)'
<1> DEFINE c == call[p]
<1>1. /\ c.last \in Nat /\ (c.no # 0 => c.no \in Nos)
      /\ \A n \in Nos : orders[n].filled \in Nat
  BY CallTypes
<1>2. \A n \in Nos : orders'[n].filled \in Nat /\ orders'[n].qty \in Nat
  BY QtysAre DEF TypeOrders
<1>3. /\ c.api \in Apis /\ c.told = "none" /\ late[p] = 0 /\ ~torn[p]
  BY DEF ProcOK, Asks, TypeCalls, Calls
<1>4. /\ Asks(p) /\ Numbered(p) /\ Unnumbered(p) /\ Knows(p)
  BY DEF ProcOK
<1>5. CASE c.api = "allow"
  <2>1. AsksFor(p, "buy", c.no, c.qty, c.last)
    BY <1>4, <1>5, ReturnFails
  <2>2. /\ pc'[p] = "send" /\ call'[p].op = c.op /\ call'[p].api = "buy" /\ call'[p].no = 0
        /\ call'[p].qty = c.qty /\ call'[p].last = 0 /\ call'[p].told = "none"
    BY <1>3, <1>4, <1>5, <2>1 DEF AsksFor, OnlyCall, Asks
  <2>3. c.op \in {"SubmitBuy", "Buy"} /\ 0 < c.qty /\ sent'[p] = {} /\ late'[p] = 0 /\ ~torn'[p]
    BY <1>3, <1>4, <1>5 DEF Asks, Unnumbered, Ordering
  <2> QED BY <2>2, <2>3 DEF ProcOK, Asks, Knows, Numbered, Unnumbered, Told, Submission
<1>6. CASE Ordering(p)
  <2>1. IsTold(p, v, c.no, c.last, c.blind)
    BY <1>4, <1>6, ReturnFails
  <2>2. /\ pc'[p] = "idle" /\ call'[p].op = c.op /\ call'[p].api = "none" /\ call'[p].no = 0
        /\ call'[p].told = v /\ sent[p] = {}
        /\ c.op \in {"SubmitBuy", "Buy", "SubmitSell", "Sell", "PlaceTP"}
    BY <1>4, <1>6, <2>1 DEF IsTold, OnlyCall, Asks, Ordering, Unnumbered
  <2>3. Asks(p)' /\ Knows(p)' /\ Numbered(p)' /\ Told(p)'
    BY <2>2 DEF Asks, Knows, Numbered, Told
  <2>4. Unnumbered(p)'
    BY <2>2 DEF Unnumbered, Submission
  <2> QED BY <2>3, <2>4 DEF ProcOK
<1>7. CASE c.api \in {"cancel", "query"}
  <2>1. IsTold(p, "refused", c.no, c.last, c.blind)
    BY <1>4, <1>7, ReturnFails
  <2>2. /\ pc'[p] = "idle" /\ call'[p].op = c.op /\ call'[p].api = "none"
        /\ call'[p].told = "refused" /\ c.op \in {"CancelOrder", "Query"}
        /\ sent'[p] = {} /\ late'[p] = 0 /\ ~torn'[p]
    BY <1>3, <1>4, <1>7, <2>1 DEF IsTold, OnlyCall, Asks, Unnumbered, Submission, Ordering
  <2> QED BY <2>2 DEF ProcOK, Asks, Knows, Numbered, Unnumbered, Told, Submission
<1>8. CASE c.api \in {"poll", "kill", "recheck"}
  <2>1. /\ c.op \in {"Buy", "Sell"} /\ c.no # 0 /\ c.no \in Nos /\ sent[p] = {c.no} /\ late[p] = 0
        /\ sent'[p] = {c.no} /\ late'[p] = 0 /\ ~torn'[p]
        /\ orders[c.no].st # "none" /\ orders[c.no].qty = c.qty /\ c.last <= orders[c.no].filled
    BY <1>1, <1>3, <1>4, <1>8 DEF Asks, Numbered, Submission, Ordering, Knows
  <2>2. /\ orders'[c.no].st # "none" /\ orders'[c.no].qty = c.qty
        /\ c.last <= orders'[c.no].filled
    BY <1>1, <1>2, <2>1 DEF OrdersGrow
  <2>3. CASE c.api \in {"poll", "kill"}
    <3>1. PICK a \in {"poll", "kill", "recheck"} :
            AsksFor(p, a, c.no, c.qty, c.last) /\ (a = "recheck" => call'[p].kerr)
      BY <1>4, <2>3, ReturnFails
    <3>2. /\ pc'[p] = "send" /\ call'[p].op = c.op /\ call'[p].api = a /\ call'[p].no = c.no
          /\ call'[p].qty = c.qty /\ call'[p].last = c.last /\ call'[p].told = "none"
      BY <1>3, <3>1 DEF AsksFor, OnlyCall
    <3> QED BY <2>1, <2>2, <3>1, <3>2 DEF ProcOK, Asks, Knows, Numbered, Unnumbered, Told, Submission
  <2>4. CASE c.api = "recheck"
    <3>1. PICK t \in {"maybe", "refused", "filled", "partial", "unfilled"} :
            IsTold(p, t, c.no, c.last, TRUE) /\ (t = "filled" => c.last = c.qty)
      BY <1>4, <2>4, ReturnFails
    <3>2. /\ pc'[p] = "idle" /\ call'[p].op = c.op /\ call'[p].api = "none" /\ call'[p].no = c.no
          /\ call'[p].qty = c.qty /\ call'[p].last = c.last /\ call'[p].told = t /\ call'[p].blind
      BY <3>1 DEF IsTold, OnlyCall
    <3>3. Asks(p)' /\ Knows(p)' /\ Numbered(p)' /\ Unnumbered(p)'
      BY <2>1, <2>2, <3>2 DEF Asks, Knows, Numbered, Unnumbered, Submission
    <3>4. t = "filled" => orders'[c.no].st # "open" /\ orders'[c.no].filled = c.last
      <4>1. orders'[c.no].filled <= orders'[c.no].qty
            /\ (orders'[c.no].st = "open" => orders'[c.no].filled < orders'[c.no].qty)
        BY <2>1, <2>2 DEF OrdersOK
      <4> QED BY <1>1, <1>2, <2>1, <2>2, <3>1, <4>1
    <3>5. Told(p)'
      BY <2>1, <3>1, <3>2, <3>4 DEF Told, Submission
    <3> QED BY <3>3, <3>5 DEF ProcOK
  <2> QED BY <1>8, <2>3, <2>4
<1> QED
  BY <1>3, <1>5, <1>6, <1>7, <1>8 DEF Apis, Ordering

\* A call that fails is no other program's, and keeps the number of its order.
LEMMA FailOnly ==
  ASSUME TypeCalls, TypeRest, NEW p \in Procs, Asks(p), pc[p] # "idle",
         NEW v \in {"refused", "maybe"}, NEW x, NEW y, Return(p, v, x, y)
  PROVE  Goes(p)
<1>1. call[p].api \in Apis
  BY DEF Asks, TypeCalls, Calls
<1> QED
  BY <1>1, ReturnFails DEF Apis, Ordering, AsksFor, IsTold, Goes

\* An order is taken under a free number.
LEMMA PlaceIs ==
  ASSUME TypeOrders, TypeRest, OrdersOK, NEW p \in Procs, NEW s \in {"buy", "sell"},
         NEW q \in Qtys, 0 < q, Free # {}, Place(p, s, q)
  PROVE  LET n == Min(Free) IN
         /\ n \in Nos /\ n # 0 /\ orders'[n].st = "open" /\ orders'[n].qty = q
         /\ orders'[n].filled = 0
         /\ sent' = [sent EXCEPT ![p] = @ \cup {n}]
         /\ TypeOrders' /\ OrdersOK' /\ OrdersGrow
<1> DEFINE n == Min(Free)
           o == [side |-> s, qty |-> q, filled |-> 0, st |-> "open"]
<1>1. Free \in SUBSET Nat /\ Nos \subseteq Nat \ {0}
  BY DriverAssumption DEF Free, Nos
<1>2. n \in Free
  BY <1>1, MinIs
<1>3. n \in Nos /\ n # 0 /\ orders[n].st = "none"
  BY <1>1, <1>2 DEF Free
<1>4. orders' = [orders EXCEPT ![n] = o] /\ sent' = [sent EXCEPT ![p] = @ \cup {n}]
  BY DEF Place
<1> HIDE DEF n
<1>5. 0 \in Qtys /\ q \in Nat
  BY QtysAre
<1>6. /\ orders'[n] = o /\ \A m \in Nos : m # n => orders'[m] = orders[m]
  BY <1>3, <1>4 DEF TypeOrders
<1>7. TypeOrders'
  BY <1>3, <1>4, <1>5 DEF TypeOrders
<1>8. OrdersOK'
  BY <1>3, <1>5, <1>6 DEF OrdersOK
<1>9. OrdersGrow
  <2> SUFFICES ASSUME NEW m \in Nos, orders[m].st # "none"
               PROVE  /\ orders'[m].st # "none" /\ orders'[m].qty = orders[m].qty
                      /\ orders[m].filled <= orders'[m].filled
                      /\ orders[m].st # "open" =>
                           orders'[m].st # "open" /\ orders'[m].filled = orders[m].filled
    BY DEF OrdersGrow
  <2>1. orders'[m] = orders[m] /\ orders[m].filled \in Nat
    BY <1>3, <1>6, QtysAre DEF TypeOrders
  <2> QED BY <2>1
<1> QED
  BY <1>3, <1>4, <1>6, <1>7, <1>8, <1>9 DEF n

\* Orders that stay as they are.
LEMMA OrdersStay ==
  ASSUME TypeOrders, TypeRest, OrdersOK, UNCHANGED orders
  PROVE  TypeOrders' /\ OrdersOK' /\ OrdersGrow
<1>1. \A n \in Nos : orders[n].filled \in Nat
  BY QtysAre DEF TypeOrders
<1>2. TypeOrders' /\ OrdersOK'
  BY DEF TypeOrders, OrdersOK
<1> QED
  BY <1>1, <1>2 DEF OrdersGrow

\* An order that is cancelled.
LEMMA CancelIs ==
  ASSUME TypeOrders, TypeRest, OrdersOK, NEW n \in Nos, orders[n].st = "open",
         orders' = [orders EXCEPT ![n].st = "cancelled"]
  PROVE  TypeOrders' /\ OrdersOK' /\ OrdersGrow /\ orders'[n].st # "open"
<1>1. \A m \in Nos : orders[m].filled \in Nat /\ orders[m].qty \in Nat
  BY QtysAre DEF TypeOrders
<1>2. /\ orders'[n].st = "cancelled" /\ orders'[n].qty = orders[n].qty
      /\ orders'[n].filled = orders[n].filled
      /\ \A m \in Nos : m # n => orders'[m] = orders[m]
  BY DEF TypeOrders
<1>3. TypeOrders'
  BY DEF TypeOrders
<1>4. OrdersOK'
  BY <1>2 DEF OrdersOK
<1>5. OrdersGrow
  <2> SUFFICES ASSUME NEW m \in Nos
               PROVE  orders[m].st # "none" =>
                        /\ orders'[m].st # "none" /\ orders'[m].qty = orders[m].qty
                        /\ orders[m].filled <= orders'[m].filled
                        /\ orders[m].st # "open" =>
                             orders'[m].st # "open" /\ orders'[m].filled = orders[m].filled
    BY DEF OrdersGrow
  <2> QED BY <1>1, <1>2
<1> QED
  BY <1>2, <1>3, <1>4, <1>5

\* A share of an order is traded.
LEMMA TradeIs ==
  ASSUME TypeOrders, TypeRest, OrdersOK, Trade
  PROVE  TypeOrders' /\ OrdersOK' /\ OrdersGrow
<1>1. PICK n \in Nos :
        /\ orders[n].st = "open"
        /\ orders' = [orders EXCEPT ![n].filled = @ + 1,
                                    ![n].st = IF orders[n].filled + 1 = orders[n].qty THEN "done" ELSE @]
  BY DEF Trade
<1>2. \A m \in Nos : orders[m].filled \in Nat /\ orders[m].qty \in Nat /\ orders[m].qty \in Qtys
  BY QtysAre DEF TypeOrders
<1>3. orders[n].filled < orders[n].qty
  BY <1>1 DEF OrdersOK
<1> DEFINE k == orders[n].filled + 1
           st == IF k = orders[n].qty THEN "done" ELSE "open"
<1>4. k \in Qtys /\ k \in Nat /\ k <= orders[n].qty
  BY <1>2, <1>3, QtysAre
<1>5. orders' = [orders EXCEPT ![n] = [orders[n] EXCEPT !.filled = k, !.st = st]]
  BY <1>1 DEF TypeOrders
<1>6. st \in {"done", "open"} /\ (st = "open" <=> k # orders[n].qty)
  OBVIOUS
<1>7. orders[n].filled < k
  BY <1>2
<1> HIDE DEF k, st
<1>8. /\ orders'[n].st = st /\ orders'[n].qty = orders[n].qty /\ orders'[n].filled = k
      /\ \A m \in Nos : m # n => orders'[m] = orders[m]
  BY <1>5 DEF TypeOrders
<1>9. TypeOrders'
  BY <1>4, <1>5, <1>6 DEF TypeOrders
<1>10. OrdersOK'
  <2>1. 0 < orders'[n].qty /\ orders'[n].filled <= orders'[n].qty
    BY <1>1, <1>4, <1>8 DEF OrdersOK
  <2>2. orders'[n].st = "open" => orders'[n].filled < orders'[n].qty
    BY <1>2, <1>4, <1>6, <1>8
  <2>3. \A m \in Nos : m # n /\ orders'[m].st # "none" =>
          /\ 0 < orders'[m].qty /\ orders'[m].filled <= orders'[m].qty
          /\ orders'[m].st = "open" => orders'[m].filled < orders'[m].qty
    BY <1>8 DEF OrdersOK
  <2> QED BY <2>1, <2>2, <2>3 DEF OrdersOK
<1>11. OrdersGrow
  <2> SUFFICES ASSUME NEW m \in Nos
               PROVE  orders[m].st # "none" =>
                        /\ orders'[m].st # "none" /\ orders'[m].qty = orders[m].qty
                        /\ orders[m].filled <= orders'[m].filled
                        /\ orders[m].st # "open" =>
                             orders'[m].st # "open" /\ orders'[m].filled = orders[m].filled
    BY DEF OrdersGrow
  <2>1. CASE m = n
    BY <1>1, <1>2, <1>4, <1>6, <1>7, <1>8, <2>1
  <2>2. CASE m # n
    BY <1>2, <1>8, <2>2
  <2> QED BY <2>1, <2>2
<1> QED
  BY <1>9, <1>10, <1>11

-----------------------------------------------------------------------------
(* A request that the exchange processes.                                  *)

\* An order that was taken, and whose answer did not come or could not be read.
LEMMA UnheardKept ==
  ASSUME TypeOrders, TypeCalls, TypeRest, OrdersGrow, TypeOrders', OrdersOK', NEW p \in Procs,
         ProcOK(p), pc[p] # "idle", Ordering(p),
         NEW got, got \notin {"ok", "short", "blank", "8005", "limit"},
         NEW val, NEW over, Receive(p, got, val, over),
         torn'[p] \in BOOLEAN, got \in {"none", "5xx"} \/ torn'[p],
         \E n \in Nos : sent'[p] = {n} /\ orders'[n].st # "none", late'[p] = 0
  PROVE  Goes(p) /\ ProcOK(p)'
<1>0. Fails(p, got, val, over)
  BY ReceiveOther
<1>1. PICK v \in {"refused", "maybe"} :
        /\ Return(p, v, val, over) \/ Return(p, v, 0, FALSE)
        /\ v = "maybe" => Ordering(p)
        /\ Ordering(p) /\ got \in {"none", "5xx"} => v = "maybe"
  BY <1>0 DEF Fails
<1>2. PICK x \in {val, 0}, y \in {over, FALSE} : Return(p, v, x, y)
  BY <1>1
<1>3. Goes(p)
  BY <1>2, FailOnly DEF ProcOK
<1>4. v = "maybe" \/ torn'[p]
  BY <1>1
<1>5. ProcOK(p)'
  BY <1>1, <1>2, <1>4, FailKept
<1> QED
  BY <1>3, <1>5

\* An order that is taken, whatever becomes of its answer.
LEMMA TakenKept ==
  ASSUME TypeOrders, TypeCalls, TypeRest, OrdersOK, NEW p \in Procs, ProcOK(p), pc[p] # "idle",
         Ordering(p), Free # {}, Place(p, call[p].api, call[p].qty), UNCHANGED late,
         NEW got, got \notin {"short", "8005", "limit"},
         NEW val, NEW over, Receive(p, got, val, over),
         got = "ok" => val = Min(Free),
         torn'[p] \in BOOLEAN, got \in {"ok", "blank", "none", "5xx"} \/ torn'[p],
         got = "blank" /\ call[p].op = "PlaceTP" => torn'[p], got = "ok" => ~torn'[p]
  PROVE  TypeOrders' /\ OrdersOK' /\ OrdersGrow /\ Goes(p) /\ ProcOK(p)'
         /\ sent' = [sent EXCEPT ![p] = @ \cup {Min(Free)}]
<1> DEFINE c == call[p]
           n == Min(Free)
<1>1. /\ c.api \in {"buy", "sell"} /\ c.no = 0 /\ c.last = 0 /\ 0 < c.qty /\ c.told = "none"
      /\ c.op \in {"SubmitBuy", "Buy", "SubmitSell", "Sell", "PlaceTP"}
      /\ sent[p] = {} /\ late[p] = 0 /\ ~torn[p]
  BY DEF ProcOK, Asks, Ordering, Unnumbered
<1>2. c.qty \in Qtys /\ sent \in [Procs -> SUBSET Nos]
  BY DEF TypeCalls, TypeRest, Calls
<1>3. /\ n \in Nos /\ n # 0 /\ orders'[n].st = "open" /\ orders'[n].qty = c.qty
      /\ orders'[n].filled = 0 /\ sent' = [sent EXCEPT ![p] = @ \cup {n}]
      /\ TypeOrders' /\ OrdersOK' /\ OrdersGrow
  BY <1>1, <1>2, PlaceIs
<1> HIDE DEF n
<1>4. sent'[p] = {n} /\ late'[p] = 0
  BY <1>1, <1>2, <1>3
<1>5. CASE got \notin {"ok", "blank"}
  <2>1. \E m \in Nos : sent'[p] = {m} /\ orders'[m].st # "none"
    BY <1>3, <1>4
  <2>2. got \notin {"ok", "short", "blank", "8005", "limit"} /\ (got \in {"none", "5xx"} \/ torn'[p])
    BY <1>5
  <2>3. Goes(p) /\ ProcOK(p)'
    BY ONLY <1>3, <1>4, <2>1, <2>2, UnheardKept, TypeOrders, TypeCalls, TypeRest, p \in Procs, ProcOK(p),
            pc[p] # "idle", Ordering(p), Receive(p, got, val, over), torn'[p] \in BOOLEAN
  <2> QED BY <1>3, <2>3 DEF n
<1>6. CASE got = "blank"
  <2>1. Return(p, "blank", val, over)
    BY <1>6, ReceiveAnswer
  <2>2. PICK t \in {"accepted", "maybe"} :
          IsTold(p, t, c.no, c.last, c.blind) /\ (t = "accepted" => c.op = "PlaceTP")
    BY <2>1, ReturnShort DEF ProcOK
  <2>3. /\ Goes(p) /\ pc'[p] = "idle" /\ call'[p].op = c.op /\ call'[p].api = "none"
        /\ call'[p].no = 0 /\ call'[p].told = t
    BY <1>1, <2>2 DEF IsTold, OnlyCall, Goes
  <2>4. Asks(p)' /\ Knows(p)' /\ Numbered(p)' /\ Told(p)'
    BY <2>3 DEF Asks, Knows, Numbered, Told
  <2>5. Unnumbered(p)'
    BY <1>1, <1>3, <1>4, <1>6, <2>2, <2>3 DEF Unnumbered, Submission
  <2> QED BY <1>3, <2>3, <2>4, <2>5 DEF ProcOK, n
<1>7. CASE got = "ok"
  <2>1. Return(p, "ok", n, over)
    BY <1>7, ReceiveAnswer DEF n
  <2>2. \/ c.op \in {"Buy", "Sell"} /\ AsksFor(p, "poll", n, c.qty, c.last)
        \/ IsTold(p, "accepted", n, c.last, c.blind)
    BY <1>3, <2>1, ReturnGives DEF ProcOK
  <2>3. CASE c.op \in {"Buy", "Sell"} /\ AsksFor(p, "poll", n, c.qty, c.last)
    <3>1. /\ Goes(p) /\ pc'[p] = "send" /\ call'[p].op = c.op /\ call'[p].api = "poll"
          /\ call'[p].no = n /\ call'[p].qty = c.qty /\ call'[p].last = 0 /\ call'[p].told = "none"
      BY <1>1, <2>3 DEF AsksFor, OnlyCall, Goes
    <3>2. Asks(p)' /\ Knows(p)' /\ Told(p)'
      BY <1>3, <1>4, <1>7, <2>3, <3>1 DEF Asks, Knows, Told
    <3>3. Numbered(p)' /\ Unnumbered(p)'
      BY <1>3, <1>4, <2>3, <3>1 DEF Numbered, Unnumbered, Submission
    <3> QED BY <1>3, <3>1, <3>2, <3>3 DEF ProcOK, n
  <2>4. CASE IsTold(p, "accepted", n, c.last, c.blind)
    <3>1. /\ Goes(p) /\ pc'[p] = "idle" /\ call'[p].op = c.op /\ call'[p].api = "none"
          /\ call'[p].no = n /\ call'[p].qty = c.qty /\ call'[p].told = "accepted"
      BY <1>1, <2>4 DEF IsTold, OnlyCall, Goes
    <3>2. Asks(p)' /\ Knows(p)' /\ Told(p)'
      BY <3>1 DEF Asks, Knows, Told
    <3>3. Numbered(p)' /\ Unnumbered(p)'
      BY <1>1, <1>3, <1>4, <3>1 DEF Numbered, Unnumbered, Submission
    <3> QED BY <1>3, <3>1, <3>2, <3>3 DEF ProcOK, n
  <2> QED BY <2>2, <2>3, <2>4
<1> QED
  BY <1>5, <1>6, <1>7

\* Anything else that is processed: whatever its answer was, another one came.
LEMMA SpoiltKept ==
  ASSUME TypeOrders, TypeCalls, TypeRest, TypeOrders', OrdersOK', OrdersGrow, NEW p \in Procs,
         ProcOK(p), pc[p] # "idle", UNCHANGED <<late, sent>>,
         NEW got, got \notin {"ok", "short", "blank"}, NEW over, NEW val, Receive(p, got, val, over),
         torn'[p] \in BOOLEAN, torn'[p] => Ordering(p),
         torn'[p] = torn[p] \/ got = "garbled"
  PROVE  Goes(p) /\ ProcOK(p)'
<1>1. late[p] = 0
  BY DEF ProcOK, Asks, TypeCalls, Calls
<1>2. CASE Same(p) /\ (Ordering(p) => got \in {"8005", "limit"})
  <2>1. torn'[p] = torn[p]
    <3>1. torn[p] = FALSE
      BY DEF ProcOK, Asks, TypeRest, TypeCalls, Calls
    <3>2. CASE got = "garbled"
      BY <1>2, <3>1, <3>2
    <3> QED BY <3>2
  <2> QED BY <1>2, <2>1, SameKept DEF Same, Goes
<1>3. CASE ~(Same(p) /\ (Ordering(p) => got \in {"8005", "limit"}))
  <2>1. PICK v \in {"refused", "maybe"} :
          /\ Return(p, v, val, over) \/ Return(p, v, 0, FALSE)
          /\ v = "maybe" => Ordering(p)
    BY <1>3, ReceiveOther DEF Fails
  <2>2. PICK x \in {val, 0}, y \in {over, FALSE} : Return(p, v, x, y)
    BY <2>1
  <2>3. Goes(p)
    BY <2>2, FailOnly DEF ProcOK
  <2>4. ProcOK(p)'
    BY <1>1, <2>1, <2>2, FailKept
  <2> QED BY <2>3, <2>4
<1> QED
  BY <1>2, <1>3

\* An order that the exchange has not the money for.
LEMMA ShortKept ==
  ASSUME TypeOrders, TypeCalls, TypeRest, OrdersOK, NEW p \in Procs, ProcOK(p), pc[p] # "idle",
         Ordering(p), NEW val \in Nat, NEW over, Receive(p, "short", val, over),
         UNCHANGED <<orders, sent, late, torn>>
  PROVE  Goes(p) /\ ProcOK(p)'
<1> DEFINE c == call[p]
<1>1. /\ c.api \in {"buy", "sell"} /\ c.no = 0 /\ c.last = 0 /\ c.told = "none"
      /\ c.op \in {"SubmitBuy", "Buy", "SubmitSell", "Sell", "PlaceTP"}
      /\ c.api = "buy" => c.op \in {"SubmitBuy", "Buy"}
      /\ c.api = "sell" => c.op \in {"SubmitSell", "Sell", "PlaceTP"}
      /\ sent'[p] = {} /\ late'[p] = 0 /\ ~torn'[p]
  BY DEF ProcOK, Asks, Ordering, Unnumbered
<1>2. Return(p, "short", val, over)
  BY ReceiveAnswer
<1>3. \/ IsTold(p, "short", c.no, c.last, c.blind)
      \/ \E q \in Qtys : 0 < q /\ AsksFor(p, c.api, c.no, q, c.last)
  BY <1>2, ReturnShort DEF ProcOK
<1>4. CASE IsTold(p, "short", c.no, c.last, c.blind)
  <2>1. /\ Goes(p) /\ pc'[p] = "idle" /\ call'[p].op = c.op /\ call'[p].api = "none"
        /\ call'[p].no = 0 /\ call'[p].told = "short"
    BY <1>1, <1>4 DEF IsTold, OnlyCall, Goes
  <2>2. Asks(p)' /\ Knows(p)' /\ Told(p)'
    BY <2>1 DEF Asks, Knows, Told
  <2>3. Numbered(p)' /\ Unnumbered(p)'
    BY <1>1, <2>1 DEF Numbered, Unnumbered, Submission
  <2> QED BY <2>1, <2>2, <2>3 DEF ProcOK
<1>5. CASE \E q \in Qtys : 0 < q /\ AsksFor(p, c.api, c.no, q, c.last)
  <2>0. PICK q \in Qtys : 0 < q /\ AsksFor(p, c.api, c.no, q, c.last)
    BY <1>5
  <2>1. /\ Goes(p) /\ pc'[p] = "send" /\ call'[p].op = c.op /\ call'[p].api = c.api
        /\ call'[p].no = 0 /\ call'[p].qty = q /\ call'[p].last = 0 /\ call'[p].told = "none"
    BY <1>1, <2>0 DEF AsksFor, OnlyCall, Goes
  <2>2. Asks(p)' /\ Knows(p)' /\ Told(p)'
    BY <1>1, <2>0, <2>1 DEF Asks, Knows, Told
  <2>3. Numbered(p)' /\ Unnumbered(p)'
    BY <1>1, <2>1 DEF Numbered, Unnumbered, Submission
  <2> QED BY <2>1, <2>2, <2>3 DEF ProcOK
<1> QED
  BY <1>3, <1>4, <1>5

\* A cancellation that takes effect.
LEMMA CancelledKept ==
  ASSUME TypeOrders, TypeCalls, TypeRest, TypeOrders', OrdersGrow, NEW p \in Procs, ProcOK(p),
         pc[p] # "idle", call[p].api \in {"cancel", "kill"}, NEW val, NEW over,
         Receive(p, "ok", val, over), orders'[call[p].no].st # "open",
         UNCHANGED <<sent, late, torn>>
  PROVE  Goes(p) /\ ProcOK(p)'
<1> DEFINE c == call[p]
<1>1. /\ c.last \in Nat /\ (c.no # 0 => c.no \in Nos)
      /\ \A n \in Nos : orders[n].filled \in Nat
  BY CallTypes
<1>2. \A n \in Nos : orders'[n].filled \in Nat /\ orders'[n].qty \in Nat
  BY QtysAre DEF TypeOrders
<1>3. Return(p, "ok", val, over)
  BY ReceiveAnswer
<1>4. c.told = "none" /\ late'[p] = 0 /\ ~torn'[p] /\ c.no # 0
  BY DEF ProcOK, Asks
<1>5. CASE c.api = "cancel"
  <2>1. IsTold(p, "ok", c.no, c.last, c.blind)
    BY <1>3, <1>5, ReturnGives DEF ProcOK
  <2>2. /\ Goes(p) /\ pc'[p] = "idle" /\ call'[p].op = c.op /\ call'[p].api = "none"
        /\ call'[p].told = "ok" /\ call'[p].no = c.no /\ c.op = "CancelOrder" /\ sent'[p] = {}
    BY <1>4, <1>5, <2>1 DEF IsTold, OnlyCall, Goes, ProcOK, Asks, Unnumbered, Submission
  <2> QED BY <1>4, <2>2 DEF ProcOK, Asks, Knows, Numbered, Unnumbered, Told, Submission
<1>6. CASE c.api = "kill"
  <2>1. AsksFor(p, "recheck", c.no, c.qty, c.last)
    BY <1>3, <1>6, ReturnGives DEF ProcOK
  <2>2. /\ Goes(p) /\ pc'[p] = "send" /\ call'[p].op = c.op /\ call'[p].api = "recheck"
        /\ call'[p].no = c.no /\ call'[p].qty = c.qty /\ call'[p].last = c.last
        /\ call'[p].told = "none"
    BY <1>4, <2>1 DEF AsksFor, OnlyCall, Goes
  <2>3. /\ c.op \in {"Buy", "Sell"} /\ c.no \in Nos /\ sent'[p] = {c.no}
        /\ orders[c.no].st # "none" /\ orders[c.no].qty = c.qty /\ c.last <= orders[c.no].filled
    BY <1>1, <1>4, <1>6 DEF ProcOK, Asks, Numbered, Submission, Knows
  <2>4. /\ orders'[c.no].st # "none" /\ orders'[c.no].qty = c.qty
        /\ c.last <= orders'[c.no].filled
    BY <1>1, <1>2, <2>3 DEF OrdersGrow
  <2>5. Asks(p)' /\ Knows(p)' /\ Told(p)'
    BY <1>4, <2>2, <2>3, <2>4 DEF Asks, Knows, Told
  <2>6. Numbered(p)' /\ Unnumbered(p)'
    BY <1>4, <2>2, <2>3, <2>4 DEF Numbered, Unnumbered, Submission
  <2> QED BY <2>2, <2>5, <2>6 DEF ProcOK
<1> QED
  BY <1>5, <1>6

\* A question that is answered.
LEMMA AnsweredKept ==
  ASSUME TypeOrders, TypeCalls, TypeRest, OrdersOK, NEW p \in Procs, ProcOK(p), pc[p] # "idle",
         NEW val \in Nat, NEW over, Tells(p, "ok", val, over), Receive(p, "ok", val, over),
         UNCHANGED <<late, torn>>
  PROVE  Goes(p) /\ ProcOK(p)'
<1> DEFINE c == call[p]
<1>1. /\ c.last \in Nat /\ (c.no # 0 => c.no \in Nos)
      /\ \A n \in Nos : orders[n].filled \in Nat /\ orders[n].qty \in Nat
  BY CallTypes
<1>2. Return(p, "ok", val, over)
  BY ReceiveAnswer
<1>3. /\ c.api \in {"allow", "query", "poll", "recheck"} /\ c.told = "none"
      /\ orders' = orders /\ sent' = sent /\ late'[p] = 0 /\ ~torn'[p]
  BY DEF ProcOK, Asks, Tells
<1>4. CASE c.api = "allow"
  <2>1. \/ IsTold(p, "short", c.no, c.last, c.blind)
        \/ \E q \in Qtys : 0 < q /\ AsksFor(p, "buy", c.no, q, c.last)
    BY <1>2, <1>4, ReturnGives DEF ProcOK
  <2>2. c.op \in {"SubmitBuy", "Buy"} /\ c.no = 0 /\ c.last = 0 /\ sent'[p] = {}
    BY <1>3, <1>4 DEF ProcOK, Asks, Unnumbered
  <2>3. CASE IsTold(p, "short", c.no, c.last, c.blind)
    <3>1. /\ Goes(p) /\ pc'[p] = "idle" /\ call'[p].op = c.op /\ call'[p].api = "none"
          /\ call'[p].no = 0 /\ call'[p].told = "short"
      BY <2>2, <2>3 DEF IsTold, OnlyCall, Goes
    <3>2. Asks(p)' /\ Knows(p)' /\ Told(p)'
      BY <3>1 DEF Asks, Knows, Told
    <3>3. Numbered(p)' /\ Unnumbered(p)'
      BY <1>3, <2>2, <3>1 DEF Numbered, Unnumbered, Submission
    <3> QED BY <3>1, <3>2, <3>3 DEF ProcOK
  <2>4. CASE \E q \in Qtys : 0 < q /\ AsksFor(p, "buy", c.no, q, c.last)
    <3>0. PICK q \in Qtys : 0 < q /\ AsksFor(p, "buy", c.no, q, c.last)
      BY <2>4
    <3>1. /\ Goes(p) /\ pc'[p] = "send" /\ call'[p].op = c.op /\ call'[p].api = "buy"
          /\ call'[p].no = 0 /\ call'[p].qty = q /\ call'[p].last = 0 /\ call'[p].told = "none"
      BY <1>3, <2>2, <3>0 DEF AsksFor, OnlyCall, Goes
    <3>2. Asks(p)' /\ Knows(p)' /\ Told(p)'
      BY <1>3, <2>2, <3>0, <3>1 DEF Asks, Knows, Told
    <3>3. Numbered(p)' /\ Unnumbered(p)'
      BY <1>3, <2>2, <3>1 DEF Numbered, Unnumbered, Submission
    <3> QED BY <3>1, <3>2, <3>3 DEF ProcOK
  <2> QED BY <2>1, <2>3, <2>4
<1>5. CASE c.api = "query"
  <2>1. IsTold(p, "ok", c.no, c.last, c.blind)
    BY <1>2, <1>5, ReturnGives DEF ProcOK
  <2>2. /\ Goes(p) /\ pc'[p] = "idle" /\ call'[p].op = c.op /\ call'[p].api = "none"
        /\ call'[p].told = "ok" /\ c.op = "Query" /\ sent'[p] = {}
    BY <1>3, <1>5, <2>1 DEF IsTold, OnlyCall, Goes, ProcOK, Asks, Unnumbered, Submission
  <2> QED BY <1>3, <2>2 DEF ProcOK, Asks, Knows, Numbered, Unnumbered, Told, Submission
<1>6. CASE c.api \in {"poll", "recheck"}
  <2>1. /\ c.op \in {"Buy", "Sell"} /\ c.no # 0 /\ c.no \in Nos /\ sent'[p] = {c.no}
        /\ orders[c.no].st # "none" /\ orders[c.no].qty = c.qty
    BY <1>1, <1>3, <1>6 DEF ProcOK, Asks, Numbered, Submission
  <2>2. val = orders[c.no].filled /\ (over = (orders[c.no].st # "open")) /\ val \in Qtys
    BY <1>6, <2>1 DEF Tells, TypeOrders
  <2>3. val = c.qty => orders[c.no].st # "open"
    <3>1. orders[c.no].st = "open" => orders[c.no].filled < orders[c.no].qty
      BY <2>1 DEF OrdersOK
    <3>2. orders[c.no].filled \in Nat /\ orders[c.no].qty \in Nat
      BY <1>1, <2>1
    <3>3. val = c.qty => orders[c.no].filled = orders[c.no].qty
      BY <2>1, <2>2
    <3> QED BY <3>1, <3>2, <3>3
  <2>4. CASE \E a \in {"poll", "kill"} : AsksFor(p, a, c.no, c.qty, val)
    <3>0. PICK a \in {"poll", "kill"} : AsksFor(p, a, c.no, c.qty, val)
      BY <2>4
    <3>1. /\ Goes(p) /\ pc'[p] = "send" /\ call'[p].op = c.op /\ call'[p].api = a
          /\ call'[p].no = c.no /\ call'[p].qty = c.qty /\ call'[p].last = val
          /\ call'[p].told = "none"
      BY <1>3, <3>0 DEF AsksFor, OnlyCall, Goes
    <3>2. Asks(p)' /\ Knows(p)' /\ Told(p)'
      BY <1>1, <1>3, <2>1, <2>2, <3>0, <3>1 DEF Asks, Knows, Told
    <3>3. Numbered(p)' /\ Unnumbered(p)'
      BY <1>3, <2>1, <3>1 DEF Numbered, Unnumbered, Submission
    <3> QED BY <3>1, <3>2, <3>3 DEF ProcOK
  <2>5. ASSUME NEW t \in {"maybe", "refused", "filled", "partial", "unfilled"}, NEW blind,
               IsTold(p, t, c.no, val, blind),
               t \in {"filled", "partial", "unfilled"} =>
                 orders[c.no].st # "open" \/ (blind /\ t # "filled")
        PROVE  Goes(p) /\ ProcOK(p)'
    <3>1. /\ Goes(p) /\ pc'[p] = "idle" /\ call'[p].op = c.op /\ call'[p].api = "none"
          /\ call'[p].no = c.no /\ call'[p].qty = c.qty /\ call'[p].told = t
          /\ call'[p].last = val /\ call'[p].blind = blind
      BY <2>5 DEF IsTold, OnlyCall, Goes
    <3>2. Asks(p)' /\ Knows(p)'
      BY <2>1, <3>1 DEF Asks, Knows
    <3>3. Numbered(p)' /\ Unnumbered(p)'
      BY <1>3, <2>1, <3>1 DEF Numbered, Unnumbered, Submission
    <3>4. Told(p)'
      BY <1>3, <2>1, <2>2, <2>5, <3>1 DEF Told, Submission
    <3> QED BY <3>1, <3>2, <3>3, <3>4 DEF ProcOK
  <2>6. CASE c.api = "poll" /\ ~(\E a \in {"poll", "kill"} : AsksFor(p, a, c.no, c.qty, val))
    <3>1. /\ val = c.qty \/ over
          /\ \E t \in {"filled", "partial", "unfilled"} : IsTold(p, t, c.no, val, c.blind)
      BY <1>2, <2>2, <2>6, ReturnGives DEF ProcOK
    <3>2. orders[c.no].st # "open"
      BY <2>2, <2>3, <3>1
    <3> QED BY <2>5, <3>1, <3>2
  <2>7. CASE c.api = "recheck"
    <3>1. PICK t \in {"maybe", "refused", "filled", "partial", "unfilled"} :
            IsTold(p, t, c.no, val, c.kerr) /\ (t = "filled" => val = c.qty)
      BY <1>2, <2>2, <2>7, ReturnGives DEF ProcOK
    <3>2. orders[c.no].st # "open" \/ c.kerr
      BY <2>7 DEF ProcOK, Knows
    <3>3. orders[c.no].st # "open" \/ (c.kerr /\ t # "filled")
      BY <2>3, <3>1, <3>2
    <3> QED BY <2>5, <3>1, <3>3
  <2> QED BY <1>6, <2>4, <2>6, <2>7
<1> QED
  BY <1>3, <1>4, <1>5, <1>6

\* What a step of p may do to the orders and to its own operation
Moves(p) ==
  /\ TypeOrders' /\ OrdersOK' /\ OrdersGrow /\ Goes(p) /\ ProcOK(p)'
  /\ sent' = [sent EXCEPT ![p] = sent'[p]] /\ sent'[p] \in SUBSET Nos
  /\ late' = [late EXCEPT ![p] = late'[p]] /\ late'[p] \in Qtys
  /\ torn' = [torn EXCEPT ![p] = torn'[p]] /\ torn'[p] \in BOOLEAN

\* Moves, where nothing of this is touched.
LEMMA MovesIs ==
  ASSUME TypeRest, NEW p \in Procs, TypeOrders', OrdersOK', OrdersGrow, Goes(p), ProcOK(p)',
         sent' = sent \/ (\E n \in Nos : sent' = [sent EXCEPT ![p] = @ \cup {n}]),
         late' = late \/ (late' = [late EXCEPT ![p] = late'[p]] /\ late'[p] \in Qtys),
         torn' = torn \/ (\E b \in BOOLEAN : torn' = [torn EXCEPT ![p] = b])
  PROVE  Moves(p)
<1>1. sent' = [sent EXCEPT ![p] = sent'[p]] /\ sent'[p] \in SUBSET Nos
  BY DEF TypeRest
<1>2. late' = [late EXCEPT ![p] = late'[p]] /\ late'[p] \in Qtys
  BY DEF TypeRest
<1>3. torn' = [torn EXCEPT ![p] = torn'[p]] /\ torn'[p] \in BOOLEAN
  BY DEF TypeRest
<1> QED
  BY <1>1, <1>2, <1>3 DEF Moves

\* A request that is processed and answered.
LEMMA HandledMoves ==
  ASSUME TypeOrders, TypeCalls, TypeRest, OrdersOK, NEW p \in Procs, ProcOK(p), pc[p] # "idle",
         NEW ans, NEW val \in Nat, NEW over, Handles(p, ans, val, over),
         Receive(p, ans, val, over), UNCHANGED <<late, torn>>
  PROVE  Moves(p)
<1>0. ~torn[p] /\ torn'[p] = FALSE
  BY DEF ProcOK, Asks, TypeCalls, TypeRest, Calls
<1>1. CASE Ordering(p) /\ ans = "ok" /\ Takes(p, ans, val, over)
  <2>1. Free # {} /\ val = Min(Free) /\ Place(p, call[p].api, call[p].qty)
    BY <1>1 DEF Takes, Ordering
  <2>2. Receive(p, "ok", val, over)
    BY <1>1
  <2>3. /\ TypeOrders' /\ OrdersOK' /\ OrdersGrow /\ Goes(p) /\ ProcOK(p)'
        /\ sent' = [sent EXCEPT ![p] = @ \cup {Min(Free)}]
    BY <1>0, <1>1, <2>1, <2>2, TakenKept
  <2>4. Min(Free) \in Nos
    BY <2>1, MinIs DEF Free, Nos
  <2> QED BY <2>3, <2>4, MovesIs
<1>2. CASE Ordering(p) /\ ans # "ok" /\ Takes(p, ans, val, over)
  <2>1. ans \in {"short", "4xx"} /\ UNCHANGED <<orders, sent>>
    BY <1>2 DEF Takes
  <2>2. TypeOrders' /\ OrdersOK' /\ OrdersGrow
    BY <2>1, OrdersStay
  <2>3. Goes(p) /\ ProcOK(p)'
    <3>1. CASE ans = "short"
      BY <1>2, <2>1, <3>1, ShortKept
    <3>2. CASE ans = "4xx"
      BY <1>0, <2>1, <2>2, <3>2, SpoiltKept
    <3> QED BY <2>1, <3>1, <3>2
  <2> QED BY <2>1, <2>2, <2>3, MovesIs
<1>3. CASE Cancels(p, ans, val, over)
  <2>1. call[p].api \in {"cancel", "kill"} /\ call[p].no \in Nos /\ sent' = sent
    BY <1>3, CallTypes DEF Cancels, ProcOK, Asks
  <2>2. CASE orders[call[p].no].st = "open"
    <3>1. ans = "ok" /\ orders' = [orders EXCEPT ![call[p].no].st = "cancelled"]
      BY <1>3, <2>2 DEF Cancels
    <3>2. TypeOrders' /\ OrdersOK' /\ OrdersGrow /\ orders'[call[p].no].st # "open"
      BY <2>1, <2>2, <3>1, CancelIs
    <3>3. Goes(p) /\ ProcOK(p)'
      BY <2>1, <3>1, <3>2, CancelledKept
    <3> QED BY <2>1, <3>2, <3>3, MovesIs
  <2>3. CASE orders[call[p].no].st # "open"
    <3>1. ans = "4xx" /\ orders' = orders
      BY <1>3, <2>3 DEF Cancels
    <3>2. TypeOrders' /\ OrdersOK' /\ OrdersGrow
      BY <3>1, OrdersStay
    <3>3. Goes(p) /\ ProcOK(p)'
      BY <1>0, <2>1, <3>1, <3>2, SpoiltKept
    <3> QED BY <2>1, <3>2, <3>3, MovesIs
  <2> QED BY <2>2, <2>3
<1>4. CASE Tells(p, ans, val, over)
  <2>1. ans = "ok" /\ orders' = orders /\ sent' = sent
    BY <1>4 DEF Tells
  <2>2. TypeOrders' /\ OrdersOK' /\ OrdersGrow
    BY <2>1, OrdersStay
  <2>3. Goes(p) /\ ProcOK(p)'
    BY <1>4, <2>1, AnsweredKept
  <2> QED BY <2>1, <2>2, <2>3, MovesIs
<1> QED
  BY <1>1, <1>2, <1>3, <1>4 DEF Handles, Takes

\* A request that is processed, and something else comes in place of its answer.
LEMMA SpoiltMoves ==
  ASSUME TypeOrders, TypeCalls, TypeRest, OrdersOK, NEW p \in Procs, ProcOK(p), pc[p] # "idle",
         NEW ans, NEW val \in Nat, NEW over, Handles(p, ans, val, over),
         NEW got, got \notin {"ok", "short", "8005", "limit"},
         got = "blank" => Ordering(p) /\ ans = "ok",
         got \in {"blank", "none", "5xx", "garbled"},
         Receive(p, got, 0, over), UNCHANGED late,
         torn' = [torn EXCEPT ![p] = @ \/ (Ordering(p) /\ got = "garbled")
                                       \/ (call[p].op = "PlaceTP" /\ got = "blank")]
  PROVE  Moves(p)
<1> DEFINE b == (Ordering(p) /\ got = "garbled") \/ (call[p].op = "PlaceTP" /\ got = "blank")
<1>0. /\ ~torn[p] /\ torn'[p] = b /\ torn' = [torn EXCEPT ![p] = b] /\ b \in BOOLEAN
  BY DEF ProcOK, Asks, TypeCalls, TypeRest, Calls
<1>1. CASE Ordering(p) /\ ans = "ok" /\ Takes(p, ans, val, over)
  <2>1. Free # {} /\ Place(p, call[p].api, call[p].qty)
    BY <1>1 DEF Takes, Ordering
  <2>2. /\ got \in {"ok", "blank", "none", "5xx"} \/ torn'[p]
        /\ got = "blank" /\ call[p].op = "PlaceTP" => torn'[p]
        /\ torn'[p] \in BOOLEAN
    BY <1>0, <1>1
  <2>3. /\ TypeOrders' /\ OrdersOK' /\ OrdersGrow /\ Goes(p) /\ ProcOK(p)'
        /\ sent' = [sent EXCEPT ![p] = @ \cup {Min(Free)}]
    BY <1>1, <2>1, <2>2, TakenKept
  <2>4. Min(Free) \in Nos
    BY <2>1, MinIs DEF Free, Nos
  <2> QED BY <1>0, <2>3, <2>4, MovesIs
<1>2. CASE ~(Ordering(p) /\ ans = "ok")
  <2>1. /\ TypeOrders' /\ OrdersOK' /\ OrdersGrow /\ sent' = sent
    <3>1. CASE orders' = orders
      <4>1. sent' = sent
        BY <1>2 DEF Handles, Takes, Cancels, Tells
      <4> QED BY <3>1, <4>1, OrdersStay
    <3>2. CASE orders' # orders
      <4>1. Cancels(p, ans, val, over) /\ orders[call[p].no].st = "open"
        BY <1>2, <3>2 DEF Handles, Takes, Cancels, Tells
      <4>2. /\ call[p].no \in Nos /\ sent' = sent
            /\ orders' = [orders EXCEPT ![call[p].no].st = "cancelled"]
        BY <4>1, CallTypes DEF Cancels, ProcOK, Asks
      <4> QED BY <4>1, <4>2, CancelIs
    <3> QED BY <3>1, <3>2
  <2>2. got \notin {"ok", "short", "blank"}
    BY <1>2
  <2>3. /\ torn'[p] \in BOOLEAN /\ (torn'[p] => Ordering(p))
        /\ torn'[p] = torn[p] \/ got = "garbled"
    BY <1>0, <2>2 DEF TypeRest
  <2>4. Goes(p) /\ ProcOK(p)'
    BY <2>1, <2>2, <2>3, SpoiltKept
  <2> QED BY <1>0, <2>1, <2>4, MovesIs
<1> QED
  BY <1>1, <1>2 DEF Handles, Takes, Cancels, Tells, Ordering

\* A request that reaches the exchange.
LEMMA ServedMoves ==
  ASSUME TypeOrders, TypeCalls, TypeRest, OrdersOK, NEW p \in Procs, ProcOK(p), Served(p)
  PROVE  pc[p] # "idle" /\ Moves(p)
<1>1. pc[p] # "idle" /\ late' = late
  BY DEF Served, Ready
<1>2. PICK ans \in {"ok", "short", "4xx"}, val \in Qtys \cup Nos, over \in BOOLEAN :
        /\ Handles(p, ans, val, over)
        /\ \/ NoFault /\ Receive(p, ans, val, over) /\ UNCHANGED torn
           \/ \E got \in Spoilt(p, ans) :
                /\ Fault /\ Receive(p, got, 0, over)
                /\ torn' = [torn EXCEPT ![p] = @ \/ (Ordering(p) /\ got = "garbled")
                                                 \/ (call[p].op = "PlaceTP" /\ got = "blank")]
  BY DEF Served
<1>3. val \in Nat
  BY QtysAre DEF Nos
<1>4. CASE Receive(p, ans, val, over) /\ UNCHANGED torn
  BY <1>1, <1>2, <1>3, <1>4, HandledMoves
<1>5. CASE \E got \in Spoilt(p, ans) :
             /\ Receive(p, got, 0, over)
             /\ torn' = [torn EXCEPT ![p] = @ \/ (Ordering(p) /\ got = "garbled")
                                              \/ (call[p].op = "PlaceTP" /\ got = "blank")]
  <2>1. PICK got \in Spoilt(p, ans) :
          /\ Receive(p, got, 0, over)
          /\ torn' = [torn EXCEPT ![p] = @ \/ (Ordering(p) /\ got = "garbled")
                                           \/ (call[p].op = "PlaceTP" /\ got = "blank")]
    BY <1>5
  <2>2. /\ got \notin {"ok", "short", "8005", "limit"}
        /\ got = "blank" => Ordering(p) /\ ans = "ok"
        /\ got \in {"blank", "none", "5xx", "garbled"}
    BY DEF Spoilt
  <2> QED BY <1>1, <1>2, <1>3, <2>1, <2>2, SpoiltMoves
<1> QED
  BY <1>1, <1>2, <1>4, <1>5

\* A request that the exchange never gets or does not look at.
LEMMA UnservedMoves ==
  ASSUME TypeOrders, TypeCalls, TypeRest, OrdersOK, NEW p \in Procs, ProcOK(p), Ready(p),
         NEW ans, ans \notin {"ok", "short", "blank"}, Receive(p, ans, 0, FALSE),
         UNCHANGED <<orders, sent, torn>>,
         \/ late' = late
         \/ /\ ans \notin {"8005", "limit"}
            /\ \E q \in Qtys : late' = [late EXCEPT ![p] = q] /\ (q # 0 => Ordering(p) /\ ans = "none")
  PROVE  pc[p] # "idle" /\ Moves(p)
<1>1. pc[p] # "idle"
  BY DEF Ready
<1>2. TypeOrders' /\ OrdersOK' /\ OrdersGrow
  BY OrdersStay
<1>3. /\ late[p] = 0 /\ ~torn'[p] /\ torn'[p] = torn[p] /\ torn'[p] \in BOOLEAN /\ sent'[p] = sent[p]
      /\ sent' = sent /\ torn' = torn
  BY <1>1 DEF ProcOK, Asks, TypeCalls, TypeRest, Calls
<1>4. late' = late \/ (late' = [late EXCEPT ![p] = late'[p]] /\ late'[p] \in Qtys)
  BY DEF TypeRest
<1>5. CASE late'[p] = 0
  <2>1. Goes(p) /\ ProcOK(p)'
    <3>1. CASE Same(p)
      BY <1>1, <1>2, <1>3, <1>5, <3>1, SameKept DEF Same, Goes
    <3>2. CASE ~Same(p)
      <4>1. Fails(p, ans, 0, FALSE)
        BY <3>2, ReceiveOther
      <4>2. PICK v \in {"refused", "maybe"} : Return(p, v, 0, FALSE) /\ (v = "maybe" => Ordering(p))
        BY <4>1 DEF Fails
      <4>3. Goes(p)
        BY <1>1, <4>2, FailOnly DEF ProcOK
      <4>4. ProcOK(p)'
        BY <1>1, <1>2, <1>3, <1>5, <4>2, FailKept
      <4> QED BY <4>3, <4>4
    <3> QED BY <3>1, <3>2
  <2> QED BY <1>1, <1>2, <1>3, <1>4, <2>1, MovesIs
<1>6. CASE late'[p] # 0
  <2>1. /\ Ordering(p) /\ ans = "none"
        /\ \E q \in Qtys : late' = [late EXCEPT ![p] = q]
    BY <1>3, <1>6 DEF TypeRest
  <2>2. Fails(p, ans, 0, FALSE)
    BY <2>1, ReceiveOther
  <2>3. PICK v \in {"refused", "maybe"} : Return(p, v, 0, FALSE) /\ v = "maybe"
    BY <2>1, <2>2 DEF Fails
  <2>4. Goes(p)
    BY <1>1, <2>3, FailOnly DEF ProcOK
  <2>5. ProcOK(p)'
    BY <1>1, <1>2, <1>3, <2>1, <2>3, FailKept
  <2> QED BY <1>1, <1>2, <1>3, <1>4, <2>4, <2>5, MovesIs
<1> QED
  BY <1>1, <1>5, <1>6

\* A step of the program that is no request.
LEMMA LookMoves ==
  ASSUME TypeOrders, TypeCalls, TypeRest, OrdersOK, NEW p \in Procs, ProcOK(p), pc[p] # "idle",
         UNCHANGED <<orders, sent, late, torn>>,
         \/ \E at \in PCs \ {"idle"} : pc' = [pc EXCEPT ![p] = at] /\ UNCHANGED call
         \/ Again(p)
         \/ Return(p, "refused", 0, FALSE)
  PROVE  Moves(p)
<1>1. TypeOrders' /\ OrdersOK' /\ OrdersGrow
  BY OrdersStay
<1>2. Same(p) \/ Return(p, "refused", 0, FALSE)
  BY AgainIs, StayIs
<1>3. late[p] = 0 /\ ~torn'[p] /\ torn'[p] \in BOOLEAN
  BY DEF ProcOK, Asks, TypeCalls, TypeRest, Calls
<1>4. CASE Same(p)
  BY <1>1, <1>4, SameKept, MovesIs DEF Same, Goes
<1>5. CASE Return(p, "refused", 0, FALSE)
  <2>1. Goes(p)
    BY <1>5, FailOnly DEF ProcOK
  <2>2. ProcOK(p)'
    BY <1>1, <1>3, <1>5, FailKept
  <2> QED BY <1>1, <2>1, <2>2, MovesIs
<1> QED
  BY <1>2, <1>4, <1>5

\* Every step of a program in the midst of an operation.
LEMMA WorksMoves ==
  ASSUME TypeOrders, TypeCalls, TypeRest, OrdersOK, NEW p \in Procs, ProcOK(p),
         Works(p) \/ TurnedAway(p) \/ Lost(p)
  PROVE  pc[p] # "idle" /\ Moves(p)
<1>1. CASE Served(p)
  BY <1>1, ServedMoves
<1>2. CASE Stranger(p)
  <2>1. /\ Ready(p) /\ Receive(p, "8005", 0, FALSE)
        /\ UNCHANGED <<orders, sent, torn, late>>
    BY <1>2 DEF Stranger, server, history
  <2> QED BY <2>1, UnservedMoves
<1>3. CASE TurnedAway(p)
  <2>1. PICK ans \in {"limit", "5xx", "4xx"} : Receive(p, ans, 0, FALSE)
    BY <1>3 DEF TurnedAway
  <2>2. Ready(p) /\ UNCHANGED <<orders, sent, torn, late>>
    BY <1>3 DEF TurnedAway, server, history
  <2> QED BY <2>1, <2>2, UnservedMoves
<1>4. CASE Lost(p)
  <2>1. /\ Ready(p) /\ Receive(p, "none", 0, FALSE) /\ UNCHANGED <<orders, sent, torn>>
    BY <1>4 DEF Lost, server, history
  <2>2. PICK q \in {0} \cup (IF Ordering(p) THEN {call[p].qty} ELSE {}) :
          late' = [late EXCEPT ![p] = q]
    BY <1>4 DEF Lost
  <2>3. q \in Qtys /\ (q # 0 => Ordering(p))
    BY QtysAre DEF TypeCalls, Calls
  <2> QED BY <2>1, <2>2, <2>3, UnservedMoves
<1>5. CASE NeedToken(p)
  <2>1. pc[p] # "idle" /\ UNCHANGED <<orders, sent, late, torn>>
    BY <1>5 DEF NeedToken, server, history
  <2>2. \E at \in PCs \ {"idle"} : pc' = [pc EXCEPT ![p] = at] /\ UNCHANGED call
    BY <1>5 DEF NeedToken, PCs
  <2> QED BY <2>1, <2>2, LookMoves
<1>6. CASE ReadFile(p)
  <2>1. pc[p] # "idle" /\ UNCHANGED <<orders, sent, late, torn>>
    BY <1>6 DEF ReadFile, server, history
  <2>2. \/ \E at \in PCs \ {"idle"} : pc' = [pc EXCEPT ![p] = at] /\ UNCHANGED call
        \/ Again(p)
        \/ Return(p, "refused", 0, FALSE)
    BY <1>6 DEF ReadFile, PCs
  <2> QED BY <2>1, <2>2, LookMoves
<1>7. CASE Issue(p)
  <2>1. pc[p] # "idle" /\ UNCHANGED <<orders, sent, late, torn>>
    BY <1>7 DEF Issue, history
  <2>2. \/ \E at \in PCs \ {"idle"} : pc' = [pc EXCEPT ![p] = at] /\ UNCHANGED call
        \/ Return(p, "refused", 0, FALSE)
    BY <1>7 DEF Issue, PCs
  <2> QED BY <2>1, <2>2, LookMoves
<1>8. CASE Save(p)
  <2>1. pc[p] # "idle" /\ UNCHANGED <<orders, sent, late, torn>>
    BY <1>8 DEF Save, server
  <2>2. \/ \E at \in PCs \ {"idle"} : pc' = [pc EXCEPT ![p] = at] /\ UNCHANGED call
        \/ Again(p)
    BY <1>8 DEF Save, PCs
  <2> QED BY <2>1, <2>2, LookMoves
<1> QED
  BY <1>1, <1>2, <1>3, <1>4, <1>5, <1>6, <1>7, <1>8 DEF Works

\* What a step of p leaves as it was, and what holds after it
Touches(p) ==
  /\ TypeOrders' /\ OrdersOK' /\ OrdersGrow /\ ProcOK(p)'
  /\ pc' = [pc EXCEPT ![p] = pc'[p]] /\ pc'[p] \in PCs
  /\ call' = [call EXCEPT ![p] = call'[p]] /\ call'[p] \in Calls
  /\ sent' = [sent EXCEPT ![p] = sent'[p]] /\ sent'[p] \in SUBSET Nos
  /\ late' = [late EXCEPT ![p] = late'[p]] /\ late'[p] \in Qtys
  /\ torn' = [torn EXCEPT ![p] = torn'[p]] /\ torn'[p] \in BOOLEAN

\* A new operation: nothing of the one before is left.
LEMMA BeginTouches ==
  ASSUME TypeOrders, TypeCalls, TypeRest, OrdersOK, NEW p \in Procs, ProcOK(p), Begin(p)
  PROVE  Touches(p) /\ call'[p].told = "none" /\ ~torn'[p] /\ sent'[p] = {}
         /\ (Submission(p)' => call'[p].no = 0)
<1>1. PICK op \in scen.ops[p] :
        /\ pc[p] = "idle" /\ late[p] = 0
        /\ \E n \in IF op = "CancelOrder" THEN {n \in Nos : orders[n].st # "none"} ELSE {0} :
             Ask(p, [NoCall EXCEPT
               !.op = op, !.no = n, !.qty = IF op \in {"CancelOrder", "Query"} THEN 0 ELSE scen.want,
               !.api = FirstApi(op)])
        /\ sent' = [sent EXCEPT ![p] = {}] /\ torn' = [torn EXCEPT ![p] = FALSE]
        /\ UNCHANGED <<orders, late>>
  BY DEF Begin, server
<1>2. PICK n \in IF op = "CancelOrder" THEN {n \in Nos : orders[n].st # "none"} ELSE {0} :
        Ask(p, [NoCall EXCEPT
          !.op = op, !.no = n, !.qty = IF op \in {"CancelOrder", "Query"} THEN 0 ELSE scen.want,
          !.api = FirstApi(op)])
  BY <1>1
<1>3. /\ op \in Ops
      /\ op \in {"SubmitBuy", "SubmitSell", "Buy", "Sell", "PlaceTP", "CancelOrder", "Query"}
  <2>1. scen.ops \in [Procs -> SUBSET {"SubmitBuy", "SubmitSell", "Buy", "Sell", "PlaceTP",
                                       "CancelOrder", "Query"}]
    BY DriverAssumption DEF TypeRest
  <2> QED BY <2>1 DEF Ops
<1> DEFINE a == FirstApi(op)
           w == IF op \in {"CancelOrder", "Query"} THEN 0 ELSE scen.want
           r == [NoCall EXCEPT !.op = op, !.no = n, !.qty = w, !.api = a]
           c == [r EXCEPT !.try = 0, !.renewed = FALSE, !.force = FALSE]
<1>4. /\ op \in {"SubmitBuy", "Buy"} => a = "allow"
      /\ op \in {"SubmitSell", "Sell", "PlaceTP"} => a = "sell"
      /\ op = "CancelOrder" => a = "cancel"
      /\ op = "Query" => a = "query"
  BY DEF FirstApi
<1>5. a \in Apis
  BY <1>3, <1>4 DEF Apis
<1>6. w \in Qtys /\ (op \notin {"CancelOrder", "Query"} => 0 < w)
  BY QtysAre
<1>7. /\ n \in 0 .. MaxOrders
      /\ op = "CancelOrder" => n # 0 /\ n \in Nos /\ orders[n].st # "none"
      /\ op # "CancelOrder" => n = 0
  BY DriverAssumption DEF Nos
<1>8. pc' = [pc EXCEPT ![p] = "send"] /\ call' = [call EXCEPT ![p] = c]
  BY <1>2 DEF Ask
<1>9. NoCall \in Calls /\ NoCall.told = "none" /\ NoCall.last = 0
  BY QtysAre, DriverAssumption DEF Calls, NoCall, Ops, Tolds
<1> HIDE DEF a, w
<1>10. /\ r \in Calls /\ r.op = op /\ r.no = n /\ r.qty = w /\ r.api = a
       /\ r.told = "none" /\ r.last = 0
  <2>1. r = [NoCall EXCEPT !.op = op, !.no = n, !.qty = w, !.api = a]
    OBVIOUS
  <2> HIDE DEF r
  <2> QED BY ONLY <1>3, <1>5, <1>6, <1>7, <1>9, <2>1 DEF Calls
<1> HIDE DEF r
<1>11. /\ c \in Calls /\ c.op = op /\ c.no = n /\ c.qty = w /\ c.api = a
       /\ c.told = "none" /\ c.last = 0
  <2>1. 0 \in 0 .. 2 /\ FALSE \in BOOLEAN
    OBVIOUS
  <2>2. c = [r EXCEPT !.try = 0, !.renewed = FALSE, !.force = FALSE]
    OBVIOUS
  <2> HIDE DEF c
  <2>3. c \in Calls
    BY ONLY <1>10, <2>1, <2>2, CallAsked
  <2> QED BY <1>10, <2>2, <2>3 DEF Calls
<1> HIDE DEF c
<1>12. /\ pc'[p] = "send" /\ call'[p] = c /\ sent'[p] = {} /\ ~torn'[p] /\ late'[p] = 0
       /\ orders' = orders
  BY <1>1, <1>8 DEF TypeCalls, TypeRest
<1>13. TypeOrders' /\ OrdersOK' /\ OrdersGrow
  BY <1>12, OrdersStay
<1>14. Asks(p)'
  BY <1>3, <1>4, <1>6, <1>7, <1>11, <1>12 DEF Asks
<1>15. Knows(p)' /\ Told(p)'
  BY <1>3, <1>4, <1>11, <1>12 DEF Knows, Told
<1>16. Submission(p)' => call'[p].no = 0
  BY <1>7, <1>11, <1>12 DEF Submission
<1>17. Numbered(p)' /\ Unnumbered(p)'
  BY <1>3, <1>4, <1>11, <1>12, <1>16 DEF Numbered, Unnumbered
<1>18. ProcOK(p)'
  BY <1>14, <1>15, <1>17 DEF ProcOK
<1>19. /\ pc' = [pc EXCEPT ![p] = pc'[p]] /\ pc'[p] \in PCs
       /\ call' = [call EXCEPT ![p] = call'[p]] /\ call'[p] \in Calls
  BY <1>8, <1>11, <1>12 DEF PCs
<1>20. /\ sent' = [sent EXCEPT ![p] = sent'[p]] /\ sent'[p] \in SUBSET Nos
       /\ late' = [late EXCEPT ![p] = late'[p]] /\ late'[p] \in Qtys
       /\ torn' = [torn EXCEPT ![p] = torn'[p]] /\ torn'[p] \in BOOLEAN
  BY <1>1 DEF TypeRest
<1> QED
  BY <1>11, <1>12, <1>13, <1>16, <1>18, <1>19, <1>20 DEF Touches

\* An order on the wire belongs to a submission whose caller was told "maybe".
LEMMA LateIs ==
  ASSUME TypeCalls, TypeRest, NEW p \in Procs, ProcOK(p), late[p] > 0
  PROVE  /\ Submission(p) /\ call[p].no = 0 /\ call[p].told = "maybe" /\ sent[p] = {}
         /\ call[p].api = "none" /\ pc[p] = "idle"
<1>1. late[p] # 0
  BY QtysAre DEF TypeRest
<1> QED
  BY <1>1 DEF ProcOK, Asks, Numbered, Unnumbered

\* An order on the wire gets there or does not.
LEMMA ArriveTouches ==
  ASSUME TypeOrders, TypeCalls, TypeRest, OrdersOK, NEW p \in Procs, ProcOK(p), Arrive(p)
  PROVE  Touches(p) /\ UNCHANGED <<pc, call, torn>> /\ late[p] > 0
<1>1. /\ late[p] > 0 /\ late' = [late EXCEPT ![p] = 0] /\ UNCHANGED <<pc, call, torn>>
  BY DEF Arrive
<1>2. /\ Submission(p) /\ call[p].no = 0 /\ call[p].told = "maybe" /\ sent[p] = {}
      /\ call[p].api = "none" /\ pc[p] = "idle"
  BY <1>1, LateIs
<1>3. late'[p] = 0 /\ 0 \in Qtys /\ late[p] \in Qtys
  BY <1>1, QtysAre DEF TypeRest
<1>4. /\ TypeOrders' /\ OrdersOK' /\ OrdersGrow
      /\ sent' = [sent EXCEPT ![p] = sent'[p]] /\ sent'[p] \in SUBSET Nos
      /\ sent'[p] = {} \/ \E n \in Nos : sent'[p] = {n} /\ orders'[n].st # "none"
  <2>1. CASE UNCHANGED <<orders, sent>>
    <3>1. TypeOrders' /\ OrdersOK' /\ OrdersGrow
      BY <2>1, OrdersStay
    <3> QED BY <1>2, <2>1, <3>1 DEF TypeRest
  <2>2. CASE ~UNCHANGED <<orders, sent>>
    <3>1. PICK s \in {"buy", "sell"} : Free # {} /\ Place(p, s, late[p])
      BY <2>2 DEF Arrive
    <3> DEFINE n == Min(Free)
    <3>2. /\ n \in Nos /\ orders'[n].st = "open" /\ sent' = [sent EXCEPT ![p] = @ \cup {n}]
          /\ TypeOrders' /\ OrdersOK' /\ OrdersGrow
      BY <1>1, <1>3, <3>1, PlaceIs
    <3> HIDE DEF n
    <3>3. sent'[p] = {n} /\ sent' = [sent EXCEPT ![p] = sent'[p]]
      BY <1>2, <3>2 DEF TypeRest
    <3> QED BY <3>2, <3>3
  <2> QED BY <2>1, <2>2
<1>5. Asks(p)' /\ Knows(p)' /\ Told(p)' /\ Numbered(p)'
  BY <1>1, <1>2 DEF Asks, Knows, Told, Numbered
<1>6. Unnumbered(p)'
  BY <1>1, <1>2, <1>3, <1>4 DEF Unnumbered, Submission
<1>7. /\ pc' = [pc EXCEPT ![p] = pc'[p]] /\ pc'[p] \in PCs
      /\ call' = [call EXCEPT ![p] = call'[p]] /\ call'[p] \in Calls
      /\ late' = [late EXCEPT ![p] = late'[p]] /\ late'[p] \in Qtys
      /\ torn' = [torn EXCEPT ![p] = torn'[p]] /\ torn'[p] \in BOOLEAN
  BY <1>1, <1>3 DEF TypeCalls, TypeRest
<1> QED
  BY <1>1, <1>4, <1>5, <1>6, <1>7 DEF ProcOK, Touches

\* A step in the midst of an operation.
LEMMA MovesTouches ==
  ASSUME NEW p \in Procs, Moves(p)
  PROVE  Touches(p)
BY DEF Moves, Touches, Goes, OnlyCall

-----------------------------------------------------------------------------
(* The invariant.                                                          *)

\* What one program does leaves the others' operations as they are.
LEMMA TouchesKeep ==
  ASSUME TypeOrders, TypeCalls, TypeRest, \A q \in Procs : ProcOK(q), NEW p \in Procs, Touches(p)
  PROVE  OrdersOK' /\ \A q \in Procs : ProcOK(q)'
<1>1. ASSUME NEW q \in Procs, q # p
      PROVE  /\ pc'[q] = pc[q] /\ call'[q] = call[q] /\ late'[q] = late[q] /\ torn'[q] = torn[q]
             /\ sent'[q] = sent[q]
  BY <1>1 DEF Touches, TypeCalls, TypeRest
<1>2. TypeOrders' /\ OrdersOK' /\ OrdersGrow /\ ProcOK(p)'
  BY DEF Touches
<1>3. ASSUME NEW q \in Procs, q # p
      PROVE  ProcOK(q)'
  BY <1>1, <1>2, <1>3, OtherKept
<1> QED
  BY <1>2, <1>3

\* A step that touches no operation.
LEMMA MarketKeeps ==
  ASSUME TypeOrders, TypeCalls, TypeRest, \A q \in Procs : ProcOK(q), TypeOrders', OrdersOK',
         OrdersGrow, UNCHANGED <<pc, call, late, torn, sent>>
  PROVE  \A q \in Procs : ProcOK(q)'
BY OtherKept

\* The types of what a step of p touches, and of the rest.
LEMMA TouchesTypes ==
  ASSUME TypeOrders, TypeCalls, TypeRest, NEW p \in Procs, Touches(p), scen' = scen,
         left' \in [Procs -> 0 .. MaxOps], faults' \in 0 .. scen.faults,
         rotations' = rotations, unsaved' \in BOOLEAN
  PROVE  TypeOrders' /\ TypeCalls' /\ TypeRest'
<1>1. TypeCalls'
  <2>1. pc' \in [Procs -> PCs] /\ call' \in [Procs -> Calls]
    BY DEF Touches, TypeCalls
  <2>2. Calls' = Calls
    BY DEF Calls, Ops
  <2> QED BY <2>1, <2>2 DEF TypeCalls
<1>2. late' \in [Procs -> Qtys] /\ sent' \in [Procs -> SUBSET Nos] /\ torn' \in [Procs -> BOOLEAN]
  BY DEF Touches, TypeRest
<1>3. TypeRest'
  BY <1>2 DEF TypeRest
<1> QED
  BY <1>1, <1>3 DEF Touches

\* What the steps of a program do to tokens, budgets and the like.
LEMMA WorksTypes ==
  ASSUME TypeTokens, TypeRest, NEW p \in Procs, Works(p) \/ TurnedAway(p) \/ Lost(p)
  PROVE  /\ TypeTokens' /\ scen' = scen /\ left' = left /\ rotations' = rotations
         /\ faults' \in 0 .. scen.faults /\ unsaved' \in BOOLEAN
<1>0. scen.faults \in Nat /\ (Fault \/ NoFault => faults' \in 0 .. scen.faults)
  BY DriverAssumption DEF TypeRest, Fault, NoFault
<1>1. CASE Served(p)
  <2>1. Fault \/ NoFault
    BY <1>1 DEF Served
  <2>2. UNCHANGED <<scen, live, file, mine, old, left, late, rotations, unsaved>>
    BY <1>1 DEF Served
  <2> QED BY <1>0, <2>1, <2>2 DEF TypeTokens, TypeRest
<1>2. CASE Stranger(p) \/ TurnedAway(p) \/ Lost(p)
  <2>1. Fault \/ NoFault
    BY <1>2 DEF Stranger, TurnedAway, Lost
  <2>2. UNCHANGED <<scen, live, file, mine, old, left, rotations, unsaved>>
    BY <1>2 DEF Stranger, TurnedAway, Lost, server, history
  <2> QED BY <1>0, <2>1, <2>2 DEF TypeTokens, TypeRest
<1>3. CASE NeedToken(p)
  BY <1>0, <1>3 DEF NeedToken, server, history, TypeTokens, TypeRest
<1>4. CASE ReadFile(p)
  <2>1. UNCHANGED <<scen, live, file, left, old, faults, rotations, unsaved>>
    BY <1>4 DEF ReadFile, server, history
  <2>2. UNCHANGED mine \/ mine' = [mine EXCEPT ![p] = file]
    BY <1>4 DEF ReadFile
  <2> QED BY <2>1, <2>2 DEF TypeTokens, TypeRest
<1>5. CASE Issue(p)
  <2>1. UNCHANGED <<scen, file, left, rotations, unsaved>> /\ (Fault \/ NoFault)
    BY <1>5 DEF Issue, history
  <2>2. \/ UNCHANGED <<live, mine, old>>
        \/ /\ live' = NewToken /\ mine' = [mine EXCEPT ![p] = NewToken]
           /\ old' = old \ {NewToken}
    BY <1>5 DEF Issue
  <2>3. NewToken \in Tokens
    BY NewTokenIs
  <2> HIDE DEF NewToken
  <2>4. TypeTokens'
    BY <2>1, <2>2, <2>3 DEF TypeTokens
  <2> QED BY <1>0, <2>1, <2>4 DEF TypeRest
<1>6. CASE Save(p)
  <2>1. UNCHANGED <<scen, live, mine, old, left, rotations>> /\ (Fault \/ NoFault)
    BY <1>6 DEF Save, server
  <2>2. (file' = file \/ file' = mine[p]) /\ unsaved' \in BOOLEAN
    BY <1>6 DEF Save
  <2> QED BY <1>0, <2>1, <2>2 DEF TypeTokens
<1> QED
  BY <1>1, <1>2, <1>3, <1>4, <1>5, <1>6 DEF Works

\* The parts of the types, after a step.
LEMMA TypePartsNext == TypeOK' <=> TypeOrders' /\ TypeTokens' /\ TypeCalls' /\ TypeRest'
BY DEF TypeOK, TypeOrders, TypeTokens, TypeCalls, TypeRest, PCs, Ops, Tolds, Calls

\* The invariant holds at the start.
LEMMA InvariantInit == Init => IInv
<1> SUFFICES ASSUME Init
             PROVE  IInv
  OBVIOUS
<1>1. TypeRest
  <2>1. scen \in Scenarios
    BY DEF Init
  <2>2. scen.faults \in Nat /\ scen.rotations \in Nat
    BY <2>1, DriverAssumption
  <2>3. 0 \in Qtys
    BY <2>1, DriverAssumption, QtysBound
  <2>4. MaxOps \in 0 .. MaxOps /\ faults \in 0 .. scen.faults /\ rotations \in 0 .. scen.rotations
    BY <2>2, DriverAssumption DEF Init
  <2>5. /\ left = [p \in Procs |-> MaxOps] /\ late = [p \in Procs |-> 0]
        /\ sent = [p \in Procs |-> {}] /\ torn = [p \in Procs |-> FALSE] /\ unsaved = FALSE
    BY DEF Init
  <2> QED BY <2>1, <2>3, <2>4, <2>5 DEF TypeRest
<1>2. TypeTokens
  BY DriverAssumption DEF Init, TypeTokens
<1>3. NoCall \in Calls
  BY <1>1, QtysAre, DriverAssumption DEF Calls, NoCall, Ops, Tolds
<1>4. TypeCalls
  BY <1>3 DEF Init, TypeCalls, PCs
<1>5. TypeOrders
  BY <1>1, QtysAre DEF Init, TypeOrders
<1>6. OrdersOK
  BY DEF Init, OrdersOK
<1>7. ASSUME NEW p \in Procs
      PROVE  ProcOK(p)
  <2>1. /\ pc[p] = "idle" /\ call[p] = NoCall /\ sent[p] = {} /\ late[p] = 0 /\ ~torn[p]
    BY DEF Init
  <2> QED BY <2>1 DEF ProcOK, Asks, Knows, Numbered, Unnumbered, Told, Submission, NoCall
<1> QED
  BY <1>1, <1>2, <1>4, <1>5, <1>6, <1>7, TypeParts DEF IInv

\* Each step keeps the invariant.
LEMMA InvariantNext == IInv /\ [Next]_vars => IInv'
<1> SUFFICES ASSUME IInv, [Next]_vars
             PROVE  IInv'
  OBVIOUS
<1>0. /\ TypeOrders /\ TypeTokens /\ TypeCalls /\ TypeRest /\ OrdersOK
      /\ \A p \in Procs : ProcOK(p)
  BY TypeParts DEF IInv
<1>1. CASE Trade
  <2>1. UNCHANGED <<scen, live, file, pc, mine, call, left, late, old, faults, rotations, sent, torn, unsaved>>
    BY <1>1 DEF Trade, process, history
  <2>2. TypeOrders' /\ OrdersOK' /\ OrdersGrow
    BY <1>0, <1>1, TradeIs
  <2>3. \A p \in Procs : ProcOK(p)'
    BY <1>0, <2>1, <2>2, MarketKeeps
  <2>4. TypeTokens' /\ TypeCalls' /\ TypeRest'
    BY <1>0, <2>1 DEF TypeTokens, TypeCalls, TypeRest, Calls, Ops
  <2> QED BY <2>2, <2>3, <2>4, TypePartsNext DEF IInv
<1>2. CASE Rotate \/ Age
  <2>1. /\ UNCHANGED <<scen, orders, file, pc, mine, call, left, late, faults, sent, torn, unsaved>>
        /\ rotations < scen.rotations /\ rotations' = rotations + 1
        /\ live' \in {0, live}
    BY <1>2 DEF Rotate, Age, server, process, history
  <2>2. TypeOrders' /\ OrdersOK' /\ OrdersGrow
    BY <1>0, <2>1, OrdersStay
  <2>3. \A p \in Procs : ProcOK(p)'
    BY <1>0, <2>1, <2>2, MarketKeeps
  <2>4. old' \subseteq Tokens
    <3>1. ({live, file} \cup {mine[p] : p \in Procs}) \ {0} \subseteq Tokens
      BY <1>0 DEF TypeTokens
    <3> QED BY <1>0, <1>2, <3>1 DEF Rotate, Age, TypeTokens
  <2>5. scen.rotations \in Nat
    BY <1>0, DriverAssumption DEF TypeRest
  <2>6. TypeTokens' /\ TypeCalls'
    BY <1>0, <2>1, <2>4 DEF TypeTokens, TypeCalls, Calls, Ops
  <2>7. TypeRest'
    BY <1>0, <2>1, <2>5 DEF TypeRest
  <2> QED BY <2>2, <2>3, <2>6, <2>7, TypePartsNext DEF IInv
<1>3. ASSUME NEW p \in Procs, Begin(p)
      PROVE  IInv'
  <2>1. Touches(p)
    BY <1>0, <1>3, BeginTouches
  <2>2. /\ UNCHANGED <<scen, live, file, old, faults, rotations, unsaved>>
        /\ \E op : left' = [left EXCEPT ![p] = IF op = "Query" THEN @ ELSE @ - 1]
                  /\ (op # "Query" => left[p] > 0)
        /\ mine' = [mine EXCEPT ![p] = IF p \in scen.tools THEN 0 ELSE @]
    BY <1>3 DEF Begin, server
  <2>3. left' \in [Procs -> 0 .. MaxOps]
    BY <1>0, <2>2, DriverAssumption DEF TypeRest
  <2>4. TypeTokens'
    BY <1>0, <2>2 DEF TypeTokens
  <2>5. TypeOrders' /\ TypeCalls' /\ TypeRest'
    <3>1. faults' \in 0 .. scen.faults /\ unsaved' \in BOOLEAN /\ rotations' = rotations /\ scen' = scen
      BY <1>0, <2>2 DEF TypeRest
    <3> QED BY <1>0, <2>1, <2>3, <3>1, TouchesTypes
  <2>6. OrdersOK' /\ \A q \in Procs : ProcOK(q)'
    BY <1>0, <2>1, TouchesKeep
  <2> QED BY <2>4, <2>5, <2>6, TypePartsNext DEF IInv
<1>4. ASSUME NEW p \in Procs, Works(p) \/ TurnedAway(p) \/ Lost(p)
      PROVE  IInv'
  <2>1. Touches(p)
    BY <1>0, <1>4, WorksMoves, MovesTouches
  <2>2. /\ TypeTokens' /\ scen' = scen /\ left' = left /\ rotations' = rotations
        /\ faults' \in 0 .. scen.faults /\ unsaved' \in BOOLEAN
    BY <1>0, <1>4, WorksTypes
  <2>3. TypeOrders' /\ TypeCalls' /\ TypeRest'
    <3>1. left' \in [Procs -> 0 .. MaxOps]
      BY <1>0, <2>2 DEF TypeRest
    <3> QED BY <1>0, <2>1, <2>2, <3>1, TouchesTypes
  <2>4. OrdersOK' /\ \A q \in Procs : ProcOK(q)'
    BY <1>0, <2>1, TouchesKeep
  <2> QED BY <2>2, <2>3, <2>4, TypePartsNext DEF IInv
<1>5. ASSUME NEW p \in Procs, Arrive(p)
      PROVE  IInv'
  <2>1. Touches(p)
    BY <1>0, <1>5, ArriveTouches
  <2>2. UNCHANGED <<scen, live, file, mine, left, old, faults, rotations, unsaved>>
    BY <1>5 DEF Arrive
  <2>3. TypeTokens'
    BY <1>0, <2>2 DEF TypeTokens
  <2>4. TypeOrders' /\ TypeCalls' /\ TypeRest'
    <3>1. /\ faults' \in 0 .. scen.faults /\ unsaved' \in BOOLEAN /\ rotations' = rotations
          /\ scen' = scen /\ left' \in [Procs -> 0 .. MaxOps]
      BY <1>0, <2>2 DEF TypeRest
    <3> QED BY <1>0, <2>1, <3>1, TouchesTypes
  <2>5. OrdersOK' /\ \A q \in Procs : ProcOK(q)'
    BY <1>0, <2>1, TouchesKeep
  <2> QED BY <2>3, <2>4, <2>5, TypePartsNext DEF IInv
<1>6. CASE UNCHANGED vars
  <2>1. /\ UNCHANGED <<scen, orders, live, file, pc, mine, call, left, late, old, faults>>
        /\ UNCHANGED <<rotations, sent, torn, unsaved>>
    BY <1>6 DEF vars, server, process, history
  <2>2. TypeOrders' /\ OrdersOK' /\ OrdersGrow
    BY <1>0, <2>1, OrdersStay
  <2>3. \A p \in Procs : ProcOK(p)'
    BY <1>0, <2>1, <2>2, MarketKeeps
  <2>4. TypeTokens' /\ TypeCalls' /\ TypeRest'
    BY <1>0, <2>1 DEF TypeTokens, TypeCalls, TypeRest, Calls, Ops
  <2> QED BY <2>2, <2>3, <2>4, TypePartsNext DEF IInv
<1> QED
  BY <1>1, <1>2, <1>3, <1>4, <1>5, <1>6 DEF Next

\* The invariant holds always.
THEOREM Invariance == Spec => []IInv
<1>1. Init => IInv
  BY InvariantInit
<1>2. IInv /\ [Next]_vars => IInv'
  BY InvariantNext
<1> QED
  BY <1>1, <1>2, PTL DEF Spec

\* Every variable keeps its type: the exchange's numbers, the calls in hand and the
\* tokens are what the drivers take them for.
THEOREM TypeCorrect == Spec => []TypeOK
<1>1. IInv => TypeOK
  BY DEF IInv
<1> QED
  BY <1>1, Invariance, PTL

\* Buy and Sell tell the truth about the order (waitFill): what they report is what was
\* traded and nothing of it is left, unless a step of the settling failed, and then
\* "filled" is still certain.
THEOREM SettledTruly == Spec => []SettledTrue
<1>1. IInv => SettledTrue
  BY DEF IInv, ProcOK, Told, SettledTrue
<1> QED
  BY <1>1, Invariance, PTL

-----------------------------------------------------------------------------
(* The promise: what the callers see is OrderCall.                         *)

\* The sum over one element.
LEMMA SumOne ==
  ASSUME NEW f, NEW e, f[e] \in Int
  PROVE  SumFunctionOnSet(f, {e}) = f[e]
<1>1. SumFunctionOnSet(f, {} \cup {e}) = f[e] + SumFunctionOnSet(f, {})
  BY SumAdd, FS_EmptySet
<1>2. SumFunctionOnSet(f, {}) = 0 /\ {} \cup {e} = {e}
  BY SumEmpty
<1> QED
  BY <1>1, <1>2

\* What is placed for an operation, before a step and after it.
LEMMA SentIs ==
  ASSUME TypeOrders, TypeRest, TypeOrders', TypeRest', OrdersOK', NEW p \in Procs
  PROVE  /\ sent[p] = {} => Sent[p] = 0
         /\ sent'[p] = {} => Sent'[p] = 0
         /\ \A n \in Nos : sent[p] = {n} => Sent[p] = orders[n].qty
         /\ \A n \in Nos : sent'[p] = {n} /\ orders'[n].st # "none" =>
              Sent'[p] = orders'[n].qty /\ Sent'[p] \in 1 .. Max(Qtys)
<1> DEFINE f == [n \in Nos |-> orders[n].qty]
           g == [n \in Nos |-> orders'[n].qty]
<1>1. /\ \A n \in Nos : f[n] = orders[n].qty /\ f[n] \in Int
      /\ \A n \in Nos : g[n] = orders'[n].qty /\ g[n] \in Int /\ g[n] \in Qtys
  BY QtysAre DEF TypeOrders
<1>2. Sent[p] = SumFunctionOnSet(f, sent[p]) /\ Sent'[p] = SumFunctionOnSet(g, sent'[p])
  BY DEF Sent
<1> HIDE DEF f, g
<1>3. /\ sent[p] = {} => Sent[p] = 0
      /\ sent'[p] = {} => Sent'[p] = 0
  BY <1>2, SumEmpty
<1>4. \A n \in Nos : SumFunctionOnSet(f, {n}) = f[n] /\ SumFunctionOnSet(g, {n}) = g[n]
  BY <1>1, SumOne
<1>5. \A n \in Nos : sent[p] = {n} => Sent[p] = orders[n].qty
  BY <1>1, <1>2, <1>4
<1>6. ASSUME NEW n \in Nos, sent'[p] = {n}, orders'[n].st # "none"
      PROVE  Sent'[p] = orders'[n].qty /\ Sent'[p] \in 1 .. Max(Qtys)
  <2>1. Sent'[p] = orders'[n].qty
    <3>1. Sent'[p] = SumFunctionOnSet(g, {n})
      BY <1>2, <1>6
    <3> QED BY <1>1, <1>4, <3>1
  <2>2. 0 < orders'[n].qty /\ orders'[n].qty \in Qtys
    BY <1>1, <1>6 DEF OrdersOK
  <2> QED BY <2>1, <2>2, QtysAre
<1> QED
  BY <1>3, <1>5, <1>6

\* An operation that goes on, or the market, changes nothing for this caller.
LEMMA SeesNothing ==
  ASSUME TypeOrders, TypeRest, TypeOrders', TypeRest', OrdersOK', OrdersGrow, NEW q \in Procs,
         ProcOK(q), call'[q] = call[q], torn'[q] = torn[q], sent'[q] = sent[q]
  PROVE  TrueAnswer'[q] = TrueAnswer[q] /\ Sent'[q] = Sent[q]
<1>1. TrueAnswer'[q] = TrueAnswer[q]
  BY DEF TrueAnswer, Submission
<1>2. sent[q] = {} \/ \E n \in Nos : sent[q] = {n} /\ orders[n].st # "none"
  BY DEF ProcOK, Unnumbered
<1>3. CASE sent[q] = {}
  BY <1>1, <1>3, SentIs
<1>4. CASE \E n \in Nos : sent[q] = {n} /\ orders[n].st # "none"
  <2>1. PICK n \in Nos : sent[q] = {n} /\ orders[n].st # "none"
    BY <1>4
  <2>2. orders'[n].qty = orders[n].qty /\ orders'[n].st # "none"
    BY <2>1 DEF OrdersGrow
  <2>3. Sent[q] = orders[n].qty /\ Sent'[q] = orders'[n].qty
    BY <2>1, <2>2, SentIs
  <2> QED BY <1>1, <2>2, <2>3
<1> QED
  BY <1>2, <1>3, <1>4

\* What one program does is seen by its own caller only.
LEMMA OnlyItsCaller ==
  ASSUME TypeOrders, TypeCalls, TypeRest, TypeOrders', TypeRest', NEW p \in Procs,
         \A q \in Procs : ProcOK(q), Touches(p)
  PROVE  /\ TrueAnswer' = [TrueAnswer EXCEPT ![p] = TrueAnswer'[p]]
         /\ Sent' = [Sent EXCEPT ![p] = Sent'[p]]
<1>1. ASSUME NEW q \in Procs, q # p
      PROVE  TrueAnswer'[q] = TrueAnswer[q] /\ Sent'[q] = Sent[q]
  <2>1. call'[q] = call[q] /\ torn'[q] = torn[q] /\ sent'[q] = sent[q]
    BY <1>1 DEF Touches, TypeCalls, TypeRest
  <2>2. OrdersOK' /\ OrdersGrow
    BY DEF Touches
  <2> QED BY <2>1, <2>2, SeesNothing
<1>2. /\ TrueAnswer = [q \in Procs |-> TrueAnswer[q]] /\ TrueAnswer' = [q \in Procs |-> TrueAnswer'[q]]
      /\ Sent = [q \in Procs |-> Sent[q]] /\ Sent' = [q \in Procs |-> Sent'[q]]
  BY DEF TrueAnswer, Sent
<1> QED
  BY <1>1, <1>2

\* A step of OrderCall, or none
PromiseStep == [Promised!Next]_(Promised!vars)

\* The order may get there, and the caller be told, while it waits.
LEMMA WaitingStep ==
  ASSUME NEW p \in Procs, TrueAnswer' = [TrueAnswer EXCEPT ![p] = TrueAnswer'[p]],
         Sent' = [Sent EXCEPT ![p] = Sent'[p]], TrueAnswer[p] = <<"none", 0>>, Sent[p] = 0,
         Sent'[p] = 0 \/ Sent'[p] \in 1 .. Max(Qtys),
         \/ TrueAnswer'[p] = <<"none", 0>>
         \/ TrueAnswer'[p] = <<"maybe", 0>>
         \/ Sent'[p] = 0 /\ TrueAnswer'[p] = <<"refused", 0>>
         \/ Sent'[p] # 0 /\ TrueAnswer'[p] = <<"accepted", Sent'[p]>>
  PROVE  PromiseStep
<1>1. TrueAnswer[p][1] = "none"
  OBVIOUS
<1>2. TrueAnswer = [q \in Procs |-> TrueAnswer[q]] /\ Sent = [q \in Procs |-> Sent[q]]
  BY DEF TrueAnswer, Sent
<1>3. TrueAnswer'[p] = <<"none", 0>> => TrueAnswer' = TrueAnswer
  BY <1>2
<1>4. Sent'[p] = 0 => Sent' = Sent
  BY <1>2
<1>5. TrueAnswer'[p] # <<"none", 0>> => Promised!Tell(p)
  BY <1>1 DEF Promised!Tell
<1>6. Sent'[p] # 0 => Promised!Place(p)
  BY <1>1 DEF Promised!Place
<1> QED
  BY <1>3, <1>4, <1>5, <1>6 DEF PromiseStep, Promised!Next, Promised!vars

\* A step in the midst of an operation.
LEMMA MovesPromised ==
  ASSUME IInv, IInv', NEW p \in Procs, pc[p] # "idle", Moves(p)
  PROVE  PromiseStep
<1> DEFINE c == call[p]
           d == call'[p]
<1>0. /\ TypeOrders /\ TypeCalls /\ TypeRest /\ TypeOrders' /\ TypeRest' /\ OrdersOK' /\ OrdersGrow
      /\ \A q \in Procs : ProcOK(q)
  BY TypeParts, TypePartsNext DEF IInv, Moves
<1>1. ProcOK(p) /\ ProcOK(p)' /\ Goes(p) /\ d.op = c.op
  BY <1>0 DEF Moves, Goes, OnlyCall
<1>2. /\ TrueAnswer' = [TrueAnswer EXCEPT ![p] = TrueAnswer'[p]]
      /\ Sent' = [Sent EXCEPT ![p] = Sent'[p]]
  BY <1>0, MovesTouches, OnlyItsCaller
<1>3. c.told = "none" /\ c.api # "none" /\ ~torn[p]
  BY <1>1 DEF ProcOK, Asks
<1>4. CASE ~Submission(p)
  <2>1. TrueAnswer[p] = <<"none", 0>> /\ TrueAnswer'[p] = <<"none", 0>>
    BY <1>1, <1>4 DEF TrueAnswer, Submission
  <2>2. sent[p] = {} /\ sent'[p] = {}
    BY <1>1, <1>4 DEF ProcOK, Unnumbered, Submission
  <2>3. Sent[p] = 0 /\ Sent'[p] = 0
    BY <1>0, <2>2, SentIs
  <2> QED BY <1>2, <2>1, <2>3, WaitingStep
<1>5. CASE Submission(p) /\ c.no # 0
  <2>1. Submission(p)' /\ d.no = c.no
    BY <1>1, <1>5 DEF Submission, Goes
  <2>2. /\ sent[p] = {c.no} /\ sent'[p] = {c.no}
        /\ orders[c.no].st # "none" /\ orders[c.no].qty = c.qty
        /\ orders'[c.no].st # "none" /\ orders'[c.no].qty = d.qty
    BY <1>1, <1>5, <2>1 DEF ProcOK, Numbered
  <2>3. c.no \in Nos
    BY <1>0, <1>5, CallTypes
  <2>4. Sent[p] = orders[c.no].qty /\ Sent'[p] = orders'[c.no].qty /\ d.qty = c.qty
    BY <1>0, <2>2, <2>3, SentIs DEF OrdersGrow
  <2>5. TrueAnswer[p] = <<"accepted", c.qty>> /\ TrueAnswer'[p] = <<"accepted", d.qty>>
    BY <1>5, <2>1 DEF TrueAnswer, Submission
  <2>6. TrueAnswer = [q \in Procs |-> TrueAnswer[q]] /\ Sent = [q \in Procs |-> Sent[q]]
    BY DEF TrueAnswer, Sent
  <2>7. TrueAnswer' = TrueAnswer /\ Sent' = Sent
    BY <1>2, <2>2, <2>4, <2>5, <2>6
  <2> QED BY <2>7 DEF PromiseStep, Promised!vars
<1>6. CASE Submission(p) /\ c.no = 0
  <2>1. sent[p] = {} /\ TrueAnswer[p] = <<"none", 0>> /\ Submission(p)'
    BY <1>1, <1>3, <1>6 DEF ProcOK, Unnumbered, TrueAnswer, Submission
  <2>2. Sent[p] = 0
    BY <1>0, <2>1, SentIs
  <2>3. CASE d.no # 0
    <3>1. /\ sent'[p] = {d.no} /\ orders'[d.no].st # "none" /\ orders'[d.no].qty = d.qty
      BY <1>1, <2>1, <2>3 DEF ProcOK, Numbered
    <3>2. d.no \in Nos
      <4>1. sent'[p] \in SUBSET Nos
        BY DEF Moves
      <4> QED BY <3>1, <4>1
    <3>3. Sent'[p] = d.qty /\ Sent'[p] \in 1 .. Max(Qtys)
      BY <1>0, <3>1, <3>2, SentIs
    <3>4. TrueAnswer'[p] = <<"accepted", d.qty>>
      BY <2>1, <2>3 DEF TrueAnswer, Submission
    <3>5. Sent'[p] # 0
      BY <3>3
    <3> QED BY <1>2, <2>1, <2>2, <3>3, <3>4, <3>5, WaitingStep
  <2>4. CASE d.no = 0
    <3>1. sent'[p] = {} \/ \E n \in Nos : sent'[p] = {n} /\ orders'[n].st # "none"
      BY <1>1 DEF ProcOK, Unnumbered
    <3>2. Sent'[p] = 0 \/ Sent'[p] \in 1 .. Max(Qtys)
      BY <1>0, <3>1, SentIs
    <3>3. CASE d.api # "none"
      <4>1. d.told = "none" /\ sent'[p] = {}
        BY <1>1, <2>4, <3>3 DEF ProcOK, Asks, Unnumbered
      <4>2. TrueAnswer'[p] = <<"none", 0>>
        BY <2>1, <2>4, <4>1 DEF TrueAnswer, Submission
      <4> QED BY <1>2, <2>1, <2>2, <3>2, <4>2, WaitingStep
    <3>4. CASE d.api = "none"
      <4>1. \/ d.told \in {"refused", "short"} /\ (sent'[p] = {} \/ torn'[p])
            \/ d.told = "accepted" /\ torn'[p]
            \/ d.told = "maybe"
        BY <1>1, <2>1, <2>4, <3>4 DEF ProcOK, Unnumbered
      <4>2. CASE torn'[p] \/ d.told = "maybe"
        <5>1. TrueAnswer'[p] = <<"maybe", 0>>
          BY <2>1, <2>4, <4>1, <4>2 DEF TrueAnswer, Submission
        <5> QED BY <1>2, <2>1, <2>2, <3>2, <5>1, WaitingStep
      <4>3. CASE ~torn'[p] /\ d.told # "maybe"
        <5>1. TrueAnswer'[p] = <<"refused", 0>> /\ sent'[p] = {}
          BY <2>1, <2>4, <4>1, <4>3 DEF TrueAnswer, Submission
        <5>2. Sent'[p] = 0
          BY <1>0, <5>1, SentIs
        <5> QED BY <1>2, <2>1, <2>2, <5>1, <5>2, WaitingStep
      <4> QED BY <4>2, <4>3
    <3> QED BY <3>3, <3>4
  <2> QED BY <2>3, <2>4
<1> QED
  BY <1>4, <1>5, <1>6

\* A new operation is a new question.
LEMMA BeginPromised ==
  ASSUME IInv, IInv', NEW p \in Procs, Begin(p)
  PROVE  PromiseStep
<1>0. /\ TypeOrders /\ TypeCalls /\ TypeRest /\ TypeOrders' /\ TypeRest' /\ OrdersOK /\ OrdersOK'
      /\ \A q \in Procs : ProcOK(q)
  BY TypeParts, TypePartsNext DEF IInv
<1>1. Touches(p) /\ call'[p].told = "none" /\ ~torn'[p] /\ sent'[p] = {}
      /\ (Submission(p)' => call'[p].no = 0)
  BY <1>0, BeginTouches
<1>2. /\ TrueAnswer' = [TrueAnswer EXCEPT ![p] = TrueAnswer'[p]]
      /\ Sent' = [Sent EXCEPT ![p] = Sent'[p]]
  BY <1>0, <1>1, OnlyItsCaller
<1>3. TrueAnswer'[p] = <<"none", 0>>
  BY <1>1 DEF TrueAnswer, Submission
<1>4. Sent'[p] = 0
  BY <1>0, <1>1, SentIs
<1>5. Promised!Ask(p)
  BY <1>2, <1>3, <1>4 DEF Promised!Ask
<1> QED
  BY <1>5 DEF PromiseStep, Promised!Next

\* An order that arrives late was answered with "maybe".
LEMMA ArrivePromised ==
  ASSUME IInv, IInv', NEW p \in Procs, Arrive(p)
  PROVE  PromiseStep
<1>0. /\ TypeOrders /\ TypeCalls /\ TypeRest /\ TypeOrders' /\ TypeRest' /\ OrdersOK /\ OrdersOK'
      /\ \A q \in Procs : ProcOK(q)
  BY TypeParts, TypePartsNext DEF IInv
<1>1. Touches(p) /\ UNCHANGED <<pc, call, torn>> /\ late[p] > 0
  BY <1>0, ArriveTouches
<1>2. Submission(p) /\ call[p].no = 0 /\ call[p].told = "maybe" /\ sent[p] = {}
  BY <1>0, <1>1, LateIs
<1>3. /\ TrueAnswer' = [TrueAnswer EXCEPT ![p] = TrueAnswer'[p]]
      /\ Sent' = [Sent EXCEPT ![p] = Sent'[p]]
  BY <1>0, <1>1, OnlyItsCaller
<1>4. TrueAnswer[p] = <<"maybe", 0>> /\ TrueAnswer'[p] = <<"maybe", 0>>
  BY <1>1, <1>2 DEF TrueAnswer, Submission
<1>5. TrueAnswer = [q \in Procs |-> TrueAnswer[q]] /\ Sent = [q \in Procs |-> Sent[q]]
  BY DEF TrueAnswer, Sent
<1>6. TrueAnswer' = TrueAnswer
  BY <1>3, <1>4, <1>5
<1>7. Sent[p] = 0
  BY <1>0, <1>2, SentIs
<1>8. sent'[p] = {} \/ \E n \in Nos : sent'[p] = {n} /\ orders'[n].st # "none"
  BY <1>1 DEF Touches, ProcOK, Unnumbered
<1>9. Sent'[p] = 0 \/ Sent'[p] \in 1 .. Max(Qtys)
  BY <1>0, <1>8, SentIs
<1>10. CASE Sent'[p] = 0
  <2>1. Sent' = Sent
    BY <1>3, <1>5, <1>7, <1>10
  <2> QED BY <1>6, <2>1 DEF PromiseStep, Promised!vars
<1>11. CASE Sent'[p] \in 1 .. Max(Qtys)
  <2>1. TrueAnswer[p][1] = "maybe"
    BY <1>4
  <2>2. Promised!Place(p)
    BY <1>3, <1>7, <1>11, <2>1 DEF Promised!Place
  <2> QED BY <1>6, <2>2 DEF PromiseStep, Promised!Next
<1> QED
  BY <1>9, <1>10, <1>11

\* The drivers keep their promise to the callers: through retries, renewed tokens, the
\* smaller second order, lost answers and orders that arrive late, a submission becomes
\* at most one order, of the quantity answered; and after "refused" none comes.
THEOREM PromiseKept == Spec => KeepsPromise
<1>1. Init => Promised!Init
  <2> SUFFICES ASSUME Init
               PROVE  Promised!Init
    OBVIOUS
  <2>1. \A p \in Procs : call[p] = NoCall /\ sent[p] = {}
    BY DEF Init
  <2>2. \A p \in Procs : TrueAnswer[p] = <<"none", 0>>
    BY <2>1 DEF TrueAnswer, Submission, NoCall
  <2>3. \A p \in Procs : Sent[p] = 0
    BY <2>1, SumEmpty DEF Sent
  <2>4. TrueAnswer = [q \in Procs |-> TrueAnswer[q]] /\ Sent = [q \in Procs |-> Sent[q]]
    BY DEF TrueAnswer, Sent
  <2> QED BY <2>2, <2>3, <2>4 DEF Promised!Init
<1>2. IInv /\ IInv' /\ [Next]_vars => PromiseStep
  <2> SUFFICES ASSUME IInv, IInv', [Next]_vars
               PROVE  PromiseStep
    OBVIOUS
  <2>0. /\ TypeOrders /\ TypeTokens /\ TypeCalls /\ TypeRest /\ OrdersOK
        /\ TypeOrders' /\ TypeRest' /\ OrdersOK'
        /\ \A p \in Procs : ProcOK(p)
    BY TypeParts, TypePartsNext DEF IInv
  <2>1. ASSUME NEW p \in Procs, Works(p) \/ TurnedAway(p) \/ Lost(p)
        PROVE  PromiseStep
    BY <2>0, <2>1, WorksMoves, MovesPromised
  <2>2. ASSUME NEW p \in Procs, Begin(p) \/ Arrive(p)
        PROVE  PromiseStep
    BY <2>2, BeginPromised, ArrivePromised
  <2>3. CASE Trade \/ Rotate \/ Age \/ UNCHANGED vars
    <3>1. UNCHANGED <<pc, call, torn, sent>>
      BY <2>3 DEF Trade, Rotate, Age, vars, server, process, history
    <3>2. OrdersGrow
      <4>1. CASE Trade
        BY <2>0, <4>1, TradeIs
      <4>2. CASE UNCHANGED orders
        BY <2>0, <4>2, OrdersStay
      <4> QED BY <2>3, <4>1, <4>2 DEF Rotate, Age, vars, server
    <3>3. \A q \in Procs : TrueAnswer'[q] = TrueAnswer[q] /\ Sent'[q] = Sent[q]
      BY <2>0, <3>1, <3>2, SeesNothing
    <3>4. /\ TrueAnswer = [q \in Procs |-> TrueAnswer[q]] /\ Sent = [q \in Procs |-> Sent[q]]
          /\ TrueAnswer' = [q \in Procs |-> TrueAnswer'[q]] /\ Sent' = [q \in Procs |-> Sent'[q]]
      BY DEF TrueAnswer, Sent
    <3>5. TrueAnswer' = TrueAnswer /\ Sent' = Sent
      BY <3>3, <3>4
    <3> QED BY <3>5 DEF PromiseStep, Promised!vars
  <2> QED BY <2>1, <2>2, <2>3 DEF Next
<1> QED
  BY <1>1, <1>2, Invariance, PTL DEF Spec, KeepsPromise, Promised!Spec, PromiseStep

=============================================================================
