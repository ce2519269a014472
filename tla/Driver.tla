------------------------------- MODULE Driver -------------------------------
(***************************************************************************)
(* The broker drivers (internal/broker/kiwoom and upbit): how one call of  *)
(* the interface becomes HTTP requests, what of them is tried again, what  *)
(* the caller is told, and who issues the one access token of an account.  *)
(*                                                                         *)
(* A process is one program with a driver of its own: the daemon, the      *)
(* command brokerctl, or a tool that may not issue tokens.  Its calls are  *)
(* sequential; the processes share the account and the token file, and     *)
(* every request, every read and every write of the file is a step.  The   *)
(* house (which driver, whose exchange) is fixed at the start; Upbit signs *)
(* each request and has no token.                                          *)
(*                                                                         *)
(* The Kiwoom exchange is the repository's own (internal/fakekiwoom), one  *)
(* symbol, a share for a unit of money and no fees; the network around it  *)
(* loses requests and answers, and may deliver an order late.  The         *)
(* pacing of requests and the formats of bodies and answers are left out.  *)
(***************************************************************************)
EXTENDS Naturals, FiniteSets, FiniteSetsExt, Functions

CONSTANTS
  Procs,      \* programs with a driver
  Scenarios,  \* who runs against which exchange: the fields are in the assumption
  MaxOrders,  \* bound: orders the exchange takes
  MaxOps,     \* bound: order operations of a process (queries are not counted)
  Tokens      \* names of tokens; one that nobody knows any more is reused

Nos == 1 .. MaxOrders

\* 0: no token
ASSUME DriverAssumption ==
  /\ MaxOrders \in Nat /\ MaxOps \in Nat
  /\ IsFiniteSet(Procs) /\ IsFiniteSet(Tokens) /\ IsFiniteSet(Scenarios)
  /\ Tokens \subseteq Nat \ {0} /\ 1 \in Tokens
  /\ Cardinality(Tokens) > 2 * Cardinality(Procs) + 1
  /\ \A s \in Scenarios :
       /\ s.house \in {"kiwoom", "upbit"}
       /\ s.ops \in [Procs -> SUBSET {"SubmitBuy", "SubmitSell", "Buy", "Sell", "PlaceTP",
                                      "CancelOrder", "Query"}]
       /\ s.issues \subseteq Procs  \* may issue tokens
       /\ s.tools \subseteq Procs   \* are started anew for each operation
       /\ {s.cash, s.shares, s.faults, s.rotations} \subseteq Nat
       /\ s.want \in Nat \ {0}

VARIABLES
  scen,
  (* the exchange *)
  orders,   \* what it took, by number
  live,     \* the token it accepts
  (* between the processes *)
  file,     \* the token in the token file
  (* a process *)
  pc,       \* the step it is about to take
  mine,     \* the token in its memory
  old,      \* tokens within an hour of their expiry (expiryBuffer)
  call,     \* the operation in hand, or the last one and its outcome
  left,     \* order operations it may still start
  late,     \* quantity of an order of its that is still on the wire (0: none)
  (* budgets *)
  faults, rotations,
  (* history, read by no action *)
  sent,     \* orders the exchange took for the operation in `call`
  torn,     \* the operation met an answer that could not be read
  unsaved   \* the newest token could not be written to the file

server  == <<orders, live>>
process == <<pc, mine, call, left, late>>
history == <<sent, torn, unsaved>>
vars    == <<scen, server, file, process, old, faults, rotations, history>>

Kiwoom == scen.house = "kiwoom"

\* The request a process is about to make
Apis == {"allow", "buy", "sell", "cancel", "query", "poll", "kill", "recheck"}

\* Quantities: no order is larger than what was asked for
Qtys == 0 .. Max({s.want : s \in Scenarios})

TypeOK ==
  /\ scen \in Scenarios
  /\ orders \in [Nos -> [side : {"none", "buy", "sell"}, qty : Qtys, filled : Qtys,
                         st : {"none", "open", "done", "cancelled"}]]
  /\ live \in Tokens \cup {0} /\ file \in Tokens \cup {0} /\ old \subseteq Tokens
  /\ pc \in [Procs -> {"idle", "send", "go", "file", "issue", "save"}]
  /\ mine \in [Procs -> Tokens \cup {0}]
  /\ call \in [Procs ->
       [op : {"none"} \cup UNION {scen.ops[p] : p \in Procs}, api : Apis \cup {"none"},
        try : 0 .. 2, renewed : BOOLEAN, force : BOOLEAN, again : BOOLEAN, seen : BOOLEAN,
        kerr : BOOLEAN, blind : BOOLEAN, qty : Qtys, no : 0 .. MaxOrders, last : Qtys,
        told : {"none", "accepted", "refused", "short", "maybe", "ok", "filled", "partial",
                "unfilled"}]]
  /\ left \in [Procs -> 0 .. MaxOps] /\ late \in [Procs -> Qtys]
  /\ faults \in 0 .. scen.faults /\ rotations \in 0 .. scen.rotations
  /\ sent \in [Procs -> SUBSET Nos] /\ torn \in [Procs -> BOOLEAN]
  /\ unsaved \in BOOLEAN

NoCall == [op |-> "none", api |-> "none", try |-> 0, renewed |-> FALSE, force |-> FALSE,
           again |-> FALSE, seen |-> FALSE, kerr |-> FALSE, blind |-> FALSE, qty |-> 0, no |-> 0, last |-> 0,
           told |-> "none"]

\* A daemon that has been running: token 1 is live, in the file and in every memory
Init ==
  /\ scen \in Scenarios
  /\ orders = [n \in Nos |-> [side |-> "none", qty |-> 0, filled |-> 0, st |-> "none"]]
  /\ live = 1 /\ file = 1 /\ old = {}
  /\ pc = [p \in Procs |-> "idle"] /\ mine = [p \in Procs |-> 1]
  /\ call = [p \in Procs |-> NoCall]
  /\ left = [p \in Procs |-> MaxOps] /\ late = [p \in Procs |-> 0]
  /\ faults = 0 /\ rotations = 0
  /\ sent = [p \in Procs |-> {}] /\ torn = [p \in Procs |-> FALSE]
  /\ unsaved = FALSE

Fault == faults < scen.faults /\ faults' = faults + 1
NoFault == UNCHANGED faults

-----------------------------------------------------------------------------
(* The exchange.                                                           *)

Side(s) == {n \in Nos : orders[n].side = s}
Filled(s) == MapThenSumSet(LAMBDA n : orders[n].filled, Side(s))
Waiting(s) == MapThenSumSet(LAMBDA n : orders[n].qty - orders[n].filled,
                            {n \in Side(s) : orders[n].st = "open"})

\* Money not spent and not reserved; shares held and not locked by a sale.
\* What was sold or bought beyond these would be below zero.
Has(s) == IF s = "buy" THEN scen.cash + Filled("sell") ELSE scen.shares + Filled("buy")
Spare(s) == Has(s) - Filled(s) - Waiting(s)

Free == {n \in Nos : orders[n].st = "none"}

Place(p, s, q) ==
  LET n == Min(Free)
  IN /\ orders' = [orders EXCEPT ![n] = [side |-> s, qty |-> q, filled |-> 0, st |-> "open"]]
     /\ sent' = [sent EXCEPT ![p] = @ \cup {n}]

\* One share of an order is traded
Trade == \E n \in Nos :
  /\ orders[n].st = "open"
  /\ orders' = [orders EXCEPT ![n].filled = @ + 1,
                              ![n].st = IF orders[n].filled + 1 = orders[n].qty THEN "done" ELSE @]
  /\ UNCHANGED <<scen, live, file, process, old, faults, rotations, history>>

\* The server drops the token before its time
Rotate ==
  /\ Kiwoom /\ rotations < scen.rotations /\ rotations' = rotations + 1
  /\ live' = 0
  /\ UNCHANGED <<scen, orders, file, process, old, faults, history>>

\* An hour before the expiry of the tokens that are about
Age ==
  /\ Kiwoom /\ rotations < scen.rotations /\ rotations' = rotations + 1
  /\ old' = ({live, file} \cup {mine[p] : p \in Procs}) \ {0}
  /\ UNCHANGED <<scen, server, file, process, faults, history>>

-----------------------------------------------------------------------------
(* What the client makes of an answer.                                     *)

\* isOrderAPI; at Upbit, a POST
Ordering(p) == call[p].api \in {"buy", "sell"}

\* Mutant: an order is sent again after a 5xx
MutRetries(p, ans) ==
  /\ call[p].try < 2
  /\ \/ ans \in {"limit", "5xx"}
     \/ ans = "none" /\ ~Ordering(p) /\ ~Kiwoom

\* "none": no answer came.  "limit": HTTP 429, or Kiwoom's [1700]: the
\* request was not processed.  "5xx": it may have been.  "4xx": it was not.
\* "blank": an order was accepted, and its number is missing.
Retries(p, ans) ==
  /\ call[p].try < 2
  /\ \/ ans = "limit"
     \/ ans = "5xx" /\ ~Ordering(p)
     \/ ans = "none" /\ ~Ordering(p) /\ ~Kiwoom

\* The error or result the call returns to the operation it is part of
Verdict(p, ans) ==
  CASE ans \in {"ok", "short", "blank"} -> ans
    [] ans \in {"none", "5xx"} /\ Ordering(p) -> "maybe"
    [] OTHER -> "refused"

\* The operation goes on with a request
Ask(p, r) ==
  /\ pc' = [pc EXCEPT ![p] = "send"]
  /\ call' = [call EXCEPT ![p] = [r EXCEPT !.try = 0, !.renewed = FALSE, !.force = FALSE]]

\* The operation is over, and its caller told
End(p, r, told) ==
  /\ pc' = [pc EXCEPT ![p] = "idle"]
  /\ call' = [call EXCEPT ![p] = [NoCall EXCEPT !.op = r.op, !.qty = r.qty, !.no = r.no,
                                                !.last = r.last, !.blind = r.blind, !.told = told]]

\* The exchange's own limit makes a purchase smaller; a query that fails does not
AllowedQty(p, v, val) == IF v = "ok" /\ val < call[p].qty THEN val ELSE call[p].qty

\* SubmitBuy before the order
Allowed(p, v, val) ==
  LET c == call[p]
      q == AllowedQty(p, v, val)
  IN IF q = 0 THEN End(p, c, "short") ELSE Ask(p, [c EXCEPT !.api = "buy", !.qty = q])

\* Kiwoom's refusal for want of money names a quantity, which is tried once
Smaller(p, v, val) ==
  v = "short" /\ Kiwoom /\ ~call[p].again /\ val > 0 /\ val < call[p].qty

\* SubmitBuy, SubmitSell, PlaceTP after the order
Submitted(p, v, val) ==
  LET c == call[p]
  IN CASE v = "ok" -> IF c.op \in {"Buy", "Sell"}
                      THEN Ask(p, [c EXCEPT !.api = "poll", !.no = val])
                      ELSE End(p, [c EXCEPT !.no = val], "accepted")
       [] v = "blank" -> End(p, c, IF c.op = "PlaceTP" THEN "accepted" ELSE "maybe")
       [] Smaller(p, v, val) -> Ask(p, [c EXCEPT !.qty = val, !.again = TRUE])
       [] OTHER -> End(p, c, v)

\* waitFill: how what is known of the order is reported (toFill at Upbit)
Report(p, c) ==
  CASE c.last = c.qty -> End(p, c, "filled")
    [] c.last = 0 -> End(p, c, "unfilled")
    [] OTHER -> End(p, c, "partial")

\* Kiwoom waits for the whole quantity, Upbit for the end of the order
Ends(p, val, over) == IF Kiwoom THEN val = call[p].qty ELSE over

\* waitFill's loop; when the time is up the rest is cancelled
Polled(p, v, val, over) ==
  LET c == IF v = "ok" THEN [call[p] EXCEPT !.last = val, !.seen = TRUE] ELSE call[p]
  IN IF v = "ok" /\ Ends(p, val, over) THEN Report(p, c)
     ELSE \E api \in {"poll", "kill"} : Ask(p, [c EXCEPT !.api = api])

\* waitFill after the cancellation, and after the second look (`blind`, for the
\* properties only: one of the two failed)
\* Mutant: no second look
MutCancelled(p, v) == Report(p, [call[p] EXCEPT !.blind = v # "ok"])

Cancelled(p, v) == Ask(p, [call[p] EXCEPT !.api = "recheck", !.kerr = v # "ok"])

\* Nothing is known to be bought and the rest may still be
KiwoomRechecked(p, c) ==
  IF c.last = 0 /\ c.kerr THEN End(p, c, "maybe") ELSE Report(p, c)

\* Never seen, or seen and neither cancelled nor at its end
UpbitRechecked(p, c, ended) ==
  CASE ~c.seen -> End(p, c, "maybe")
    [] c.seen /\ c.kerr /\ ~ended -> End(p, c, "refused")
    [] OTHER -> Report(p, c)

Rechecked(p, v, val, over) ==
  LET d == [call[p] EXCEPT !.blind = v # "ok" \/ call[p].kerr]
      c == IF v = "ok" THEN [d EXCEPT !.last = val, !.seen = TRUE] ELSE d
  IN IF Kiwoom THEN KiwoomRechecked(p, c) ELSE UpbitRechecked(p, c, v = "ok" /\ over)

\* The call inside the operation returned v
Return(p, v, val, over) ==
  CASE call[p].api = "allow" -> Allowed(p, v, val)
    [] Ordering(p) -> Submitted(p, v, val)
    [] call[p].api \in {"cancel", "query"} -> End(p, call[p], IF v = "ok" THEN "ok" ELSE "refused")
    [] call[p].api = "poll" -> Polled(p, v, val, over)
    [] call[p].api = "kill" -> Cancelled(p, v)
    [] call[p].api = "recheck" -> Rechecked(p, v, val, over)

\* Mutant: four turns
MutAgain(p) ==
  IF call[p].try = 3 THEN Return(p, "refused", 0, FALSE)
  ELSE /\ pc' = [pc EXCEPT ![p] = "send"]
       /\ call' = [call EXCEPT ![p].try = @ + 1, ![p].force = FALSE]

\* The next turn of callPage's loop, which has three
Again(p) ==
  IF call[p].try = 2 THEN Return(p, "refused", 0, FALSE)
  ELSE /\ pc' = [pc EXCEPT ![p] = "send"]
       /\ call' = [call EXCEPT ![p].try = @ + 1, ![p].force = FALSE]

\* An answer (or none) to the request of p
Receive(p, ans, val, over) ==
  IF ans = "8005" /\ ~call[p].renewed
  THEN /\ pc' = [pc EXCEPT ![p] = "file"]
       /\ call' = [call EXCEPT ![p].renewed = TRUE, ![p].force = TRUE]
  ELSE IF Retries(p, ans) THEN Again(p)
  ELSE Return(p, Verdict(p, ans), val, over)

-----------------------------------------------------------------------------
(* Requests.                                                               *)

\* tokenStore.fresh
Fresh(p) == mine[p] # 0 /\ mine[p] \notin old

\* What an operation asks first
FirstApi(op) == CASE op \in {"SubmitBuy", "Buy"} -> "allow"
                  [] op \in {"SubmitSell", "Sell", "PlaceTP"} -> "sell"
                  [] op = "CancelOrder" -> "cancel"
                  [] op = "Query" -> "query"

\* A program starts an operation.  A tool is a process per command.
Begin(p) == \E op \in scen.ops[p] :
  /\ pc[p] = "idle" /\ late[p] = 0
  /\ op # "Query" => left[p] > 0
  /\ left' = [left EXCEPT ![p] = IF op = "Query" THEN @ ELSE @ - 1]
  /\ \E n \in IF op = "CancelOrder" THEN {n \in Nos : orders[n].st # "none"} ELSE {0} :
       Ask(p, [NoCall EXCEPT
         !.op = op, !.no = n, !.qty = IF op \in {"CancelOrder", "Query"} THEN 0 ELSE scen.want,
         !.api = FirstApi(op)])
  /\ sent' = [sent EXCEPT ![p] = {}] /\ torn' = [torn EXCEPT ![p] = FALSE]
  /\ mine' = [mine EXCEPT ![p] = IF p \in scen.tools THEN 0 ELSE @]
  /\ UNCHANGED <<scen, server, file, old, late, faults, rotations, unsaved>>

\* The exchange takes an order, or has not the money or the shares for it
Takes(p, ans, val, over) ==
  /\ Ordering(p) /\ over = FALSE
  /\ \/ /\ Spare(call[p].api) >= call[p].qty /\ Free # {}
        /\ ans = "ok" /\ val = Min(Free)
        /\ Place(p, call[p].api, call[p].qty)
     \/ /\ Spare(call[p].api) < call[p].qty
        /\ ans = (IF call[p].api = "buy" THEN "short" ELSE "4xx") /\ val = Spare(call[p].api)
        /\ UNCHANGED <<orders, sent>>

\* It cancels what is open of an order; there is nothing to cancel twice
Cancels(p, ans, val, over) ==
  /\ call[p].api \in {"cancel", "kill"} /\ val = 0 /\ over = FALSE
  /\ \/ /\ orders[call[p].no].st = "open" /\ ans = "ok"
        /\ orders' = [orders EXCEPT ![call[p].no].st = "cancelled"]
     \/ /\ orders[call[p].no].st # "open" /\ ans = "4xx"
        /\ UNCHANGED orders
  /\ UNCHANGED sent

\* It tells how much can be bought, or what became of an order
Tells(p, ans, val, over) ==
  LET c == call[p]
  IN /\ c.api \in {"allow", "query", "poll", "recheck"} /\ ans = "ok"
     /\ val = CASE c.api = "allow" -> Min({Spare("buy"), c.qty})
                [] c.api \in {"poll", "recheck"} -> orders[c.no].filled
                [] OTHER -> 0
     /\ over = (c.no # 0 /\ orders[c.no].st # "open")
     /\ UNCHANGED <<orders, sent>>

\* The exchange processes the request of p: what it answers, and what it did
Handles(p, ans, val, over) ==
  Takes(p, ans, val, over) \/ Cancels(p, ans, val, over) \/ Tells(p, ans, val, over)

\* What reaches the client in place of the exchange's answer
Spoilt(p, ans) ==
  {"none", "5xx", "garbled"} \cup (IF Ordering(p) /\ ans = "ok" THEN {"blank"} ELSE {})

Ready(p) == pc[p] = "go" \/ (pc[p] = "send" /\ (Kiwoom => Fresh(p)))

\* The request is processed, and its answer comes back, or something else
Served(p) ==
  /\ Ready(p) /\ (Kiwoom => mine[p] = live)
  /\ \E ans \in {"ok", "short", "4xx"}, val \in Qtys \cup Nos, over \in BOOLEAN :
       /\ Handles(p, ans, val, over)
       /\ \/ NoFault /\ Receive(p, ans, val, over) /\ UNCHANGED torn
          \/ \E got \in Spoilt(p, ans) :
               /\ Fault /\ Receive(p, got, 0, over)
               /\ torn' = [torn EXCEPT ![p] = @ \/ (Ordering(p) /\ got = "garbled")
                                                \/ (call[p].op = "PlaceTP" /\ got = "blank")]
  /\ UNCHANGED <<scen, live, file, mine, old, left, late, rotations, unsaved>>

\* The server knows another token
Stranger(p) ==
  /\ Ready(p) /\ Kiwoom /\ mine[p] # live
  /\ NoFault /\ Receive(p, "8005", 0, FALSE)
  /\ UNCHANGED <<scen, server, file, mine, old, left, late, rotations, history>>

\* The request is turned away unprocessed
TurnedAway(p) ==
  /\ Ready(p) /\ Fault
  /\ \E ans \in {"limit", "5xx", "4xx"} : Receive(p, ans, 0, FALSE)
  /\ UNCHANGED <<scen, server, file, mine, old, left, late, rotations, history>>

\* No answer; an order may still be on its way
Lost(p) ==
  /\ Ready(p) /\ Fault
  /\ Receive(p, "none", 0, FALSE)
  /\ \E q \in {0} \cup (IF Ordering(p) THEN {call[p].qty} ELSE {}) :
       late' = [late EXCEPT ![p] = q]
  /\ UNCHANGED <<scen, server, file, mine, old, left, rotations, history>>

\* An order on the wire arrives, or does not
Arrive(p) ==
  /\ late[p] > 0 /\ late' = [late EXCEPT ![p] = 0]
  /\ \/ \E s \in {"buy", "sell"} :
          /\ Free # {} /\ (s = "buy") = (call[p].op \in {"SubmitBuy", "Buy"})
          /\ Spare(s) >= late[p] /\ Place(p, s, late[p])
     \/ UNCHANGED <<orders, sent>>
  /\ UNCHANGED <<scen, live, file, pc, mine, call, left, old, faults, rotations, torn, unsaved>>

-----------------------------------------------------------------------------
(* The token.                                                              *)

\* tokenStore.get, when the token in memory is not fresh or does not serve
NeedToken(p) ==
  /\ pc[p] = "send" /\ Kiwoom /\ ~Fresh(p)
  /\ pc' = [pc EXCEPT ![p] = "file"]
  /\ UNCHANGED <<scen, server, file, mine, call, left, late, old, faults, rotations, history>>

\* Mutant: the file's token is taken even when it is the one that failed
MutAdopts(p) == file # 0 /\ (file \notin old \/ p \notin scen.issues)

\* The token in the file is taken instead of a new one
Adopts(p) ==
  /\ file # 0
  /\ IF call[p].force THEN file # mine[p] ELSE file \notin old \/ p \notin scen.issues

ReadFile(p) ==
  /\ pc[p] = "file"
  /\ \/ /\ Adopts(p) /\ mine' = [mine EXCEPT ![p] = file]
        /\ IF call[p].force THEN Again(p)
           ELSE pc' = [pc EXCEPT ![p] = "go"] /\ UNCHANGED call
     \/ /\ ~Adopts(p) /\ p \in scen.issues
        /\ pc' = [pc EXCEPT ![p] = "issue"] /\ UNCHANGED <<mine, call>>
     \/ /\ ~Adopts(p) /\ p \notin scen.issues
        /\ Return(p, "refused", 0, FALSE) /\ UNCHANGED mine
  /\ UNCHANGED <<scen, server, file, left, late, old, faults, rotations, history>>

\* A token that nobody has
NewToken == Min(Tokens \ ({live, file} \cup {mine[p] : p \in Procs}))

\* The server makes a token and lets the one before go
Issue(p) ==
  /\ pc[p] = "issue"
  /\ \/ /\ NoFault /\ live' = NewToken
        /\ mine' = [mine EXCEPT ![p] = NewToken] /\ old' = old \ {NewToken}
        /\ pc' = [pc EXCEPT ![p] = "save"] /\ UNCHANGED call
     \/ /\ Fault /\ Return(p, "refused", 0, FALSE) /\ UNCHANGED <<live, mine, old>>
  /\ UNCHANGED <<scen, orders, file, left, late, rotations, history>>

Save(p) ==
  /\ pc[p] = "save"
  /\ \/ NoFault /\ file' = mine[p] /\ unsaved' = FALSE
     \/ Fault /\ UNCHANGED file /\ unsaved' = TRUE
  /\ IF call[p].force THEN Again(p)
     ELSE pc' = [pc EXCEPT ![p] = "go"] /\ UNCHANGED call
  /\ UNCHANGED <<scen, server, mine, left, late, old, rotations, sent, torn>>

Works(p) == Served(p) \/ Stranger(p) \/ NeedToken(p) \/ ReadFile(p) \/ Issue(p) \/ Save(p)

Next ==
  \/ Trade \/ Rotate \/ Age
  \/ \E p \in Procs : Begin(p) \/ Works(p) \/ TurnedAway(p) \/ Lost(p) \/ Arrive(p)

Spec == Init /\ [][Next]_vars

\* A program that can take a step does; the daemon's loops query for ever
FairSpec == Spec /\ \A p \in Procs : WF_vars(Works(p)) /\ WF_vars(Begin(p) /\ call'[p].op = "Query")

-----------------------------------------------------------------------------
(* What must hold.                                                         *)

\* Submissions, as their callers see them.  Two answers are not what they
\* should be: one that could not be read is given as a refusal
\* (client.go:151), and PlaceTP takes a missing order number for "no order"
\* (broker.go:413); both have to be read as "maybe".
Submission(p) == call[p].op \notin {"none", "CancelOrder", "Query"}

TrueAnswer == [p \in Procs |->
  LET c == call[p]
  IN IF ~Submission(p) THEN <<"none", 0>>
     ELSE IF c.no # 0 THEN <<"accepted", c.qty>>
     ELSE IF c.told # "none" /\ torn[p] THEN <<"maybe", 0>>
     ELSE IF c.told \in {"refused", "short"} THEN <<"refused", 0>>
     ELSE <<c.told, 0>>]

Sent == [p \in Procs |-> SumFunctionOnSet([n \in Nos |-> orders[n].qty], sent[p])]

\* The drivers keep the promise of OrderCall: no order is sent twice by a
\* retry, a renewed token or the smaller second order of SubmitBuy; what is
\* answered as refused is not at the exchange and will not get there; the
\* quantity answered is the quantity ordered.
Promised == INSTANCE OrderCall WITH
  Callers <- Procs, MaxQty <- Max(Qtys), answer <- TrueAnswer, placed <- Sent
KeepsPromise == Promised!Spec

\* Buy and Sell (waitFill): what is reported as bought or sold is what was,
\* and nothing of the order is left at the exchange; except after a
\* cancellation or a second look that failed, when only "filled" is certain.
SettledTrue == \A p \in Procs :
  LET c == call[p]
      o == orders[c.no]
  IN c.told \in {"filled", "partial", "unfilled"} =>
       \/ o.st # "open" /\ o.filled = c.last
       \/ c.blind /\ c.told # "filled"

\* One program issues tokens: however often the server drops them, each
\* program gets a request through again, one that may not issue too; except
\* while the newest token could not be written (token.go:149), when a program
\* that has only the file is left behind.
Heals == \A p \in Procs :
  []<>(scen.ops[p] = {"Query"} =>
         \/ call[p].told = "ok"
         \/ unsaved /\ p \notin scen.issues)
=============================================================================
