------------------------------- MODULE MCPlan -------------------------------
(* Plan on a small instance: a day book with a stock and a coin and a      *)
(* night book with a stock.                                                *)
EXTENDS Plan

CONSTANTS d1, c1, n1

MCDayBook   == [kid |-> "k1", scope |-> "day"]
MCSwingBook == [kid |-> "k1", scope |-> "swing"]

MCSourceOrder == <<MCDayBook, MCSwingBook>>
MCTargets == [s \in {MCDayBook, MCSwingBook} |-> IF s = MCDayBook THEN <<d1, c1>> ELSE <<n1>>]
MCWants == [i \in {d1, c1, n1} |-> IF i = d1 THEN {4} ELSE IF i = c1 THEN {2} ELSE {None, 2, 0}]
MCExchange == [i \in {d1, c1, n1} |-> IF i = c1 THEN "UPBIT" ELSE "KRX"]
MCPrice == [i \in {d1, c1, n1} |-> 10]
MCWeight == [i \in {d1, c1, n1} |-> 10]
MCDue == [i \in {d1, c1, n1} |-> IF i = d1 THEN 0 ELSE 1]
MCShared(hold) == [hold |-> hold, on |-> TRUE, seed |-> 0, pct |-> 0, share |-> 1, weight |-> 0,
                   maxQty |-> 0]
MCBook == [s \in {MCDayBook, MCSwingBook} |-> MCShared(IF s = MCDayBook THEN "day" ELSE "carry")]
MCBars == {{}, {n1}}

\* New numbers, old lots and a second day are explored one without the other, the former two
\* without the day book and with the same allocation; the second day comes with a file, and
\* its own allocation is of less; a file is that of the allocation in force
MCOneKind ==
  LET old == lot[n1].qty > 0 /\ lot[n1].kid = ""
  IN  /\ number[n1] = 1 \/ old => /\ day = 0 /\ snap[MCDayBook] = <<>>
                                 /\ capital = 80 /\ saved = 80
      /\ ~(number[n1] = 1 /\ old)
      /\ capital \in IF sharesOf = 0 THEN {0, 80} ELSE {40}
      /\ saved \in IF day = 0 THEN {0, capital} ELSE {capital}
=============================================================================
