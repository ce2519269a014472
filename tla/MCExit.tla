------------------------------- MODULE MCExit -------------------------------
(* Two lots of one symbol, of two shares and of one: Exit on a small       *)
(* instance.                                                               *)
EXTENDS Exit

CONSTANTS a, b

MCEntryQty == [l \in {a, b} |-> IF l = a THEN 2 ELSE 1]

\* A failed call and a second session are explored one without the other
MCOneKind == (day = 0 /\ session = "open") \/ errs = 0
=============================================================================
