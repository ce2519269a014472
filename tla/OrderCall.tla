----------------------------- MODULE OrderCall -----------------------------
(***************************************************************************)
(* What a broker driver promises its caller for one submission, and what   *)
(* Entry and Exit take for granted of it: the exchange gets at most one    *)
(* order; an answer "accepted" names the quantity of that order; after     *)
(* "refused" there is none, and none will come; only after "maybe"         *)
(* (broker.ErrMaybeSent) is either possible, now or later.                 *)
(***************************************************************************)
EXTENDS Naturals

CONSTANTS Callers, MaxQty

VARIABLES
  answer,  \* what the caller was told of its last submission, and how many shares
  placed   \* shares of the order the exchange took for it (0: none)

vars == <<answer, placed>>

Init ==
  /\ answer = [c \in Callers |-> <<"none", 0>>]
  /\ placed = [c \in Callers |-> 0]

\* The caller asks anew
Ask(c) ==
  /\ answer' = [answer EXCEPT ![c] = <<"none", 0>>]
  /\ placed' = [placed EXCEPT ![c] = 0]

\* The order reaches the exchange: while the caller waits, or after "maybe"
Place(c) ==
  /\ placed[c] = 0 /\ answer[c][1] \in {"none", "maybe"}
  /\ \E q \in 1 .. MaxQty : placed' = [placed EXCEPT ![c] = q]

\* The caller is told: "maybe", "refused", or how many shares were accepted
Tell(c) ==
  /\ answer[c][1] = "none"
  /\ \/ answer' = [answer EXCEPT ![c] = <<"maybe", 0>>]
     \/ placed'[c] = 0 /\ answer' = [answer EXCEPT ![c] = <<"refused", 0>>]
     \/ placed'[c] # 0 /\ answer' = [answer EXCEPT ![c] = <<"accepted", placed'[c]>>]

Next == \E c \in Callers :
  \/ Ask(c)
  \/ Place(c) /\ (UNCHANGED answer \/ Tell(c))
  \/ UNCHANGED placed /\ Tell(c)

Spec == Init /\ [][Next]_vars
=============================================================================
