----------------------------- MODULE IntentLife -----------------------------
(***************************************************************************)
(* What the buy side promises a source about each of its intents, seen     *)
(* from the store and the exchange only, restarts not visible:             *)
(*   idle -> trying -> held -> closed                                      *)
(* A try that bought nothing may fall back to idle and be made again; one  *)
(* that did, or may have, ends in the ledger.  An intent that was closed   *)
(* is never tried again.  The promise has one hole, which has a name: an   *)
(* intent that is forgotten may fall back to idle, or be bought, again.    *)
(***************************************************************************)
EXTENDS Naturals

CONSTANT Intents

VARIABLES
  life,      \* "idle", "trying", "held" or "closed"
  bought,    \* orders the exchange accepted for the intent
  forgotten  \* the intents whose last trace was lost

vars == <<life, bought, forgotten>>

Init ==
  /\ life = [i \in Intents |-> "idle"]
  /\ bought = [i \in Intents |-> 0]
  /\ forgotten = {}

Try(i) ==
  /\ life[i] = "idle"
  /\ bought[i] = 0 \/ i \in forgotten
  /\ life' = [life EXCEPT ![i] = "trying"]
  /\ UNCHANGED <<bought, forgotten>>

Buy(i) ==
  /\ life[i] = "trying"
  /\ bought[i] = 0 \/ i \in forgotten
  /\ bought' = [bought EXCEPT ![i] = @ + 1]
  /\ UNCHANGED <<life, forgotten>>

\* Refused, or dropped by the cockpit with no order accepted
GiveUp(i) ==
  /\ life[i] = "trying"
  /\ bought[i] = 0 \/ i \in forgotten
  /\ life' = [life EXCEPT ![i] = "idle"]
  /\ UNCHANGED <<bought, forgotten>>

Book(i) ==
  /\ life[i] \in {"idle", "trying"}
  /\ life[i] = "idle" => i \in forgotten
  /\ life' = [life EXCEPT ![i] = "held"]
  /\ UNCHANGED <<bought, forgotten>>

Finish(i) ==
  /\ life[i] = "held"
  /\ life' = [life EXCEPT ![i] = "closed"]
  /\ UNCHANGED <<bought, forgotten>>

\* The trace of some intents is lost; those being tried may look idle then
Forget ==
  /\ \E S \in SUBSET Intents : S # {} /\ forgotten' = forgotten \cup S
  /\ life' \in {life} \cup {[life EXCEPT ![i] = "idle"] : i \in {j \in forgotten' : life[j] = "trying"}}
  /\ UNCHANGED bought

Next == Forget \/ \E i \in Intents : Try(i) \/ Buy(i) \/ GiveUp(i) \/ Book(i) \/ Finish(i)

Spec == Init /\ [][Next]_vars

=============================================================================
