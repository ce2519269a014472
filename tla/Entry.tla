------------------------------- MODULE Entry -------------------------------
(***************************************************************************)
(* The buy side of the executor (internal/executor) of the cockpit daemon: *)
(* how a target becomes one accepted buy order, and a lot in the ledger.   *)
(*                                                                         *)
(* One goroutine (runLoop) runs the executor, so its work is sequential:   *)
(* `pc` says where it stands.  What comes between two of its steps is      *)
(* what the code does not control: targets arriving over HTTP, the         *)
(* exchange filling or killing orders, the clock, and the process being    *)
(* killed.  Every write to the store (SQLite, one transaction a call) and  *)
(* every call to the broker is a step of its own, since the process can    *)
(* die between any two of them.                                            *)
(*                                                                         *)
(* The ledger rows of RecordOrder (history for people and for the uplink)  *)
(* are left out here: nothing on the buy side reads them back.             *)
(***************************************************************************)
EXTENDS Naturals, FiniteSets

CONSTANTS
  Intents,      \* the intent ids of the targets
  NoIntent,     \* owner of an attempt that was not made
  MaxAttempts,  \* bound: submissions of a buy over the whole run
  Qty,          \* shares of one buy order, in lots
  MaxCrashes,   \* bound: times the process is killed
  MaxErrs       \* bound: failed store writes and reads, failed broker queries

ASSUME EntryAssumption ==
  /\ NoIntent \notin Intents
  /\ MaxAttempts \in Nat
  /\ Qty \in Nat \ {0}
  /\ MaxCrashes \in Nat
  /\ MaxErrs \in Nat

\* An attempt is one pass of doEnter that reached the journal.  Its number
\* stands for the temporary id of its row and for the broker's order number.
Attempts == 1 .. MaxAttempts

VARIABLES
  (* the store: survives a crash *)
  row,       \* intents table: "none", "open" or "closed" (closed_at)
  qty,       \* intents.qty
  made,      \* attempts journalled so far
  owner,     \* the intent of an attempt (payload of working_orders)
  jour,      \* working_orders: "none", "pre" (Unconfirmed), "open", "done"
  (* the exchange *)
  exch,      \* "none" (never accepted), "live" or "dead"
  filled,    \* shares filled
  due,       \* attempts whose entry deadline has passed
  unlisted,  \* accepted orders the broker's queries leave out (Known = FALSE)
  (* the engine and the executor's memory: lost in a crash *)
  wanted,    \* intents some target asks to open
  terminal,  \* Engine.terminal
  short,     \* Engine.short: the account had no money for it
  lot,       \* Engine.positions: "none", "pending" or "held"
  work,      \* Executor.work: accepted orders being followed
  loaded,    \* Executor.loaded
  (* where the executor's goroutine stands *)
  pc,        \* the step it is about to take
  after,     \* what follows the polling: "plan" or "idle"
  todo,      \* unconfirmed rows still to resolve, or orders still to poll
  enters,    \* planned entries still to submit
  placed,    \* orders accepted in this tick
  cur,       \* the attempt in hand (0: none)
  seen,      \* the fill the last LimitStatus gave for cur
  outcome,   \* of the submission in hand: "none" (not known, or accepted),
             \* "rejected", "short", "maybe" (ErrMaybeSent), or "restart"
             \* (ErrMaybeSent made up by resolveUnconfirmed)
  (* budgets *)
  crashes, errs,
  (* history, read by no action *)
  exposed,   \* intents whose last durable trace was lost or not read
  unsure     \* intents whose fill the cockpit could not learn or write

store    == <<row, qty, made, owner, jour>>
exchange == <<exch, filled, due, unlisted>>
engine   == <<wanted, terminal, short, lot>>
memory   == <<work, loaded>>
hand     == <<cur, seen, outcome>>
agenda   == <<after, todo, enters, placed>>
history  == <<exposed, unsure>>
loop     == <<pc, hand, agenda>>
vars     == <<store, exchange, engine, memory, loop, crashes, errs, history>>

PCs == {"down", "idle", "load", "resolve", "poll", "cancel", "recheck", "requery",
        "finUpsert", "finClose", "finDone", "plan", "enter", "submit", "confirm",
        "unjournal", "lostUpsert", "lostClose"}

TypeStore ==
  /\ row \in [Intents -> {"none", "open", "closed"}]
  /\ qty \in [Intents -> 0 .. Qty]
  /\ made \in 0 .. MaxAttempts
  /\ owner \in [Attempts -> Intents \cup {NoIntent}]
  /\ jour \in [Attempts -> {"none", "pre", "open", "done"}]

TypeExchange ==
  /\ exch \in [Attempts -> {"none", "live", "dead"}]
  /\ filled \in [Attempts -> 0 .. Qty]
  /\ due \subseteq Attempts /\ unlisted \subseteq Attempts

TypeMemory ==
  /\ wanted \subseteq Intents /\ terminal \subseteq Intents /\ short \subseteq Intents
  /\ lot \in [Intents -> {"none", "pending", "held"}]
  /\ work \subseteq Attempts /\ loaded \in BOOLEAN

TypeLoop ==
  /\ pc \in PCs /\ after \in {"plan", "idle"}
  /\ todo \subseteq Attempts /\ placed \subseteq Attempts /\ enters \subseteq Intents
  /\ cur \in 0 .. MaxAttempts /\ seen \in 0 .. Qty
  /\ outcome \in {"none", "rejected", "short", "maybe", "restart"}
  /\ crashes \in 0 .. MaxCrashes /\ errs \in 0 .. MaxErrs
  /\ exposed \subseteq Intents /\ unsure \subseteq Intents

TypeOK == TypeStore /\ TypeExchange /\ TypeMemory /\ TypeLoop

-----------------------------------------------------------------------------
(* What the code reads.                                                    *)

\* Executor.isWorking
Working(i) == \E n \in work : owner[n] = i

\* The rows OpenWorking returns: done_at IS NULL
OpenRows == {n \in Attempts : jour[n] \in {"pre", "open"}}

Accepted(i) == {n \in Attempts : owner[n] = i /\ exch[n] # "none"}

\* The intent the goroutine is working for
Mine == owner[cur]

\* A store or broker call that fails, and one that does not
Fails == errs < MaxErrs /\ errs' = errs + 1
Works == UNCHANGED errs

-----------------------------------------------------------------------------
(* The process: killed at any point, and started again.                    *)

Init ==
  /\ row = [i \in Intents |-> "none"] /\ qty = [i \in Intents |-> 0]
  /\ made = 0
  /\ owner = [n \in Attempts |-> NoIntent] /\ jour = [n \in Attempts |-> "none"]
  /\ exch = [n \in Attempts |-> "none"] /\ filled = [n \in Attempts |-> 0]
  /\ due = {} /\ unlisted = {}
  /\ wanted = {} /\ terminal = {} /\ short = {}
  /\ lot = [i \in Intents |-> "none"]
  /\ work = {} /\ loaded = FALSE
  /\ pc = "down" /\ after = "idle"
  /\ todo = {} /\ enters = {} /\ placed = {}
  /\ cur = 0 /\ seen = 0 /\ outcome = "none"
  /\ crashes = 0 /\ errs = 0
  /\ exposed = {} /\ unsure = {}

MutStartForgetsClosed ==
  /\ pc = "down" /\ pc' = "idle"
  /\ terminal' = {}
  /\ lot' = [i \in Intents |-> IF row[i] = "open" THEN "held" ELSE "none"]
  /\ UNCHANGED <<store, exchange, wanted, short, memory, hand, agenda, crashes, errs, history>>

\* Engine.Restore: closed intents are terminal again, open ones are lots again.
\* A failed read ends the start, so there is no half-restored engine.
Start ==
  /\ pc = "down" /\ pc' = "idle"
  /\ terminal' = {i \in Intents : row[i] = "closed"}
  /\ lot' = [i \in Intents |-> IF row[i] = "open" THEN "held" ELSE "none"]
  /\ UNCHANGED <<store, exchange, wanted, short, memory, hand, agenda, crashes, errs, history>>

\* The only point where an order the exchange may hold has no trace in the
\* store by design: the temporary row is closed, the intent not yet written.
InWindow(i) == pc = "lostUpsert" /\ outcome = "maybe" /\ Mine = i /\ row[i] = "none"

\* Power loss, kill, or the supervisor's restart.  A stop by signal is the same
\* thing for the store: it cancels the context all later calls run under.
Crash ==
  /\ pc # "down" /\ crashes < MaxCrashes
  /\ crashes' = crashes + 1
  /\ exposed' = exposed \cup {i \in Intents : InWindow(i)}
  /\ wanted' = {} /\ terminal' = {} /\ short' = {}
  /\ lot' = [i \in Intents |-> "none"]
  /\ work' = {} /\ loaded' = FALSE
  /\ pc' = "down" /\ after' = "idle"
  /\ todo' = {} /\ enters' = {} /\ placed' = {}
  /\ cur' = 0 /\ seen' = 0 /\ outcome' = "none"
  /\ UNCHANGED <<store, exchange, errs, unsure>>

-----------------------------------------------------------------------------
(* The world around the goroutine.                                         *)

\* Engine.Apply: a source sends a target that asks to open i, or one that
\* does not any more.
Deliver(i) ==
  /\ pc # "down"
  /\ wanted' \in {wanted \cup {i}, wanted \ {i}} /\ wanted' # wanted
  /\ UNCHANGED <<store, exchange, terminal, short, lot, memory, loop, crashes, errs, history>>

\* NoteShort's time is over
ShortExpires(i) ==
  /\ i \in short /\ short' = short \ {i}
  /\ UNCHANGED <<store, exchange, wanted, terminal, lot, memory, loop, crashes, errs, history>>

FillOrder(n) ==
  /\ exch[n] = "live" /\ filled[n] < Qty
  /\ filled' = [filled EXCEPT ![n] = @ + 1]
  /\ exch' = [exch EXCEPT ![n] = IF filled[n] + 1 = Qty THEN "dead" ELSE @]
  /\ UNCHANGED <<store, due, unlisted, engine, memory, loop, crashes, errs, history>>

\* The exchange ends the order (end of the session, or the user's own cancel)
KillOrder(n) ==
  /\ exch[n] = "live" /\ exch' = [exch EXCEPT ![n] = "dead"]
  /\ UNCHANGED <<store, filled, due, unlisted, engine, memory, loop, crashes, errs, history>>

\* The order's deadline passes, outside a call auction
DeadlinePass(n) ==
  /\ exch[n] # "none" /\ n \notin due /\ due' = due \cup {n}
  /\ UNCHANGED <<store, exch, filled, unlisted, engine, memory, loop, crashes, errs, history>>

\* The broker leaves an order out of its answers, or lists it again: Kiwoom's list of
\* today's fills need not have a row of it.  Nothing bounds how often, or for how long.
\* It matters for the orders the cockpit asks about only.
Relist(n) ==
  /\ n \in work
  /\ unlisted' \in {unlisted \cup {n}, unlisted \ {n}} /\ unlisted' # unlisted
  /\ UNCHANGED <<store, exch, filled, due, engine, memory, loop, crashes, errs, history>>

-----------------------------------------------------------------------------
(* A tick, or a pass of the fast poll.                                     *)

\* Back at step p with nothing in hand
Return(p) == pc' = p /\ cur' = 0 /\ seen' = 0 /\ outcome' = "none"

\* runLoop: a tick (periodic or woken), or PollWorking when orders are working
Begin ==
  /\ pc = "idle" /\ pc' = "load"
  /\ \/ after' = "plan"
     \/ work # {} /\ after' = "idle"
  /\ UNCHANGED <<store, exchange, engine, memory, hand, todo, enters, placed,
                 crashes, errs, history>>

MutLoadConfirmedOnly ==
  /\ pc = "load" /\ ~loaded /\ Works
  /\ loaded' = TRUE
  /\ work' = work \cup {n \in Attempts : jour[n] = "open"}
  /\ lot' = [i \in Intents |->
               IF \E n \in Attempts : jour[n] = "open" /\ owner[n] = i THEN "pending" ELSE lot[i]]
  /\ todo' = {}
  /\ pc' = "resolve"
  /\ UNCHANGED <<store, exchange, wanted, terminal, short, hand, after, enters, placed,
                 crashes, history>>

\* ensureLoaded, the first time: accepted orders are followed again and their
\* targets get pending lots; rows without an answer are left to Resolve
Load ==
  /\ pc = "load" /\ ~loaded /\ Works
  /\ loaded' = TRUE
  /\ work' = work \cup {n \in Attempts : jour[n] = "open"}
  /\ lot' = [i \in Intents |->
               IF \E n \in Attempts : jour[n] = "open" /\ owner[n] = i THEN "pending" ELSE lot[i]]
  /\ todo' = {n \in Attempts : jour[n] = "pre"}
  /\ pc' = "resolve"
  /\ UNCHANGED <<store, exchange, wanted, terminal, short, hand, after, enters, placed,
                 crashes, history>>

\* OpenWorking failed: ensureLoaded reports it and returns, and the tick goes on
LoadFails ==
  /\ pc = "load" /\ ~loaded /\ Fails
  /\ todo' = work /\ pc' = "poll"
  /\ exposed' = exposed \cup {i \in Intents : row[i] = "none" /\ \E n \in OpenRows : owner[n] = i}
  /\ UNCHANGED <<store, exchange, engine, memory, hand, after, enters, placed,
                 crashes, unsure>>

Loaded ==
  /\ pc = "load" /\ loaded
  /\ todo' = work /\ pc' = "poll"
  /\ UNCHANGED <<store, exchange, engine, memory, hand, after, enters, placed,
                 crashes, errs, history>>

\* resolveUnconfirmed of one row: buyFailed with ErrMaybeSent, then unjournal
Resolve(n) ==
  /\ pc = "resolve" /\ n \in todo
  /\ todo' = todo \ {n} /\ cur' = n /\ outcome' = "restart" /\ pc' = "lostUpsert"
  /\ unsure' = unsure \cup {owner[n]}
  /\ UNCHANGED <<store, exchange, engine, memory, seen, after, enters, placed,
                 crashes, errs, exposed>>

Resolved ==
  /\ pc = "resolve" /\ todo = {}
  /\ todo' = work /\ pc' = "poll"
  /\ UNCHANGED <<store, exchange, engine, memory, hand, after, enters, placed,
                 crashes, errs, history>>

-----------------------------------------------------------------------------
(* Polling an accepted order (pollOne), and settling it once it is over.   *)

\* The shares LimitStatus answers: of an order that is not listed, none
Shown(n) == IF n \in unlisted THEN 0 ELSE filled[n]

MutOver(n) == Shown(n) = Qty

\* What pollOne and cancelAndRecheck take as the end of an order: an answer that does
\* not list it is neither an end nor an error
Over(n) == n \notin unlisted /\ (exch[n] = "dead" \/ filled[n] = Qty)

\* LimitStatus failed: a failed query is not "nothing filled"
PollFails(n) ==
  /\ pc = "poll" /\ n \in todo /\ Fails
  /\ todo' = todo \ {n}
  /\ UNCHANGED <<store, exchange, engine, memory, pc, hand, after, enters, placed,
                 crashes, history>>

\* Not over, and not past its deadline: asked again by the next poll
PollWaits(n) ==
  /\ pc = "poll" /\ n \in todo /\ Works
  /\ n \in work => ~Over(n) /\ n \notin due
  /\ todo' = todo \ {n}
  /\ UNCHANGED <<store, exchange, engine, memory, pc, hand, after, enters, placed,
                 crashes, history>>

\* Over: settle it; past its deadline, listed or not: cancel what is left first
PollEnds(n) ==
  /\ pc = "poll" /\ n \in todo \cap work /\ Works
  /\ Over(n) \/ n \in due
  /\ todo' = todo \ {n} /\ cur' = n /\ seen' = Shown(n)
  /\ pc' = IF Over(n) THEN "finUpsert" ELSE "cancel"
  /\ UNCHANGED <<store, exchange, engine, memory, outcome, after, enters, placed,
                 crashes, history>>

PollsDone ==
  /\ pc = "poll" /\ todo = {} /\ pc' = after
  /\ UNCHANGED <<store, exchange, engine, memory, hand, agenda, crashes, errs, history>>

\* CancelOrder answered: what is left of the order is dead
Cancel ==
  /\ pc = "cancel" /\ exch[cur] = "live" /\ Works
  /\ exch' = [exch EXCEPT ![cur] = "dead"] /\ pc' = "recheck"
  /\ UNCHANGED <<store, filled, due, unlisted, engine, memory, hand, agenda, crashes, history>>

\* The broker refuses to cancel an order that is already over
CancelTooLate ==
  /\ pc = "cancel" /\ exch[cur] = "dead" /\ Works /\ pc' = "requery"
  /\ UNCHANGED <<store, exchange, engine, memory, hand, agenda, crashes, history>>

\* No answer: the cancel may have reached the exchange or not
CancelFails ==
  /\ pc = "cancel" /\ Fails /\ pc' = "requery"
  /\ exch' \in {exch, [exch EXCEPT ![cur] = "dead"]}
  /\ UNCHANGED <<store, filled, due, unlisted, engine, memory, hand, agenda, crashes, history>>

MutRecheckSkipped ==
  /\ pc = "recheck" /\ Works
  /\ pc' = "finUpsert"
  /\ UNCHANGED <<store, exchange, engine, memory, hand, agenda, crashes, history>>

\* After a cancel: the fill is asked again, and the answer taken whatever it says, the
\* nothing of an answer that does not list the order included
Recheck ==
  /\ pc = "recheck" /\ Works
  /\ seen' = Shown(cur) /\ pc' = "finUpsert"
  /\ unsure' = IF cur \in unlisted THEN unsure \cup {Mine} ELSE unsure
  /\ UNCHANGED <<store, exchange, engine, memory, cur, outcome, agenda, crashes, exposed>>

\* The query fails, and the fill of before the cancel stands
RecheckFails ==
  /\ pc = "recheck" /\ Fails
  /\ pc' = "finUpsert" /\ unsure' = unsure \cup {Mine}
  /\ UNCHANGED <<store, exchange, engine, memory, hand, agenda, crashes, exposed>>

\* After a failed cancel: over after all, or followed on.  An order that is over but not
\* listed comes back here at every poll.
Requery ==
  /\ pc = "requery" /\ Works
  /\ IF Over(cur) THEN /\ seen' = Shown(cur) /\ pc' = "finUpsert" /\ UNCHANGED <<cur, outcome>>
                  ELSE Return("poll")
  /\ UNCHANGED <<store, exchange, engine, memory, agenda, crashes, history>>

RequeryFails ==
  /\ pc = "requery" /\ Fails /\ Return("poll")
  /\ UNCHANGED <<store, exchange, engine, memory, agenda, crashes, history>>

MutUpsertAdds(i, q) ==
  /\ row' = [row EXCEPT ![i] = IF @ = "none" THEN "open" ELSE @]
  /\ qty' = [qty EXCEPT ![i] = @ + q]

\* UpsertIntent: quantities are overwritten, a closed intent stays closed
Upsert(i, q) ==
  /\ row' = [row EXCEPT ![i] = IF @ = "none" THEN "open" ELSE @]
  /\ qty' = [qty EXCEPT ![i] = q]

\* CloseIntent
Close(i) == row' = [row EXCEPT ![i] = "closed"] /\ UNCHANGED qty

\* Engine.MarkClosed
MarkClosed(i) == terminal' = terminal \cup {i} /\ lot' = [lot EXCEPT ![i] = "none"]

\* finishEnter, or finishWorkingEntry of an order that filled nothing: the
\* intent is written.  A failed write is reported and the work goes on.
FinUpsert ==
  /\ pc = "finUpsert"
  /\ \/ Works /\ Upsert(Mine, seen) /\ UNCHANGED unsure
     \/ Fails /\ UNCHANGED <<row, qty>> /\ unsure' = unsure \cup {Mine}
  /\ IF seen > 0
       THEN /\ lot' = [lot EXCEPT ![Mine] = "held"] /\ UNCHANGED terminal
            /\ pc' = "finDone"
       ELSE IF errs' = errs
       THEN UNCHANGED <<lot, terminal>> /\ pc' = "finClose"
       ELSE MarkClosed(Mine) /\ pc' = "finDone"
  /\ UNCHANGED <<made, owner, jour, exchange, wanted, short, memory, hand, agenda,
                 crashes, exposed>>

\* CloseIntent "unfilled", and the pending lot goes
FinClose ==
  /\ pc = "finClose"
  /\ \/ Works /\ Close(Mine)
     \/ Fails /\ UNCHANGED <<row, qty>>
  /\ MarkClosed(Mine) /\ pc' = "finDone"
  /\ UNCHANGED <<made, owner, jour, exchange, wanted, short, memory, hand, agenda,
                 crashes, history>>

\* FinishWorking of the order's row, and it is followed no more.  A row still
\* "pre" (ConfirmWorking failed) is not the one FinishWorking updates.
FinDone ==
  /\ pc = "finDone"
  /\ \/ /\ Works
        /\ jour' = [jour EXCEPT ![cur] = IF @ = "open" THEN "done" ELSE @]
        /\ exposed' = IF row[Mine] = "none" /\ jour[cur] = "open"
                        THEN exposed \cup {Mine} ELSE exposed
     \/ Fails /\ UNCHANGED <<jour, exposed>>
  /\ work' = work \ {cur} /\ Return("poll")
  /\ UNCHANGED <<row, qty, made, owner, exchange, engine, loaded, agenda, crashes, unsure>>

-----------------------------------------------------------------------------
(* Between the polling and the plan: what the store and the holdings say,  *)
(* and the exits, of which the end is all that matters here.               *)

\* syncPositions: an open row whose shares are there is a lot
SyncAdopt(i) ==
  /\ pc = "plan" /\ row[i] = "open" /\ ~Working(i) /\ lot[i] # "held"
  /\ lot' = [lot EXCEPT ![i] = "held"]
  /\ UNCHANGED <<store, exchange, wanted, terminal, short, memory, loop, crashes, errs, history>>

\* A lot sold in full, or found sold: CloseIntent, then MarkClosed
CloseLot(i) ==
  /\ pc = "plan" /\ row[i] = "open" /\ ~Working(i)
  /\ Close(i) /\ MarkClosed(i)
  /\ UNCHANGED <<made, owner, jour, exchange, wanted, short, memory, loop, crashes, errs, history>>

-----------------------------------------------------------------------------
(* The plan, and the entries it lists (doEnter).                           *)

\* reconcile.Build, of one target: not held, not over, not short of money.
\* Whatever else may hold an entry back (pause, budget, session) is the
\* choice of a subset in MakePlan.
Candidates == {i \in wanted : lot[i] = "none" /\ i \notin terminal /\ i \notin short}

\* Engine.Plan is a snapshot: what arrives from here on waits for the next
MakePlan ==
  /\ pc = "plan" /\ pc' = "enter"
  /\ enters' \in SUBSET Candidates
  /\ placed' = {}
  /\ UNCHANGED <<store, exchange, engine, memory, hand, after, todo, crashes, errs, history>>

\* doEnter returns early: already working, too late, out of session, status
\* or price guard
Skip(i) ==
  /\ pc = "enter" /\ i \in enters
  /\ enters' = enters \ {i}
  /\ UNCHANGED <<store, exchange, engine, memory, pc, hand, after, todo, placed,
                 crashes, errs, history>>

MutSubmitFirst(i) ==
  /\ pc = "enter" /\ i \in enters /\ ~Working(i) /\ made < MaxAttempts /\ Works
  /\ made' = made + 1 /\ cur' = made + 1
  /\ owner' = [owner EXCEPT ![made + 1] = i]
  /\ UNCHANGED jour
  /\ enters' = enters \ {i} /\ pc' = "submit"
  /\ UNCHANGED <<row, qty, exchange, engine, memory, seen, outcome, after, todo, placed,
                 crashes, history>>

\* journal: the row of the submission, before it is made
Journal(i) ==
  /\ pc = "enter" /\ i \in enters /\ ~Working(i) /\ made < MaxAttempts /\ Works
  /\ made' = made + 1 /\ cur' = made + 1
  /\ owner' = [owner EXCEPT ![made + 1] = i]
  /\ jour' = [jour EXCEPT ![made + 1] = "pre"]
  /\ enters' = enters \ {i} /\ pc' = "submit"
  /\ UNCHANGED <<row, qty, exchange, engine, memory, seen, outcome, after, todo, placed,
                 crashes, history>>

\* "without a record, no buy"
JournalFails(i) ==
  /\ pc = "enter" /\ i \in enters /\ ~Working(i) /\ Fails
  /\ enters' = enters \ {i}
  /\ UNCHANGED <<store, exchange, engine, memory, pc, hand, after, todo, placed,
                 crashes, history>>

\* SubmitBuy: accepted and answered
SubmitAccepted ==
  /\ pc = "submit" /\ exch' = [exch EXCEPT ![cur] = "live"] /\ pc' = "confirm"
  /\ UNCHANGED <<store, filled, due, unlisted, engine, memory, hand, agenda, crashes, errs, history>>

\* SubmitBuy: refused, or the account's money buys no share (ErrInsufficient)
SubmitRefused ==
  /\ pc = "submit" /\ outcome' \in {"rejected", "short"} /\ pc' = "unjournal"
  /\ UNCHANGED <<store, exchange, engine, memory, cur, seen, agenda, crashes, errs, history>>

\* SubmitBuy: ErrMaybeSent, the exchange has the order or not
SubmitMaybe ==
  /\ pc = "submit" /\ outcome' = "maybe" /\ pc' = "unjournal"
  /\ exch' \in {exch, [exch EXCEPT ![cur] = "live"]}
  /\ unsure' = unsure \cup {Mine}
  /\ UNCHANGED <<store, filled, due, unlisted, engine, memory, cur, seen, agenda, crashes, errs, exposed>>

\* track and pendingLot.  A failed write is reported; the order is followed.
Confirm ==
  /\ pc = "confirm"
  /\ \/ Works /\ jour' = [jour EXCEPT ![cur] = "open"]
     \/ Fails /\ UNCHANGED jour
  /\ work' = work \cup {cur} /\ placed' = placed \cup {cur}
  /\ lot' = [lot EXCEPT ![Mine] = "pending"]
  /\ Return("enter")
  /\ UNCHANGED <<row, qty, made, owner, exchange, wanted, terminal, short, loaded,
                 after, todo, enters, crashes, history>>

\* unjournal: the temporary row is closed.  After a submission that comes
\* before buyFailed, after a restart it comes last.
Unjournal ==
  /\ pc = "unjournal"
  /\ \/ /\ Works
        /\ jour' = [jour EXCEPT ![cur] = IF @ = "pre" THEN "done" ELSE @]
        /\ exposed' = IF outcome = "restart" /\ row[Mine] = "none"
                        THEN exposed \cup {Mine} ELSE exposed
     \/ Fails /\ UNCHANGED <<jour, exposed>>
  /\ short' = IF outcome = "short" THEN short \cup {Mine} ELSE short
  /\ CASE outcome = "restart" -> Return("resolve")
       [] outcome = "maybe" -> pc' = "lostUpsert" /\ UNCHANGED hand
       [] OTHER -> Return("enter")
  /\ UNCHANGED <<row, qty, made, owner, exchange, wanted, terminal, lot, memory, agenda,
                 crashes, unsure>>

AfterLost ==
  IF outcome = "restart" THEN pc' = "unjournal" /\ UNCHANGED hand ELSE Return("enter")

\* buyFailed, result unknown: the intent is written without shares, to be
\* closed at once.  When the write fails only the engine's memory knows.
LostUpsert ==
  /\ pc = "lostUpsert"
  /\ \/ /\ Works /\ Upsert(Mine, 0) /\ pc' = "lostClose"
        /\ UNCHANGED <<hand, terminal, lot, exposed>>
     \/ /\ Fails /\ MarkClosed(Mine) /\ AfterLost
        /\ exposed' = exposed \cup {i \in Intents : InWindow(i)}
        /\ UNCHANGED <<row, qty>>
  /\ UNCHANGED <<made, owner, jour, exchange, wanted, short, memory, agenda, crashes, unsure>>

\* CloseIntent "unknown": its error is dropped
LostClose ==
  /\ pc = "lostClose"
  /\ \/ Works /\ Close(Mine)
     \/ Fails /\ UNCHANGED <<row, qty>>
  /\ MarkClosed(Mine) /\ AfterLost
  /\ UNCHANGED <<made, owner, jour, exchange, wanted, short, memory, agenda, crashes, history>>

\* The entries are out: pollPlaced asks once for each order of this tick
EntersDone ==
  /\ pc = "enter" /\ enters = {} /\ pc' = "poll" /\ after' = "idle"
  /\ todo' = placed /\ placed' = {}
  /\ UNCHANGED <<store, exchange, engine, memory, hand, enters, crashes, errs, history>>

-----------------------------------------------------------------------------
Restarting == Begin \/ Load \/ LoadFails \/ Loaded \/ Resolved
                \/ \E n \in Attempts : Resolve(n)

Asking == \/ \E n \in Attempts : PollFails(n) \/ PollWaits(n) \/ PollEnds(n)
          \/ PollsDone \/ Cancel \/ CancelTooLate \/ CancelFails
          \/ Recheck \/ RecheckFails \/ Requery \/ RequeryFails

Booking == FinUpsert \/ FinClose \/ FinDone

Planning == \/ MakePlan \/ EntersDone
            \/ \E i \in Intents : Skip(i) \/ Journal(i) \/ JournalFails(i)

Submitting == SubmitAccepted \/ SubmitRefused \/ SubmitMaybe \/ Confirm

Losing == Unjournal \/ LostUpsert \/ LostClose

Lots == \E i \in Intents : SyncAdopt(i) \/ CloseLot(i)

World == \/ \E i \in Intents : Deliver(i) \/ ShortExpires(i)
         \/ \E n \in Attempts : FillOrder(n) \/ KillOrder(n) \/ DeadlinePass(n) \/ Relist(n)

Loop == Start \/ Restarting \/ Asking \/ Booking \/ Planning \/ Submitting \/ Losing

Next == Loop \/ Lots \/ World \/ Crash

Spec == Init /\ [][Next]_vars

\* The goroutine is never left waiting, a stopped process is started again (the
\* supervisor's task), and clocks advance.  Nothing makes the broker list an order.
Fairness == /\ WF_vars(Loop)
            /\ \A n \in Attempts : WF_vars(DeadlinePass(n))

FairSpec == Spec /\ Fairness

-----------------------------------------------------------------------------
(* Properties.                                                             *)

\* An intent is bought at most once, whatever dies or fails between whichever
\* two steps, unless its last durable trace was lost or could not be read
\* (journal, buyFailed, resolveUnconfirmed).
NoRebuy ==
  \A m, n \in Attempts :
    (exch[m] # "none" /\ exch[n] # "none" /\ owner[m] = owner[n] /\ owner[m] \notin exposed) => m = n

\* What the journal is for: an intent is bought at most once, restarts included.
BoughtOnce ==
  \A m, n \in Attempts :
    (exch[m] # "none" /\ exch[n] # "none" /\ owner[m] = owner[n]) => m = n

\* When the cockpit is done with an accepted order, the order can fill no more
\* and the ledger holds exactly what it filled, unless some answer or write on
\* the way was lost (pollOne, cancelAndRecheck, finishWorkingEntry).
Booked ==
  \A n \in Attempts :
    (jour[n] = "done" /\ exch[n] # "none" /\ owner[n] \notin unsure \cup exposed) =>
       /\ exch[n] = "dead" /\ row[owner[n]] # "none" /\ qty[owner[n]] = filled[n]

\* No buy is submitted for an intent the ledger has closed, restart or not
\* (CloseIntent, TerminalIntents, MarkClosed, the plan's snapshot).
ClosedNeverBought ==
  [][\A n \in Attempts : exch[n] = "none" /\ exch'[n] # "none" => row[owner[n]] # "closed"]_vars

\* An order the broker lists from some time on is not followed for ever: it is settled in
\* the ledger, or is out of the cockpit's sight after a restart that read the journal
\* (pollOne, cancelAndRecheck).  Of an order left out of the broker's answers again and
\* again the code promises nothing: it asks, cancels, and asks on.
Settled ==
  \A n \in Attempts :
    <>[](n \notin unlisted) => (n \in work ~> (loaded /\ n \notin work))

\* The promise of IntentLife, restarts and failures included.
life == [i \in Intents |->
  CASE row[i] = "closed" -> "closed"
    [] row[i] = "open" -> "held"
    [] OTHER -> IF InWindow(i) \/ \E n \in OpenRows : owner[n] = i THEN "trying" ELSE "idle"]

Life == INSTANCE IntentLife WITH
  life <- life, bought <- [i \in Intents |-> Cardinality(Accepted(i))], forgotten <- exposed

KeepsPromise == Life!Spec

-----------------------------------------------------------------------------
(* Why NoRebuy holds: an invariant that every step keeps.                  *)

HandPCs == {"cancel", "recheck", "requery", "finUpsert", "finClose", "finDone",
           "submit", "confirm", "unjournal", "lostUpsert", "lostClose"}
LosingPCs == {"unjournal", "lostUpsert", "lostClose"}
SettlingPCs == {"cancel", "recheck", "requery", "finUpsert", "finClose", "finDone"}

\* Attempts are numbered in the order they are journalled
Numbered ==
  /\ \A n \in Attempts : owner[n] \in Intents <=> n <= made
  /\ \A n \in Attempts : (exch[n] # "none" \/ jour[n] # "none" \/ n \in todo) => n <= made
  /\ pc \in HandPCs => cur \in Attempts /\ cur <= made

\* What is followed was accepted, and a dead process follows nothing
Followed ==
  /\ pc = "down" => work = {} /\ ~loaded
  /\ \A n \in Attempts : (jour[n] = "open" \/ n \in work \cup placed) => exch[n] # "none"
  /\ pc \in SettlingPCs => cur \in work
  /\ pc = "confirm" => exch[cur] # "none"

\* The engine has a reason not to plan an entry for i
Guarded(i) == lot[i] # "none" \/ i \in terminal

\* The engine's memory follows the intents table and the working orders
Remembered ==
  /\ pc # "down" =>
       \A i \in Intents : row[i] # "none" => Guarded(i) \/ (pc = "lostClose" /\ Mine = i)
  /\ \A n \in work : Guarded(owner[n])

\* An accepted order leaves a trace in the store, save for the one window
Traced ==
  /\ pc = "submit" => jour[cur] = "pre"
  /\ \A n \in Attempts : (exch[n] # "none" /\ owner[n] \notin exposed) =>
        \/ row[owner[n]] # "none" \/ jour[n] \in {"pre", "open"}
        \/ pc = "lostUpsert" /\ outcome = "maybe" /\ cur = n

\* Once the journal was read, an intent with an accepted order is guarded, or
\* the goroutine is on its way to guard it
Barred ==
  (pc # "down" /\ (loaded \/ pc \notin {"idle", "load"})) =>
     \A n \in Attempts : (exch[n] # "none" /\ owner[n] \notin exposed) =>
        \/ Guarded(owner[n])
        \/ n \in todo /\ (pc \in LosingPCs => outcome = "restart") /\ pc \in {"resolve"} \cup LosingPCs
        \/ cur = n /\ pc \in {"confirm", "lostUpsert", "lostClose"}
        \/ cur = n /\ pc = "unjournal" /\ outcome = "maybe"

\* Nothing was accepted yet for an intent about to be bought
Fresh ==
  /\ \A i \in enters \ exposed : Accepted(i) = {}
  /\ pc = "submit" => /\ Mine \notin enters /\ exch[cur] = "none"
                      /\ Mine \notin exposed => Accepted(Mine) = {}
  /\ pc = "unjournal" /\ outcome \notin {"maybe", "restart"} => exch[cur] = "none"

IInv == TypeOK /\ Numbered /\ Followed /\ Remembered /\ Traced /\ Barred /\ Fresh /\ NoRebuy

=============================================================================
