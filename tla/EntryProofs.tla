---------------------------- MODULE EntryProofs ----------------------------
(***************************************************************************)
(* Proofs about Entry, for any set of intents and any bounds: the type     *)
(* invariant, NoRebuy, ClosedNeverBought, Booked, and that Entry           *)
(* implements IntentLife (KeepsPromise).                                   *)
(*                                                                         *)
(* The argument for NoRebuy: an accepted order has a row in the store      *)
(* (Traced); what the store knows the engine knows (Remembered), or is     *)
(* told of before it plans again (Barred); so nothing that was bought is   *)
(* in a plan (Fresh): IInv.  For the others: what is planned has no row,   *)
(* up to its submission (Planned); an order the cockpit lets go of was     *)
(* dead when its shares were read, and dead orders fill no more (Sighted,  *)
(* Written); the row of an attempt in hand is still open where the next    *)
(* step takes it for a trace (Journalled): BInv, beside IInv.              *)
(* One lemma a conjunct, one case a group of actions.                      *)
(***************************************************************************)
EXTENDS Entry, FiniteSetTheorems, TLAPS

\* The goroutine works for an intent while an order is in hand.
LEMMA HandOwner ==
  ASSUME TypeOK, Numbered, pc \in HandPCs
  PROVE  cur \in Attempts /\ Mine \in Intents
BY DEF Numbered, Mine

\* What a query answers is a number of shares of the order, listed or not.
LEMMA ShownType ==
  ASSUME TypeExchange, NEW n \in Attempts
  PROVE  Shown(n) \in 0 .. Qty
BY EntryAssumption DEF Shown, TypeExchange

\* UpsertIntent keeps the types of the intents table.
LEMMA UpsertTypes ==
  ASSUME TypeStore, NEW i \in Intents, NEW q \in 0 .. Qty,
         Upsert(i, q) \/ UNCHANGED <<row, qty>>, UNCHANGED <<made, owner, jour>>
  PROVE  TypeStore'
<1>1. CASE Upsert(i, q)
  BY <1>1 DEF Upsert, TypeStore
<1>2. CASE UNCHANGED <<row, qty>>
  BY <1>2 DEF TypeStore
<1> QED
  BY <1>1, <1>2

\* Writing the intent of a settled order, with or without success.
LEMMA FinUpsertTypes ==
  ASSUME TypeOK, Numbered, FinUpsert
  PROVE  TypeStore'
<1>1. Mine \in Intents /\ seen \in 0 .. Qty
  BY HandOwner DEF TypeOK, TypeLoop, HandPCs, FinUpsert
<1>2. /\ Upsert(Mine, seen) \/ UNCHANGED <<row, qty>>
      /\ UNCHANGED <<made, owner, jour>>
  BY DEF FinUpsert
<1> QED
  BY <1>1, <1>2, UpsertTypes DEF TypeOK

\* Writing the intent of a purchase of unknown outcome, with or without success.
LEMMA LostUpsertTypes ==
  ASSUME TypeOK, Numbered, LostUpsert
  PROVE  TypeStore'
<1>1. Mine \in Intents /\ 0 \in 0 .. Qty
  BY EntryAssumption, HandOwner DEF HandPCs, LostUpsert
<1>2. /\ Upsert(Mine, 0) \/ UNCHANGED <<row, qty>>
      /\ UNCHANGED <<made, owner, jour>>
  BY DEF LostUpsert
<1> QED
  BY <1>1, <1>2, UpsertTypes DEF TypeOK

\* Finishing an order opens no row of the journal.
LEMMA FinDoneFollowed ==
  ASSUME TypeOK, Numbered, Followed, FinDone
  PROVE  Followed'
<1>1. cur \in Attempts /\ cur \in work
  BY HandOwner DEF FinDone, HandPCs, Followed, SettlingPCs
<1>2. \A n \in Attempts : jour'[n] = "open" => jour[n] = "open"
  BY <1>1 DEF FinDone, TypeOK, TypeStore
<1> QED
  BY <1>1, <1>2 DEF FinDone, Followed, SettlingPCs, Return, exchange, agenda

\* Restore makes every known intent a lot or a terminal one.
LEMMA StartRemembered ==
  ASSUME TypeOK, Followed, Start
  PROVE  Remembered'
<1>1. \A i \in Intents : row'[i] # "none" => Guarded(i)'
  BY DEF Start, Guarded, TypeOK, TypeStore, store
<1>2. work' = {}
  BY DEF Start, memory, Followed
<1> QED
  BY <1>1, <1>2 DEF Start, Remembered, store

\* After a start the journal is not read yet: nothing to show.
LEMMA StartBarred ==
  ASSUME Followed, Start
  PROVE  Barred'
BY DEF Start, Barred, Followed, memory

\* The intent of a settled order was pending, so writing it leaves it guarded.
LEMMA FinUpsertRemembered ==
  ASSUME TypeOK, Numbered, Followed, Remembered, FinUpsert
  PROVE  Remembered'
<1> DEFINE i == Mine
<1>1. i \in Intents /\ cur \in Attempts
  BY HandOwner DEF FinUpsert, HandPCs
<1>2. Guarded(i)
  BY DEF FinUpsert, Followed, Remembered, SettlingPCs, Mine
<1>3. \A j \in Intents : Guarded(j) => Guarded(j)'
  BY <1>1 DEF FinUpsert, Guarded, MarkClosed, TypeOK, TypeMemory
<1>4. \A j \in Intents : row'[j] # "none" => row[j] # "none" \/ j = i
  BY <1>1 DEF FinUpsert, Upsert, TypeOK, TypeStore
<1>5. pc \notin {"down", "lostClose"} /\ UNCHANGED <<work, owner>>
  BY DEF FinUpsert, memory
<1>6. \A n \in work : owner[n] \in Intents
  BY DEF TypeOK, Numbered, Followed, TypeMemory
<1>7. \A j \in Intents : row'[j] # "none" => Guarded(j)'
  BY <1>1, <1>2, <1>3, <1>4, <1>5 DEF Remembered
<1>8. \A n \in work' : Guarded(owner[n])'
  BY <1>3, <1>5, <1>6 DEF Remembered, Guarded
<1> QED
  BY <1>7, <1>8, <1>5 DEF Remembered, Guarded

\* A cancel without an answer changes no order's having been accepted.
LEMMA CancelExch ==
  ASSUME TypeOK, Numbered, Followed, CancelFails
  PROVE  \A n \in Attempts : exch'[n] # "none" <=> exch[n] # "none"
<1>1. cur \in Attempts /\ exch[cur] # "none"
  BY HandOwner DEF CancelFails, HandPCs, SettlingPCs, Followed
<1> QED
  BY <1>1 DEF CancelFails, TypeOK, TypeExchange

\* A submission touches the order in hand only.
LEMMA SubmitExch ==
  ASSUME TypeOK, Numbered, SubmitAccepted \/ SubmitMaybe
  PROVE  /\ cur \in Attempts
         /\ \A n \in Attempts : n # cur => exch'[n] = exch[n]
<1>1. cur \in Attempts
  BY HandOwner DEF SubmitAccepted, SubmitMaybe, HandPCs
<1> QED
  BY <1>1 DEF SubmitAccepted, SubmitMaybe, TypeOK, TypeExchange

\* A submission finds its row in the journal, so its order is traced.
LEMMA SubmitTraced ==
  ASSUME TypeOK, Numbered, Traced, SubmitAccepted \/ SubmitMaybe
  PROVE  Traced'
<1>1. jour[cur] = "pre" /\ pc = "submit"
  BY DEF Traced, SubmitAccepted, SubmitMaybe
<1>2. pc' \in {"confirm", "unjournal"} /\ UNCHANGED <<store, exposed>>
  BY DEF SubmitAccepted, SubmitMaybe, history
<1> QED
  BY <1>1, <1>2, SubmitExch DEF Traced, store

\* A submission is the first one accepted for its intent.
LEMMA SubmitNoRebuy ==
  ASSUME TypeOK, Numbered, Fresh, NoRebuy, SubmitAccepted \/ SubmitMaybe
  PROVE  NoRebuy'
<1>1. Mine \notin exposed => \A n \in Attempts : owner[n] = Mine => exch[n] = "none"
  BY DEF Fresh, SubmitAccepted, SubmitMaybe, Accepted
<1>2. UNCHANGED <<owner, exposed>>
  BY DEF SubmitAccepted, SubmitMaybe, history, store
<1> QED
  BY <1>1, <1>2, SubmitExch DEF NoRebuy, Mine

\* Closing a temporary row: after a restart the intent was closed before; after
\* an unknown submission the goroutine goes on to close it; else nothing was
\* accepted.
LEMMA UnjournalBarred ==
  ASSUME TypeOK, Numbered, Barred, Fresh, Unjournal
  PROVE  Barred'
<1>1. cur \in Attempts /\ pc = "unjournal"
  BY HandOwner DEF Unjournal, HandPCs
<1>2. UNCHANGED <<lot, terminal, exch, owner, todo, loaded>> /\ exposed \subseteq exposed'
  BY DEF Unjournal, exchange, memory, agenda
<1>3. \A j \in Intents : Guarded(j)' = Guarded(j)
  BY <1>2 DEF Guarded
<1> SUFFICES ASSUME NEW n \in Attempts, exch[n] # "none", owner[n] \notin exposed'
             PROVE  \/ Guarded(owner[n])'
                    \/ /\ n \in todo /\ (pc' \in LosingPCs => outcome' = "restart")
                       /\ pc' \in {"resolve"} \cup LosingPCs
                    \/ cur' = n /\ pc' \in {"confirm", "lostUpsert", "lostClose"}
                    \/ cur' = n /\ pc' = "unjournal" /\ outcome' = "maybe"
  BY <1>2 DEF Barred, Guarded
<1>4. owner[n] \in Intents
  BY DEF Numbered
<1>5. \/ Guarded(owner[n])
      \/ n \in todo /\ outcome = "restart"
      \/ cur = n /\ outcome = "maybe"
  BY <1>1, <1>2 DEF Barred, LosingPCs
<1>6. CASE outcome = "restart"
  BY <1>1, <1>2, <1>3, <1>4, <1>5, <1>6 DEF Unjournal, Return, LosingPCs, Barred
<1>7. CASE outcome = "maybe"
  BY <1>1, <1>2, <1>3, <1>4, <1>5, <1>7 DEF Unjournal, hand, LosingPCs
<1>8. CASE outcome \notin {"restart", "maybe"}
  BY <1>1, <1>2, <1>3, <1>4, <1>5, <1>8 DEF Fresh
<1> QED
  BY <1>6, <1>7, <1>8

\* What the store holds keeps its type.
LEMMA TypeStoreNext ==
  ASSUME TypeOK, Numbered, [Next]_vars
  PROVE  TypeStore'
<1> USE EntryAssumption DEF TypeOK, TypeStore, TypeExchange, TypeMemory, TypeLoop,
      Attempts, Numbered, HandPCs, store, exchange, engine, memory, hand, agenda, loop,
      history, Works, Fails, Return, Mine
<1>1. CASE Start
  BY <1>1 DEF Start
<1>2. CASE Crash
  BY <1>2 DEF Crash, InWindow
<1>3. CASE Lots
  <2>1. ASSUME NEW i \in Intents, CloseLot(i)
        PROVE  TypeStore'
    BY <2>1 DEF CloseLot, Close, MarkClosed
  <2> QED
    BY <1>3, <2>1 DEF Lots, SyncAdopt
<1>4. CASE World
  BY <1>4 DEF World, Deliver, ShortExpires, FillOrder, KillOrder, DeadlinePass, Relist
<1>5. CASE Restarting
  BY <1>5 DEF Restarting, Begin, Load, LoadFails, OpenRows, Loaded, Resolve, Resolved
<1>6. CASE Asking
  BY <1>6 DEF Asking, PollFails, PollWaits, PollEnds, PollsDone, Cancel,
      CancelTooLate, CancelFails, Recheck, RecheckFails, Requery, RequeryFails
<1>7. CASE Booking
  <2>1. CASE FinUpsert
    BY <2>1, FinUpsertTypes
  <2>2. CASE FinClose
    BY <2>2 DEF FinClose, Close, MarkClosed
  <2>3. CASE FinDone
    BY <2>3 DEF FinDone
  <2> QED
    BY <1>7, <2>1, <2>2, <2>3 DEF Booking
<1>8. CASE Planning
  <2>1. ASSUME NEW i \in Intents, Journal(i)
        PROVE  TypeStore'
    BY <2>1 DEF Journal
  <2> QED
    BY <1>8, <2>1 DEF Planning, MakePlan, Candidates, EntersDone, Skip, JournalFails
<1>9. CASE Submitting
  <2>1. CASE Confirm
    BY <2>1 DEF Confirm
  <2> QED
    BY <1>9, <2>1 DEF Submitting, SubmitAccepted, SubmitRefused, SubmitMaybe
<1>10. CASE Losing
  <2>1. CASE Unjournal
    BY <2>1 DEF Unjournal
  <2>2. CASE LostUpsert
    BY <2>2, LostUpsertTypes
  <2>3. CASE LostClose
    BY <2>3 DEF LostClose, Close, MarkClosed, AfterLost
  <2> QED
    BY <1>10, <2>1, <2>2, <2>3 DEF Losing
<1>11. CASE UNCHANGED vars
  BY <1>11 DEF vars
<1> QED
  BY <1>1, <1>2, <1>3, <1>4, <1>5, <1>6, <1>7, <1>8, <1>9, <1>10, <1>11 DEF Next, Loop

\* So does what the exchange holds.
LEMMA TypeExchangeNext ==
  ASSUME TypeOK, Numbered, [Next]_vars
  PROVE  TypeExchange'
<1> USE EntryAssumption DEF TypeOK, TypeStore, TypeExchange, TypeMemory, TypeLoop,
      Attempts, Numbered, HandPCs, store, exchange, engine, memory, hand, agenda, loop,
      history, Works, Fails, Return, Mine
<1>1. CASE Start
  BY <1>1 DEF Start
<1>2. CASE Crash
  BY <1>2 DEF Crash, InWindow
<1>3. CASE Lots
  BY <1>3 DEF Lots, SyncAdopt, CloseLot, Close, MarkClosed
<1>4. CASE World
  <2>1. ASSUME NEW n \in Attempts, FillOrder(n)
        PROVE  TypeExchange'
    BY <2>1 DEF FillOrder
  <2> QED
    BY <1>4, <2>1 DEF World, Deliver, ShortExpires, KillOrder, DeadlinePass, Relist
<1>5. CASE Restarting
  BY <1>5 DEF Restarting, Begin, Load, LoadFails, OpenRows, Loaded, Resolve, Resolved
<1>6. CASE Asking
  BY <1>6 DEF Asking, PollFails, PollWaits, PollEnds, PollsDone, Cancel,
      CancelTooLate, CancelFails, Recheck, RecheckFails, Requery, RequeryFails
<1>7. CASE Booking
  BY <1>7 DEF Booking, FinUpsert, Upsert, MarkClosed, FinClose, Close, FinDone
<1>8. CASE Planning
  BY <1>8 DEF Planning, MakePlan, Candidates, EntersDone, Skip, Journal, JournalFails
<1>9. CASE Submitting
  BY <1>9 DEF Submitting, SubmitAccepted, SubmitRefused, SubmitMaybe, Confirm
<1>10. CASE Losing
  BY <1>10 DEF Losing, Unjournal, LostUpsert, InWindow, Upsert, MarkClosed, AfterLost,
      LostClose, Close
<1>11. CASE UNCHANGED vars
  BY <1>11 DEF vars
<1> QED
  BY <1>1, <1>2, <1>3, <1>4, <1>5, <1>6, <1>7, <1>8, <1>9, <1>10, <1>11 DEF Next, Loop

\* And what the engine and the executor remember.
LEMMA TypeMemoryNext ==
  ASSUME TypeOK, Numbered, [Next]_vars
  PROVE  TypeMemory'
<1> USE EntryAssumption DEF TypeOK, TypeStore, TypeExchange, TypeMemory, TypeLoop,
      Attempts, Numbered, HandPCs, store, exchange, engine, memory, hand, agenda, loop,
      history, Works, Fails, Return, Mine
<1>1. CASE Start
  BY <1>1 DEF Start
<1>2. CASE Crash
  BY <1>2 DEF Crash, InWindow
<1>3. CASE Lots
  <2>1. ASSUME NEW i \in Intents, SyncAdopt(i)
        PROVE  TypeMemory'
    BY <2>1 DEF SyncAdopt
  <2>2. ASSUME NEW i \in Intents, CloseLot(i)
        PROVE  TypeMemory'
    BY <2>2 DEF CloseLot, Close, MarkClosed
  <2> QED
    BY <1>3, <2>1, <2>2 DEF Lots
<1>4. CASE World
  BY <1>4 DEF World, Deliver, ShortExpires, FillOrder, KillOrder, DeadlinePass, Relist
<1>5. CASE Restarting
  BY <1>5 DEF Restarting, Begin, Load, LoadFails, OpenRows, Loaded, Resolve, Resolved
<1>6. CASE Asking
  BY <1>6 DEF Asking, PollFails, PollWaits, PollEnds, PollsDone, Cancel,
      CancelTooLate, CancelFails, Recheck, RecheckFails, Requery, RequeryFails
<1>7. CASE Booking
  BY <1>7 DEF Booking, FinUpsert, Upsert, MarkClosed, FinClose, Close, FinDone
<1>8. CASE Planning
  BY <1>8 DEF Planning, MakePlan, Candidates, EntersDone, Skip, Journal, JournalFails
<1>9. CASE Submitting
  BY <1>9 DEF Submitting, SubmitAccepted, SubmitRefused, SubmitMaybe, Confirm
<1>10. CASE Losing
  <2>1. CASE Unjournal
    BY <2>1 DEF Unjournal, AfterLost
  <2>2. CASE LostUpsert
    <3>1. UNCHANGED <<wanted, short, memory>>
      BY <2>2 DEF LostUpsert
    <3>2. Mine \in Intents
      BY <2>2 DEF LostUpsert
    <3>3. \/ UNCHANGED <<terminal, lot>>
          \/ MarkClosed(Mine)
      BY <2>2 DEF LostUpsert
    <3> QED
      BY <3>1, <3>2, <3>3 DEF MarkClosed
  <2>3. CASE LostClose
    BY <2>3 DEF LostClose, Close, MarkClosed, AfterLost
  <2> QED
    BY <1>10, <2>1, <2>2, <2>3 DEF Losing
<1>11. CASE UNCHANGED vars
  BY <1>11 DEF vars
<1> QED
  BY <1>1, <1>2, <1>3, <1>4, <1>5, <1>6, <1>7, <1>8, <1>9, <1>10, <1>11 DEF Next, Loop

\* And where the goroutine stands.
LEMMA TypeLoopNext ==
  ASSUME TypeOK, Numbered, [Next]_vars
  PROVE  TypeLoop'
<1> USE EntryAssumption DEF TypeOK, TypeStore, TypeExchange, TypeMemory, TypeLoop,
      Attempts, Numbered, HandPCs, store, exchange, engine, memory, hand, agenda, loop,
      history, Works, Fails, Return, Mine, PCs
<1>1. CASE Start
  BY <1>1 DEF Start
<1>2. CASE Crash
  BY <1>2 DEF Crash, InWindow
<1>3. CASE Lots
  BY <1>3 DEF Lots, SyncAdopt, CloseLot, Close, MarkClosed
<1>4. CASE World
  <2>1. ASSUME NEW i \in Intents, Deliver(i)
        PROVE  TypeLoop'
    BY <2>1 DEF Deliver
  <2>2. ASSUME NEW i \in Intents, ShortExpires(i)
        PROVE  TypeLoop'
    BY <2>2 DEF ShortExpires
  <2>3. ASSUME NEW n \in Attempts, FillOrder(n)
        PROVE  TypeLoop'
    BY <2>3 DEF FillOrder
  <2>4. ASSUME NEW n \in Attempts, KillOrder(n)
        PROVE  TypeLoop'
    BY <2>4 DEF KillOrder
  <2>5. ASSUME NEW n \in Attempts, DeadlinePass(n)
        PROVE  TypeLoop'
    BY <2>5 DEF DeadlinePass
  <2>6. ASSUME NEW n \in Attempts, Relist(n)
        PROVE  TypeLoop'
    BY <2>6 DEF Relist
  <2> QED
    BY <1>4, <2>1, <2>2, <2>3, <2>4, <2>5, <2>6 DEF World
<1>5. CASE Restarting
  <2>1. CASE Begin
    BY <2>1 DEF Begin
  <2>2. CASE Load
    BY <2>2 DEF Load
  <2>3. CASE LoadFails
    BY <2>3 DEF LoadFails, OpenRows
  <2>4. CASE Loaded
    BY <2>4 DEF Loaded
  <2>5. ASSUME NEW n \in Attempts, Resolve(n)
        PROVE  TypeLoop'
    BY <2>5 DEF Resolve
  <2>6. CASE Resolved
    BY <2>6 DEF Resolved
  <2> QED
    BY <1>5, <2>1, <2>2, <2>3, <2>4, <2>5, <2>6 DEF Restarting
<1>6. CASE Asking
  <2>1. ASSUME NEW n \in Attempts, PollFails(n)
        PROVE  TypeLoop'
    BY <2>1 DEF PollFails
  <2>2. ASSUME NEW n \in Attempts, PollWaits(n)
        PROVE  TypeLoop'
    BY <2>2 DEF PollWaits
  <2>3. ASSUME NEW n \in Attempts, PollEnds(n)
        PROVE  TypeLoop'
    BY <2>3, ShownType DEF PollEnds
  <2>5. CASE PollsDone
    BY <2>5 DEF PollsDone
  <2>6. CASE Cancel
    BY <2>6 DEF Cancel
  <2>7. CASE CancelTooLate
    BY <2>7 DEF CancelTooLate
  <2>8. CASE CancelFails
    BY <2>8 DEF CancelFails
  <2>9. CASE Recheck
    BY <2>9, ShownType DEF Recheck
  <2>10. CASE RecheckFails
    BY <2>10 DEF RecheckFails
  <2>11. CASE Requery
    <3>1. Shown(cur) \in 0 .. Qty
      BY <2>11, ShownType DEF Requery
    <3>2. CASE Over(cur)
      BY <2>11, <3>1, <3>2 DEF Requery
    <3>3. CASE ~Over(cur)
      BY <2>11, <3>3 DEF Requery
    <3> QED BY <3>2, <3>3
  <2>12. CASE RequeryFails
    BY <2>12 DEF RequeryFails
  <2> QED
    BY <1>6, <2>1, <2>2, <2>3, <2>5, <2>6, <2>7, <2>8, <2>9, <2>10, <2>11, <2>12 DEF
      Asking
<1>7. CASE Booking
  <2>1. CASE FinUpsert
    BY <2>1 DEF FinUpsert, Upsert, MarkClosed
  <2>2. CASE FinClose
    BY <2>2 DEF FinClose, Close, MarkClosed
  <2>3. CASE FinDone
    BY <2>3 DEF FinDone
  <2> QED
    BY <1>7, <2>1, <2>2, <2>3 DEF Booking
<1>8. CASE Planning
  <2>1. CASE MakePlan
    BY <2>1 DEF MakePlan, Candidates
  <2>2. CASE EntersDone
    BY <2>2 DEF EntersDone
  <2>3. ASSUME NEW i \in Intents, Skip(i)
        PROVE  TypeLoop'
    BY <2>3 DEF Skip
  <2>4. ASSUME NEW i \in Intents, Journal(i)
        PROVE  TypeLoop'
    BY <2>4 DEF Journal
  <2>5. ASSUME NEW i \in Intents, JournalFails(i)
        PROVE  TypeLoop'
    BY <2>5 DEF JournalFails
  <2> QED
    BY <1>8, <2>1, <2>2, <2>3, <2>4, <2>5 DEF Planning
<1>9. CASE Submitting
  <2>1. CASE SubmitAccepted
    BY <2>1 DEF SubmitAccepted
  <2>2. CASE SubmitRefused
    BY <2>2 DEF SubmitRefused
  <2>3. CASE SubmitMaybe
    BY <2>3 DEF SubmitMaybe
  <2>4. CASE Confirm
    BY <2>4 DEF Confirm
  <2> QED
    BY <1>9, <2>1, <2>2, <2>3, <2>4 DEF Submitting
<1>10. CASE Losing
  <2>1. CASE Unjournal
    BY <2>1 DEF Unjournal
  <2>2. CASE LostUpsert
    <3>1. exposed' \in SUBSET Intents
      BY <2>2 DEF LostUpsert
    <3>2. UNCHANGED <<agenda, crashes>>
      BY <2>2 DEF LostUpsert
    <3> QED
      BY <2>2, <3>1, <3>2 DEF LostUpsert, AfterLost
  <2>3. CASE LostClose
    BY <2>3 DEF LostClose, Close, MarkClosed, AfterLost
  <2> QED
    BY <1>10, <2>1, <2>2, <2>3 DEF Losing
<1>11. CASE UNCHANGED vars
  BY <1>11 DEF vars
<1> QED
  BY <1>1, <1>2, <1>3, <1>4, <1>5, <1>6, <1>7, <1>8, <1>9, <1>10, <1>11 DEF Next, Loop

\* Attempts stay numbered as they are journalled.
LEMMA NumberedNext ==
  ASSUME TypeOK, Numbered, Followed, [Next]_vars
  PROVE  Numbered'
<1> USE EntryAssumption DEF TypeOK, TypeStore, TypeExchange, TypeMemory, TypeLoop,
      Attempts, Numbered, HandPCs, store, exchange, engine, memory, hand, agenda, loop,
      history, Works, Fails, Return, Mine, Followed
<1>1. CASE Start
  BY <1>1 DEF Start
<1>2. CASE Crash
  BY <1>2 DEF Crash, InWindow
<1>3. CASE Lots
  <2>1. ASSUME NEW i \in Intents, SyncAdopt(i)
        PROVE  Numbered'
    BY <2>1 DEF SyncAdopt
  <2>2. ASSUME NEW i \in Intents, CloseLot(i)
        PROVE  Numbered'
    BY <2>2 DEF CloseLot, Close, MarkClosed
  <2> QED
    BY <1>3, <2>1, <2>2 DEF Lots
<1>4. CASE World
  <2>1. ASSUME NEW i \in Intents, Deliver(i)
        PROVE  Numbered'
    BY <2>1 DEF Deliver
  <2>2. ASSUME NEW i \in Intents, ShortExpires(i)
        PROVE  Numbered'
    BY <2>2 DEF ShortExpires
  <2>3. ASSUME NEW n \in Attempts, FillOrder(n)
        PROVE  Numbered'
    BY <2>3 DEF FillOrder
  <2>4. ASSUME NEW n \in Attempts, KillOrder(n)
        PROVE  Numbered'
    BY <2>4 DEF KillOrder
  <2>5. ASSUME NEW n \in Attempts, DeadlinePass(n)
        PROVE  Numbered'
    BY <2>5 DEF DeadlinePass
  <2>6. ASSUME NEW n \in Attempts, Relist(n)
        PROVE  Numbered'
    BY <2>6 DEF Relist
  <2> QED
    BY <1>4, <2>1, <2>2, <2>3, <2>4, <2>5, <2>6 DEF World
<1>5. CASE Restarting
  <2>1. CASE Begin
    BY <2>1 DEF Begin
  <2>2. CASE Load
    BY <2>2 DEF Load
  <2>3. CASE LoadFails
    BY <2>3 DEF LoadFails, OpenRows
  <2>4. CASE Loaded
    BY <2>4 DEF Loaded
  <2>5. ASSUME NEW n \in Attempts, Resolve(n)
        PROVE  Numbered'
    BY <2>5 DEF Resolve
  <2>6. CASE Resolved
    BY <2>6 DEF Resolved
  <2> QED
    BY <1>5, <2>1, <2>2, <2>3, <2>4, <2>5, <2>6 DEF Restarting
<1>6. CASE Asking
  <2>1. ASSUME NEW n \in Attempts, PollFails(n)
        PROVE  Numbered'
    BY <2>1 DEF PollFails
  <2>2. ASSUME NEW n \in Attempts, PollWaits(n)
        PROVE  Numbered'
    BY <2>2 DEF PollWaits
  <2>3. ASSUME NEW n \in Attempts, PollEnds(n)
        PROVE  Numbered'
    BY <2>3 DEF PollEnds
  <2>5. CASE PollsDone
    BY <2>5 DEF PollsDone
  <2>6. CASE Cancel
    BY <2>6 DEF Cancel
  <2>7. CASE CancelTooLate
    BY <2>7 DEF CancelTooLate
  <2>8. CASE CancelFails
    BY <2>8 DEF CancelFails
  <2>9. CASE Recheck
    BY <2>9 DEF Recheck
  <2>10. CASE RecheckFails
    BY <2>10 DEF RecheckFails
  <2>11. CASE Requery
    BY <2>11 DEF Requery
  <2>12. CASE RequeryFails
    BY <2>12 DEF RequeryFails
  <2> QED
    BY <1>6, <2>1, <2>2, <2>3, <2>5, <2>6, <2>7, <2>8, <2>9, <2>10, <2>11, <2>12 DEF
      Asking
<1>7. CASE Booking
  <2>1. CASE FinUpsert
    BY <2>1 DEF FinUpsert, Upsert, MarkClosed
  <2>2. CASE FinClose
    BY <2>2 DEF FinClose, Close, MarkClosed
  <2>3. CASE FinDone
    BY <2>3 DEF FinDone
  <2> QED
    BY <1>7, <2>1, <2>2, <2>3 DEF Booking
<1>8. CASE Planning
  <2>1. CASE MakePlan
    BY <2>1 DEF MakePlan, Candidates
  <2>2. CASE EntersDone
    BY <2>2 DEF EntersDone
  <2>3. ASSUME NEW i \in Intents, Skip(i)
        PROVE  Numbered'
    BY <2>3 DEF Skip
  <2>4. ASSUME NEW i \in Intents, Journal(i)
        PROVE  Numbered'
    BY <2>4 DEF Journal
  <2>5. ASSUME NEW i \in Intents, JournalFails(i)
        PROVE  Numbered'
    BY <2>5 DEF JournalFails
  <2> QED
    BY <1>8, <2>1, <2>2, <2>3, <2>4, <2>5 DEF Planning
<1>9. CASE Submitting
  <2>1. CASE SubmitAccepted
    BY <2>1 DEF SubmitAccepted
  <2>2. CASE SubmitRefused
    BY <2>2 DEF SubmitRefused
  <2>3. CASE SubmitMaybe
    BY <2>3 DEF SubmitMaybe
  <2>4. CASE Confirm
    BY <2>4 DEF Confirm
  <2> QED
    BY <1>9, <2>1, <2>2, <2>3, <2>4 DEF Submitting
<1>10. CASE Losing
  <2>1. CASE Unjournal
    BY <2>1 DEF Unjournal
  <2>2. CASE LostUpsert
    BY <2>2 DEF LostUpsert, InWindow, Upsert, MarkClosed, AfterLost
  <2>3. CASE LostClose
    BY <2>3 DEF LostClose, Close, MarkClosed, AfterLost
  <2> QED
    BY <1>10, <2>1, <2>2, <2>3 DEF Losing
<1>11. CASE UNCHANGED vars
  BY <1>11 DEF vars
<1> QED
  BY <1>1, <1>2, <1>3, <1>4, <1>5, <1>6, <1>7, <1>8, <1>9, <1>10, <1>11 DEF Next, Loop

\* Only accepted orders are followed.
LEMMA FollowedNext ==
  ASSUME TypeOK, Numbered, Followed, [Next]_vars
  PROVE  Followed'
<1> USE EntryAssumption DEF TypeOK, TypeStore, TypeExchange, TypeMemory, TypeLoop,
      Attempts, Numbered, HandPCs, store, exchange, engine, memory, hand, agenda, loop,
      history, Works, Fails, Return, Mine, Followed, SettlingPCs
<1>1. CASE Start
  BY <1>1 DEF Start
<1>2. CASE Crash
  BY <1>2 DEF Crash, InWindow
<1>3. CASE Lots
  BY <1>3 DEF Lots, SyncAdopt, CloseLot, Close, MarkClosed
<1>4. CASE World
  <2>1. ASSUME NEW i \in Intents, Deliver(i)
        PROVE  Followed'
    BY <2>1 DEF Deliver
  <2>2. ASSUME NEW i \in Intents, ShortExpires(i)
        PROVE  Followed'
    BY <2>2 DEF ShortExpires
  <2>3. ASSUME NEW n \in Attempts, FillOrder(n)
        PROVE  Followed'
    BY <2>3 DEF FillOrder
  <2>4. ASSUME NEW n \in Attempts, KillOrder(n)
        PROVE  Followed'
    BY <2>4 DEF KillOrder
  <2>5. ASSUME NEW n \in Attempts, DeadlinePass(n)
        PROVE  Followed'
    BY <2>5 DEF DeadlinePass
  <2>6. ASSUME NEW n \in Attempts, Relist(n)
        PROVE  Followed'
    BY <2>6 DEF Relist
  <2> QED
    BY <1>4, <2>1, <2>2, <2>3, <2>4, <2>5, <2>6 DEF World
<1>5. CASE Restarting
  <2>1. CASE Begin
    BY <2>1 DEF Begin
  <2>2. CASE Load
    BY <2>2 DEF Load
  <2>3. CASE LoadFails
    BY <2>3 DEF LoadFails, OpenRows
  <2>4. CASE Loaded
    BY <2>4 DEF Loaded
  <2>5. ASSUME NEW n \in Attempts, Resolve(n)
        PROVE  Followed'
    BY <2>5 DEF Resolve
  <2>6. CASE Resolved
    BY <2>6 DEF Resolved
  <2> QED
    BY <1>5, <2>1, <2>2, <2>3, <2>4, <2>5, <2>6 DEF Restarting
<1>6. CASE Asking
  BY <1>6 DEF Asking, PollFails, PollWaits, PollEnds, PollsDone, Cancel,
      CancelTooLate, CancelFails, Recheck, RecheckFails, Requery, RequeryFails
<1>7. CASE Booking
  <2>1. CASE FinUpsert
    BY <2>1 DEF FinUpsert, Upsert, MarkClosed
  <2>2. CASE FinClose
    BY <2>2 DEF FinClose, Close, MarkClosed
  <2>3. CASE FinDone
    BY <2>3, FinDoneFollowed
  <2> QED
    BY <1>7, <2>1, <2>2, <2>3 DEF Booking
<1>8. CASE Planning
  <2>1. CASE MakePlan
    BY <2>1 DEF MakePlan, Candidates
  <2>2. CASE EntersDone
    BY <2>2 DEF EntersDone
  <2>3. ASSUME NEW i \in Intents, Skip(i)
        PROVE  Followed'
    BY <2>3 DEF Skip
  <2>4. ASSUME NEW i \in Intents, Journal(i)
        PROVE  Followed'
    BY <2>4 DEF Journal
  <2>5. ASSUME NEW i \in Intents, JournalFails(i)
        PROVE  Followed'
    BY <2>5 DEF JournalFails
  <2> QED
    BY <1>8, <2>1, <2>2, <2>3, <2>4, <2>5 DEF Planning
<1>9. CASE Submitting
  BY <1>9 DEF Submitting, SubmitAccepted, SubmitRefused, SubmitMaybe, Confirm
<1>10. CASE Losing
  BY <1>10 DEF Losing, Unjournal, LostUpsert, InWindow, Upsert, MarkClosed, AfterLost,
      LostClose, Close
<1>11. CASE UNCHANGED vars
  BY <1>11 DEF vars
<1> QED
  BY <1>1, <1>2, <1>3, <1>4, <1>5, <1>6, <1>7, <1>8, <1>9, <1>10, <1>11 DEF Next, Loop

\* The engine's memory keeps up with the store.
LEMMA RememberedNext ==
  ASSUME TypeOK, Numbered, Followed, Remembered, [Next]_vars
  PROVE  Remembered'
<1> USE EntryAssumption DEF TypeOK, TypeStore, TypeExchange, TypeMemory, TypeLoop,
      Attempts, Numbered, HandPCs, store, exchange, engine, memory, hand, agenda, loop,
      history, Works, Fails, Return, Mine, Followed, SettlingPCs, Remembered, Guarded,
      Working
<1>1. CASE Start
  BY <1>1, StartRemembered
<1>2. CASE Crash
  BY <1>2 DEF Crash, InWindow
<1>3. CASE Lots
  <2>1. ASSUME NEW i \in Intents, SyncAdopt(i)
        PROVE  Remembered'
    BY <2>1 DEF SyncAdopt
  <2>2. ASSUME NEW i \in Intents, CloseLot(i)
        PROVE  Remembered'
    BY <2>2 DEF CloseLot, Close, MarkClosed
  <2> QED
    BY <1>3, <2>1, <2>2 DEF Lots
<1>4. CASE World
  BY <1>4 DEF World, Deliver, ShortExpires, FillOrder, KillOrder, DeadlinePass, Relist
<1>5. CASE Restarting
  <2>1. CASE Begin
    BY <2>1 DEF Begin
  <2>2. CASE Load
    BY <2>2 DEF Load, OpenRows
  <2>3. CASE LoadFails
    BY <2>3 DEF LoadFails
  <2>4. CASE Loaded
    BY <2>4 DEF Loaded
  <2>5. CASE Resolved
    BY <2>5 DEF Resolved
  <2>6. ASSUME NEW n \in Attempts, Resolve(n)
        PROVE  Remembered'
    BY <2>6 DEF Resolve
  <2> QED
    BY <1>5, <2>1, <2>2, <2>3, <2>4, <2>5, <2>6 DEF Restarting
<1>6. CASE Asking
  BY <1>6 DEF Asking, PollFails, PollWaits, PollEnds, PollsDone, Cancel,
      CancelTooLate, CancelFails, Recheck, RecheckFails, Requery, RequeryFails
<1>7. CASE Booking
  <2>1. CASE FinUpsert
    BY <2>1, FinUpsertRemembered
  <2>2. CASE FinClose
    BY <2>2 DEF FinClose, Close, MarkClosed
  <2>3. CASE FinDone
    BY <2>3 DEF FinDone
  <2> QED
    BY <1>7, <2>1, <2>2, <2>3 DEF Booking
<1>8. CASE Planning
  <2>1. CASE MakePlan
    BY <2>1 DEF MakePlan, Candidates
  <2>2. CASE EntersDone
    BY <2>2 DEF EntersDone
  <2>3. ASSUME NEW i \in Intents, Skip(i)
        PROVE  Remembered'
    BY <2>3 DEF Skip
  <2>4. ASSUME NEW i \in Intents, Journal(i)
        PROVE  Remembered'
    BY <2>4 DEF Journal
  <2>5. ASSUME NEW i \in Intents, JournalFails(i)
        PROVE  Remembered'
    BY <2>5 DEF JournalFails
  <2> QED
    BY <1>8, <2>1, <2>2, <2>3, <2>4, <2>5 DEF Planning
<1>9. CASE Submitting
  BY <1>9 DEF Submitting, SubmitAccepted, SubmitRefused, SubmitMaybe, Confirm
<1>10. CASE Losing
  <2>1. CASE Unjournal
    BY <2>1 DEF Unjournal
  <2>2. CASE LostUpsert
    BY <2>2 DEF LostUpsert, InWindow, Upsert, MarkClosed, AfterLost
  <2>3. CASE LostClose
    BY <2>3 DEF LostClose, Close, MarkClosed, AfterLost
  <2> QED
    BY <1>10, <2>1, <2>2, <2>3 DEF Losing
<1>11. CASE UNCHANGED vars
  BY <1>11 DEF vars
<1> QED
  BY <1>1, <1>2, <1>3, <1>4, <1>5, <1>6, <1>7, <1>8, <1>9, <1>10, <1>11 DEF Next, Loop

\* Accepted orders keep a trace.
LEMMA TracedNext ==
  ASSUME TypeOK, Numbered, Followed, Traced, Fresh, [Next]_vars
  PROVE  Traced'
<1> USE EntryAssumption DEF TypeOK, TypeStore, TypeExchange, TypeMemory, TypeLoop,
      Attempts, Numbered, HandPCs, store, exchange, engine, memory, hand, agenda, loop,
      history, Works, Fails, Return, Mine, Traced, Fresh, Followed
<1>1. CASE Start
  BY <1>1 DEF Start
<1>2. CASE Crash
  BY <1>2 DEF Crash, InWindow
<1>3. CASE Lots
  <2>1. ASSUME NEW i \in Intents, SyncAdopt(i)
        PROVE  Traced'
    BY <2>1 DEF SyncAdopt
  <2>2. ASSUME NEW i \in Intents, CloseLot(i)
        PROVE  Traced'
    BY <2>2 DEF CloseLot, Close, MarkClosed
  <2> QED
    BY <1>3, <2>1, <2>2 DEF Lots
<1>4. CASE World
  <2>1. ASSUME NEW i \in Intents, Deliver(i)
        PROVE  Traced'
    BY <2>1 DEF Deliver
  <2>2. ASSUME NEW i \in Intents, ShortExpires(i)
        PROVE  Traced'
    BY <2>2 DEF ShortExpires
  <2>3. ASSUME NEW n \in Attempts, FillOrder(n)
        PROVE  Traced'
    BY <2>3 DEF FillOrder
  <2>4. ASSUME NEW n \in Attempts, KillOrder(n)
        PROVE  Traced'
    BY <2>4 DEF KillOrder
  <2>5. ASSUME NEW n \in Attempts, DeadlinePass(n)
        PROVE  Traced'
    BY <2>5 DEF DeadlinePass
  <2>6. ASSUME NEW n \in Attempts, Relist(n)
        PROVE  Traced'
    BY <2>6 DEF Relist
  <2> QED
    BY <1>4, <2>1, <2>2, <2>3, <2>4, <2>5, <2>6 DEF World
<1>5. CASE Restarting
  BY <1>5 DEF Restarting, Begin, Load, LoadFails, OpenRows, Loaded, Resolve, Resolved
<1>6. CASE Asking
  <2>1. ASSUME NEW n \in Attempts, PollFails(n)
        PROVE  Traced'
    BY <2>1 DEF PollFails
  <2>2. ASSUME NEW n \in Attempts, PollWaits(n)
        PROVE  Traced'
    BY <2>2 DEF PollWaits
  <2>3. ASSUME NEW n \in Attempts, PollEnds(n)
        PROVE  Traced'
    BY <2>3 DEF PollEnds
  <2>5. CASE PollsDone
    BY <2>5 DEF PollsDone
  <2>6. CASE Cancel
    BY <2>6 DEF Cancel
  <2>7. CASE CancelTooLate
    BY <2>7 DEF CancelTooLate
  <2>8. CASE CancelFails
    BY <2>8, CancelExch DEF CancelFails
  <2>9. CASE Recheck
    BY <2>9 DEF Recheck
  <2>10. CASE RecheckFails
    BY <2>10 DEF RecheckFails
  <2>11. CASE Requery
    BY <2>11 DEF Requery
  <2>12. CASE RequeryFails
    BY <2>12 DEF RequeryFails
  <2> QED
    BY <1>6, <2>1, <2>2, <2>3, <2>5, <2>6, <2>7, <2>8, <2>9, <2>10, <2>11, <2>12 DEF
      Asking
<1>7. CASE Booking
  <2>1. CASE FinUpsert
    BY <2>1 DEF FinUpsert, Upsert, MarkClosed
  <2>2. CASE FinClose
    BY <2>2 DEF FinClose, Close, MarkClosed
  <2>3. CASE FinDone
    BY <2>3 DEF FinDone
  <2> QED
    BY <1>7, <2>1, <2>2, <2>3 DEF Booking
<1>8. CASE Planning
  <2>1. CASE MakePlan
    BY <2>1 DEF MakePlan, Candidates
  <2>2. CASE EntersDone
    BY <2>2 DEF EntersDone
  <2>3. ASSUME NEW i \in Intents, Skip(i)
        PROVE  Traced'
    BY <2>3 DEF Skip
  <2>4. ASSUME NEW i \in Intents, Journal(i)
        PROVE  Traced'
    BY <2>4 DEF Journal
  <2>5. ASSUME NEW i \in Intents, JournalFails(i)
        PROVE  Traced'
    BY <2>5 DEF JournalFails
  <2> QED
    BY <1>8, <2>1, <2>2, <2>3, <2>4, <2>5 DEF Planning
<1>9. CASE Submitting
  <2>1. CASE SubmitAccepted
    BY <2>1, SubmitTraced
  <2>2. CASE SubmitRefused
    BY <2>2 DEF SubmitRefused
  <2>3. CASE SubmitMaybe
    BY <2>3, SubmitTraced
  <2>4. CASE Confirm
    BY <2>4 DEF Confirm
  <2> QED
    BY <1>9, <2>1, <2>2, <2>3, <2>4 DEF Submitting
<1>10. CASE Losing
  <2>1. CASE Unjournal
    BY <2>1 DEF Unjournal
  <2>2. CASE LostUpsert
    BY <2>2 DEF LostUpsert, InWindow, Upsert, MarkClosed, AfterLost
  <2>3. CASE LostClose
    BY <2>3 DEF LostClose, Close, MarkClosed, AfterLost
  <2> QED
    BY <1>10, <2>1, <2>2, <2>3 DEF Losing
<1>11. CASE UNCHANGED vars
  BY <1>11 DEF vars
<1> QED
  BY <1>1, <1>2, <1>3, <1>4, <1>5, <1>6, <1>7, <1>8, <1>9, <1>10, <1>11 DEF Next, Loop

\* Intents with an accepted order stay barred.
LEMMA BarredNext ==
  ASSUME TypeOK, Numbered, Followed, Remembered, Traced, Barred, Fresh, [Next]_vars
  PROVE  Barred'
<1> USE EntryAssumption DEF TypeOK, TypeStore, TypeExchange, TypeMemory, TypeLoop,
      Attempts, Numbered, HandPCs, store, exchange, engine, memory, hand, agenda, loop,
      history, Works, Fails, Return, Mine, Traced, Barred, Remembered, Guarded, LosingPCs,
      Followed
<1>1. CASE Start
  BY <1>1, StartBarred
<1>2. CASE Crash
  BY <1>2 DEF Crash, InWindow
<1>3. CASE Lots
  <2>1. ASSUME NEW i \in Intents, SyncAdopt(i)
        PROVE  Barred'
    BY <2>1 DEF SyncAdopt
  <2>2. ASSUME NEW i \in Intents, CloseLot(i)
        PROVE  Barred'
    BY <2>2 DEF CloseLot, Close, MarkClosed
  <2> QED
    BY <1>3, <2>1, <2>2 DEF Lots
<1>4. CASE World
  <2>1. ASSUME NEW i \in Intents, Deliver(i)
        PROVE  Barred'
    BY <2>1 DEF Deliver
  <2>2. ASSUME NEW i \in Intents, ShortExpires(i)
        PROVE  Barred'
    BY <2>2 DEF ShortExpires
  <2>3. ASSUME NEW n \in Attempts, FillOrder(n)
        PROVE  Barred'
    BY <2>3 DEF FillOrder
  <2>4. ASSUME NEW n \in Attempts, KillOrder(n)
        PROVE  Barred'
    BY <2>4 DEF KillOrder
  <2>5. ASSUME NEW n \in Attempts, DeadlinePass(n)
        PROVE  Barred'
    BY <2>5 DEF DeadlinePass
  <2>6. ASSUME NEW n \in Attempts, Relist(n)
        PROVE  Barred'
    BY <2>6 DEF Relist
  <2> QED
    BY <1>4, <2>1, <2>2, <2>3, <2>4, <2>5, <2>6 DEF World
<1>5. CASE Restarting
  <2>1. CASE Begin
    BY <2>1 DEF Begin
  <2>2. CASE Load
    BY <2>2 DEF Load
  <2>3. CASE LoadFails
    BY <2>3 DEF LoadFails, OpenRows
  <2>4. CASE Loaded
    BY <2>4 DEF Loaded
  <2>5. ASSUME NEW n \in Attempts, Resolve(n)
        PROVE  Barred'
    BY <2>5 DEF Resolve
  <2>6. CASE Resolved
    BY <2>6 DEF Resolved
  <2> QED
    BY <1>5, <2>1, <2>2, <2>3, <2>4, <2>5, <2>6 DEF Restarting
<1>6. CASE Asking
  <2>1. ASSUME NEW n \in Attempts, PollFails(n)
        PROVE  Barred'
    BY <2>1 DEF PollFails
  <2>2. ASSUME NEW n \in Attempts, PollWaits(n)
        PROVE  Barred'
    BY <2>2 DEF PollWaits
  <2>3. ASSUME NEW n \in Attempts, PollEnds(n)
        PROVE  Barred'
    BY <2>3 DEF PollEnds
  <2>5. CASE PollsDone
    BY <2>5 DEF PollsDone
  <2>6. CASE Cancel
    BY <2>6 DEF Cancel
  <2>7. CASE CancelTooLate
    BY <2>7 DEF CancelTooLate
  <2>8. CASE CancelFails
    BY <2>8, CancelExch DEF CancelFails
  <2>9. CASE Recheck
    BY <2>9 DEF Recheck
  <2>10. CASE RecheckFails
    BY <2>10 DEF RecheckFails
  <2>11. CASE Requery
    BY <2>11 DEF Requery
  <2>12. CASE RequeryFails
    BY <2>12 DEF RequeryFails
  <2> QED
    BY <1>6, <2>1, <2>2, <2>3, <2>5, <2>6, <2>7, <2>8, <2>9, <2>10, <2>11, <2>12 DEF
      Asking
<1>7. CASE Booking
  <2>1. CASE FinUpsert
    BY <2>1 DEF FinUpsert, Upsert, MarkClosed
  <2>2. CASE FinClose
    BY <2>2 DEF FinClose, Close, MarkClosed
  <2>3. CASE FinDone
    BY <2>3 DEF FinDone
  <2> QED
    BY <1>7, <2>1, <2>2, <2>3 DEF Booking
<1>8. CASE Planning
  <2>1. CASE MakePlan
    BY <2>1 DEF MakePlan, Candidates
  <2>2. CASE EntersDone
    BY <2>2 DEF EntersDone
  <2>3. ASSUME NEW i \in Intents, Skip(i)
        PROVE  Barred'
    BY <2>3 DEF Skip
  <2>4. ASSUME NEW i \in Intents, Journal(i)
        PROVE  Barred'
    BY <2>4 DEF Journal
  <2>5. ASSUME NEW i \in Intents, JournalFails(i)
        PROVE  Barred'
    BY <2>5 DEF JournalFails
  <2> QED
    BY <1>8, <2>1, <2>2, <2>3, <2>4, <2>5 DEF Planning
<1>9. CASE Submitting
  <2>1. CASE SubmitAccepted
    BY <2>1 DEF SubmitAccepted
  <2>2. CASE SubmitRefused
    BY <2>2 DEF SubmitRefused
  <2>3. CASE SubmitMaybe
    BY <2>3 DEF SubmitMaybe
  <2>4. CASE Confirm
    BY <2>4 DEF Confirm
  <2> QED
    BY <1>9, <2>1, <2>2, <2>3, <2>4 DEF Submitting
<1>10. CASE Losing
  <2>1. CASE Unjournal
    BY <2>1, UnjournalBarred
  <2>2. CASE LostUpsert
    BY <2>2 DEF LostUpsert, InWindow, Upsert, MarkClosed, AfterLost
  <2>3. CASE LostClose
    BY <2>3 DEF LostClose, Close, MarkClosed, AfterLost
  <2> QED
    BY <1>10, <2>1, <2>2, <2>3 DEF Losing
<1>11. CASE UNCHANGED vars
  BY <1>11 DEF vars
<1> QED
  BY <1>1, <1>2, <1>3, <1>4, <1>5, <1>6, <1>7, <1>8, <1>9, <1>10, <1>11 DEF Next, Loop

\* What is about to be bought was not bought yet.
LEMMA FreshNext ==
  ASSUME TypeOK, Numbered, Followed, Barred, Fresh, [Next]_vars
  PROVE  Fresh'
<1> USE EntryAssumption DEF TypeOK, TypeStore, TypeExchange, TypeMemory, TypeLoop,
      Attempts, Numbered, HandPCs, store, exchange, engine, memory, hand, agenda, loop,
      history, Works, Fails, Return, Mine, Barred, Guarded, LosingPCs, Fresh, Accepted
<1>1. CASE Start
  BY <1>1 DEF Start
<1>2. CASE Crash
  BY <1>2 DEF Crash, InWindow
<1>3. CASE Lots
  <2>1. ASSUME NEW i \in Intents, SyncAdopt(i)
        PROVE  Fresh'
    BY <2>1 DEF SyncAdopt
  <2>2. ASSUME NEW i \in Intents, CloseLot(i)
        PROVE  Fresh'
    BY <2>2 DEF CloseLot, Close, MarkClosed
  <2> QED
    BY <1>3, <2>1, <2>2 DEF Lots
<1>4. CASE World
  <2>1. ASSUME NEW i \in Intents, Deliver(i)
        PROVE  Fresh'
    BY <2>1 DEF Deliver
  <2>2. ASSUME NEW i \in Intents, ShortExpires(i)
        PROVE  Fresh'
    BY <2>2 DEF ShortExpires
  <2>3. ASSUME NEW n \in Attempts, FillOrder(n)
        PROVE  Fresh'
    BY <2>3 DEF FillOrder
  <2>4. ASSUME NEW n \in Attempts, KillOrder(n)
        PROVE  Fresh'
    BY <2>4 DEF KillOrder
  <2>5. ASSUME NEW n \in Attempts, DeadlinePass(n)
        PROVE  Fresh'
    BY <2>5 DEF DeadlinePass
  <2>6. ASSUME NEW n \in Attempts, Relist(n)
        PROVE  Fresh'
    BY <2>6 DEF Relist
  <2> QED
    BY <1>4, <2>1, <2>2, <2>3, <2>4, <2>5, <2>6 DEF World
<1>5. CASE Restarting
  <2>1. CASE Begin
    BY <2>1 DEF Begin
  <2>2. CASE Load
    BY <2>2 DEF Load, OpenRows
  <2>3. CASE LoadFails
    BY <2>3 DEF LoadFails
  <2>4. CASE Loaded
    BY <2>4 DEF Loaded
  <2>5. CASE Resolved
    BY <2>5 DEF Resolved
  <2>6. ASSUME NEW n \in Attempts, Resolve(n)
        PROVE  Fresh'
    BY <2>6 DEF Resolve
  <2> QED
    BY <1>5, <2>1, <2>2, <2>3, <2>4, <2>5, <2>6 DEF Restarting
<1>6. CASE Asking
  <2>1. ASSUME NEW n \in Attempts, PollFails(n)
        PROVE  Fresh'
    BY <2>1 DEF PollFails
  <2>2. ASSUME NEW n \in Attempts, PollWaits(n)
        PROVE  Fresh'
    BY <2>2 DEF PollWaits
  <2>3. ASSUME NEW n \in Attempts, PollEnds(n)
        PROVE  Fresh'
    BY <2>3 DEF PollEnds
  <2>5. CASE PollsDone
    BY <2>5 DEF PollsDone
  <2>6. CASE Cancel
    BY <2>6 DEF Cancel
  <2>7. CASE CancelTooLate
    BY <2>7 DEF CancelTooLate
  <2>8. CASE CancelFails
    BY <2>8, CancelExch DEF CancelFails
  <2>9. CASE Recheck
    BY <2>9 DEF Recheck
  <2>10. CASE RecheckFails
    BY <2>10 DEF RecheckFails
  <2>11. CASE Requery
    BY <2>11 DEF Requery
  <2>12. CASE RequeryFails
    BY <2>12 DEF RequeryFails
  <2> QED
    BY <1>6, <2>1, <2>2, <2>3, <2>5, <2>6, <2>7, <2>8, <2>9, <2>10, <2>11, <2>12 DEF
      Asking
<1>7. CASE Booking
  <2>1. CASE FinUpsert
    BY <2>1 DEF FinUpsert, Upsert, MarkClosed
  <2>2. CASE FinClose
    BY <2>2 DEF FinClose, Close, MarkClosed
  <2>3. CASE FinDone
    BY <2>3 DEF FinDone
  <2> QED
    BY <1>7, <2>1, <2>2, <2>3 DEF Booking
<1>8. CASE Planning
  <2>1. CASE MakePlan
    BY <2>1 DEF MakePlan, Candidates
  <2>2. CASE EntersDone
    BY <2>2 DEF EntersDone
  <2>3. ASSUME NEW i \in Intents, Skip(i)
        PROVE  Fresh'
    BY <2>3 DEF Skip
  <2>4. ASSUME NEW i \in Intents, Journal(i)
        PROVE  Fresh'
    BY <2>4 DEF Journal
  <2>5. ASSUME NEW i \in Intents, JournalFails(i)
        PROVE  Fresh'
    BY <2>5 DEF JournalFails
  <2> QED
    BY <1>8, <2>1, <2>2, <2>3, <2>4, <2>5 DEF Planning
<1>9. CASE Submitting
  <2>1. CASE SubmitAccepted
    BY <2>1 DEF SubmitAccepted
  <2>2. CASE SubmitRefused
    BY <2>2 DEF SubmitRefused
  <2>3. CASE SubmitMaybe
    BY <2>3 DEF SubmitMaybe
  <2>4. CASE Confirm
    BY <2>4 DEF Confirm
  <2> QED
    BY <1>9, <2>1, <2>2, <2>3, <2>4 DEF Submitting
<1>10. CASE Losing
  <2>1. CASE Unjournal
    BY <2>1 DEF Unjournal, AfterLost
  <2>2. CASE LostUpsert
    BY <2>2 DEF LostUpsert, InWindow, Upsert, MarkClosed, AfterLost
  <2>3. CASE LostClose
    BY <2>3 DEF LostClose, Close, MarkClosed, AfterLost
  <2> QED
    BY <1>10, <2>1, <2>2, <2>3 DEF Losing
<1>11. CASE UNCHANGED vars
  BY <1>11 DEF vars
<1> QED
  BY <1>1, <1>2, <1>3, <1>4, <1>5, <1>6, <1>7, <1>8, <1>9, <1>10, <1>11 DEF Next, Loop

\* No step buys an intent again.
LEMMA NoRebuyNext ==
  ASSUME TypeOK, Numbered, Followed, Fresh, NoRebuy, [Next]_vars
  PROVE  NoRebuy'
<1> USE EntryAssumption DEF TypeOK, TypeStore, TypeExchange, TypeMemory, TypeLoop,
      Attempts, Numbered, HandPCs, store, exchange, engine, memory, hand, agenda, loop,
      history, Works, Fails, Return, Mine, Fresh, NoRebuy, Accepted, Followed
<1>1. CASE Start
  BY <1>1 DEF Start
<1>2. CASE Crash
  BY <1>2 DEF Crash, InWindow
<1>3. CASE Lots
  <2>1. ASSUME NEW i \in Intents, SyncAdopt(i)
        PROVE  NoRebuy'
    BY <2>1 DEF SyncAdopt
  <2>2. ASSUME NEW i \in Intents, CloseLot(i)
        PROVE  NoRebuy'
    BY <2>2 DEF CloseLot, Close, MarkClosed
  <2> QED
    BY <1>3, <2>1, <2>2 DEF Lots
<1>4. CASE World
  <2>1. ASSUME NEW i \in Intents, Deliver(i)
        PROVE  NoRebuy'
    BY <2>1 DEF Deliver
  <2>2. ASSUME NEW i \in Intents, ShortExpires(i)
        PROVE  NoRebuy'
    BY <2>2 DEF ShortExpires
  <2>3. ASSUME NEW n \in Attempts, FillOrder(n)
        PROVE  NoRebuy'
    BY <2>3 DEF FillOrder
  <2>4. ASSUME NEW n \in Attempts, KillOrder(n)
        PROVE  NoRebuy'
    BY <2>4 DEF KillOrder
  <2>5. ASSUME NEW n \in Attempts, DeadlinePass(n)
        PROVE  NoRebuy'
    BY <2>5 DEF DeadlinePass
  <2>6. ASSUME NEW n \in Attempts, Relist(n)
        PROVE  NoRebuy'
    BY <2>6 DEF Relist
  <2> QED
    BY <1>4, <2>1, <2>2, <2>3, <2>4, <2>5, <2>6 DEF World
<1>5. CASE Restarting
  <2>1. CASE Begin
    BY <2>1 DEF Begin
  <2>2. CASE Load
    BY <2>2 DEF Load, OpenRows
  <2>3. CASE LoadFails
    BY <2>3 DEF LoadFails
  <2>4. CASE Loaded
    BY <2>4 DEF Loaded
  <2>5. CASE Resolved
    BY <2>5 DEF Resolved
  <2>6. ASSUME NEW n \in Attempts, Resolve(n)
        PROVE  NoRebuy'
    BY <2>6 DEF Resolve
  <2> QED
    BY <1>5, <2>1, <2>2, <2>3, <2>4, <2>5, <2>6 DEF Restarting
<1>6. CASE Asking
  <2>1. ASSUME NEW n \in Attempts, PollFails(n)
        PROVE  NoRebuy'
    BY <2>1 DEF PollFails
  <2>2. ASSUME NEW n \in Attempts, PollWaits(n)
        PROVE  NoRebuy'
    BY <2>2 DEF PollWaits
  <2>3. ASSUME NEW n \in Attempts, PollEnds(n)
        PROVE  NoRebuy'
    BY <2>3 DEF PollEnds
  <2>5. CASE PollsDone
    BY <2>5 DEF PollsDone
  <2>6. CASE Cancel
    BY <2>6 DEF Cancel
  <2>7. CASE CancelTooLate
    BY <2>7 DEF CancelTooLate
  <2>8. CASE CancelFails
    BY <2>8, CancelExch DEF CancelFails
  <2>9. CASE Recheck
    BY <2>9 DEF Recheck
  <2>10. CASE RecheckFails
    BY <2>10 DEF RecheckFails
  <2>11. CASE Requery
    BY <2>11 DEF Requery
  <2>12. CASE RequeryFails
    BY <2>12 DEF RequeryFails
  <2> QED
    BY <1>6, <2>1, <2>2, <2>3, <2>5, <2>6, <2>7, <2>8, <2>9, <2>10, <2>11, <2>12 DEF
      Asking
<1>7. CASE Booking
  <2>1. CASE FinUpsert
    BY <2>1 DEF FinUpsert, Upsert, MarkClosed
  <2>2. CASE FinClose
    BY <2>2 DEF FinClose, Close, MarkClosed
  <2>3. CASE FinDone
    BY <2>3 DEF FinDone
  <2> QED
    BY <1>7, <2>1, <2>2, <2>3 DEF Booking
<1>8. CASE Planning
  <2>1. CASE MakePlan
    BY <2>1 DEF MakePlan, Candidates
  <2>2. CASE EntersDone
    BY <2>2 DEF EntersDone
  <2>3. ASSUME NEW i \in Intents, Skip(i)
        PROVE  NoRebuy'
    BY <2>3 DEF Skip
  <2>4. ASSUME NEW i \in Intents, Journal(i)
        PROVE  NoRebuy'
    BY <2>4 DEF Journal
  <2>5. ASSUME NEW i \in Intents, JournalFails(i)
        PROVE  NoRebuy'
    BY <2>5 DEF JournalFails
  <2> QED
    BY <1>8, <2>1, <2>2, <2>3, <2>4, <2>5 DEF Planning
<1>9. CASE Submitting
  <2>1. CASE SubmitAccepted
    BY <2>1, SubmitNoRebuy
  <2>2. CASE SubmitRefused
    BY <2>2 DEF SubmitRefused
  <2>3. CASE SubmitMaybe
    BY <2>3, SubmitNoRebuy
  <2>4. CASE Confirm
    BY <2>4 DEF Confirm
  <2> QED
    BY <1>9, <2>1, <2>2, <2>3, <2>4 DEF Submitting
<1>10. CASE Losing
  <2>1. CASE Unjournal
    BY <2>1 DEF Unjournal
  <2>2. CASE LostUpsert
    BY <2>2 DEF LostUpsert, InWindow, Upsert, MarkClosed, AfterLost
  <2>3. CASE LostClose
    BY <2>3 DEF LostClose, Close, MarkClosed, AfterLost
  <2> QED
    BY <1>10, <2>1, <2>2, <2>3 DEF Losing
<1>11. CASE UNCHANGED vars
  BY <1>11 DEF vars
<1> QED
  BY <1>1, <1>2, <1>3, <1>4, <1>5, <1>6, <1>7, <1>8, <1>9, <1>10, <1>11 DEF Next, Loop

\* The initial state: nothing was bought, nothing is known.
LEMMA InitIInv == Init => IInv
<1> SUFFICES ASSUME Init
             PROVE  IInv
  OBVIOUS
<1>1. TypeStore /\ TypeExchange
  BY EntryAssumption DEF Init, TypeStore, TypeExchange
<1>2. TypeMemory
  BY DEF Init, TypeMemory
<1>3. TypeLoop
  BY EntryAssumption DEF Init, TypeLoop, PCs
<1>4. Numbered
  BY EntryAssumption DEF Init, Numbered, HandPCs, Attempts
<1>5. Followed /\ Remembered /\ Traced /\ Barred
  BY DEF Init, Followed, SettlingPCs, Remembered, Traced, Barred
<1>6. Fresh /\ NoRebuy
  BY DEF Init, Fresh, NoRebuy
<1> QED
  BY <1>1, <1>2, <1>3, <1>4, <1>5, <1>6 DEF IInv, TypeOK

\* Every step keeps the invariant.
LEMMA NextIInv == IInv /\ [Next]_vars => IInv'
<1> SUFFICES ASSUME IInv, [Next]_vars
             PROVE  IInv'
  OBVIOUS
<1>1. TypeOK'
  BY TypeStoreNext, TypeExchangeNext, TypeMemoryNext, TypeLoopNext DEF IInv, TypeOK
<1>2. Numbered' /\ Followed' /\ Remembered'
  BY NumberedNext, FollowedNext, RememberedNext DEF IInv
<1>3. Traced' /\ Barred'
  BY TracedNext, BarredNext DEF IInv
<1>4. Fresh' /\ NoRebuy'
  BY FreshNext, NoRebuyNext DEF IInv
<1> QED
  BY <1>1, <1>2, <1>3, <1>4 DEF IInv

\* The invariant holds in every state the executor reaches.
THEOREM Invariance == Spec => []IInv
  BY InitIInv, NextIInv, PTL DEF Spec

\* Every variable keeps its type in every behaviour of the executor.
THEOREM TypeCorrect == Spec => []TypeOK
<1>1. IInv => TypeOK
  BY DEF IInv
<1> QED
  BY <1>1, Invariance, PTL

\* An intent whose trace was not lost is bought at most once: for any targets,
\* any number of crashes and failed calls, and any behaviour of the exchange.
THEOREM BoughtAtMostOnce == Spec => []NoRebuy
<1>1. IInv => NoRebuy
  BY DEF IInv
<1> QED
  BY <1>1, Invariance, PTL

-----------------------------------------------------------------------------
(* The books, and what is promised of them.                                *)

\* Intents that are planned have no row in the store, up to the submission
Planned ==
  /\ enters # {} => pc \in {"enter", "submit", "confirm"} \cup LosingPCs
  /\ pc \in LosingPCs /\ outcome = "restart" => enters = {}
  /\ pc \in {"submit", "confirm"} \cup LosingPCs => Mine \notin enters
  /\ \A i \in enters : row[i] = "none"
  /\ pc = "submit" => row[Mine] = "none"

\* Unconfirmed rows are open until they are closed
Journalled ==
  /\ pc \in {"submit", "confirm", "unjournal"} => jour[cur] = "pre"
  /\ pc \in {"lostUpsert", "lostClose"} /\ outcome = "restart" => jour[cur] = "pre"
  /\ pc = "resolve" \/ (pc \in LosingPCs /\ outcome = "restart") => \A n \in todo : jour[n] = "pre"
  /\ pc \in LosingPCs /\ outcome = "restart" => cur \notin todo
  /\ pc \in {"lostUpsert", "lostClose"} => outcome \in {"maybe", "restart"}
  /\ pc \in {"finClose", "lostClose"} => row[Mine] # "none"

\* What the cockpit could not learn is known as such
Doubted ==
  /\ pc \in LosingPCs /\ outcome \in {"maybe", "restart"} => Mine \in unsure
  /\ \A n \in work : jour[n] = "done" => owner[n] \in unsure

\* The shares of an order are read when it can fill no more
Sighted ==
  /\ \A n \in Attempts : exch[n] # "dead" => filled[n] < Qty
  /\ pc = "recheck" => exch[cur] = "dead"
  /\ pc = "finUpsert" /\ Mine \notin unsure \cup exposed => exch[cur] = "dead" /\ seen = filled[cur]

\* and written before the order is let go of
Written ==
  /\ pc \in {"finClose", "finDone"} /\ Mine \notin unsure \cup exposed =>
       exch[cur] = "dead" /\ row[Mine] # "none" /\ qty[Mine] = filled[cur]
  /\ Booked

BInv == Planned /\ Journalled /\ Doubted /\ Sighted /\ Written

-----------------------------------------------------------------------------
(* The steps.                                                              *)

\* The plan holds nothing that has a row, whatever comes between the plan and the
\* submission.
LEMMA PlannedNext ==
  ASSUME IInv, Planned, [Next]_vars
  PROVE  Planned'
<1> USE DEF Planned, Mine, LosingPCs, store, exchange, engine, memory, hand, agenda, loop, history
<1>1. CASE Start
  BY <1>1 DEF Start
<1>2. CASE Crash
  BY <1>2 DEF Crash, InWindow
<1>3. CASE Lots
  <2>1. ASSUME NEW i \in Intents, SyncAdopt(i)
        PROVE  Planned'
    BY <2>1 DEF SyncAdopt
  <2>2. ASSUME NEW i \in Intents, CloseLot(i)
        PROVE  Planned'
    BY <2>2 DEF CloseLot, Close, MarkClosed
  <2> QED BY <1>3, <2>1, <2>2 DEF Lots
<1>4. CASE World
  <2>1. ASSUME NEW i \in Intents, Deliver(i)
        PROVE  Planned'
    BY <2>1 DEF Deliver
  <2>2. ASSUME NEW i \in Intents, ShortExpires(i)
        PROVE  Planned'
    BY <2>2 DEF ShortExpires
  <2>3. ASSUME NEW n \in Attempts, FillOrder(n)
        PROVE  Planned'
    BY <2>3 DEF FillOrder
  <2>4. ASSUME NEW n \in Attempts, KillOrder(n)
        PROVE  Planned'
    BY <2>4 DEF KillOrder
  <2>5. ASSUME NEW n \in Attempts, DeadlinePass(n)
        PROVE  Planned'
    BY <2>5 DEF DeadlinePass
  <2>6. ASSUME NEW n \in Attempts, Relist(n)
        PROVE  Planned'
    BY <2>6 DEF Relist
  <2> QED BY <1>4, <2>1, <2>2, <2>3, <2>4, <2>5, <2>6 DEF World
<1>5. CASE Restarting
  <2>1. CASE Begin
    BY <2>1 DEF Begin
  <2>2. CASE Load
    BY <2>2 DEF Load
  <2>3. CASE LoadFails
    BY <2>3 DEF LoadFails, OpenRows
  <2>4. CASE Loaded
    BY <2>4 DEF Loaded
  <2>5. ASSUME NEW n \in Attempts, Resolve(n)
        PROVE  Planned'
    BY <2>5 DEF Resolve
  <2>6. CASE Resolved
    BY <2>6 DEF Resolved
  <2> QED BY <1>5, <2>1, <2>2, <2>3, <2>4, <2>5, <2>6 DEF Restarting
<1>6. CASE Asking
  <2>1. ASSUME NEW n \in Attempts, PollFails(n)
        PROVE  Planned'
    BY <2>1 DEF PollFails
  <2>2. ASSUME NEW n \in Attempts, PollWaits(n)
        PROVE  Planned'
    BY <2>2 DEF PollWaits
  <2>3. ASSUME NEW n \in Attempts, PollEnds(n)
        PROVE  Planned'
    BY <2>3 DEF PollEnds, Over
  <2>5. CASE PollsDone
    BY <2>5 DEF PollsDone, IInv, TypeOK, TypeLoop
  <2>6. CASE Cancel
    BY <2>6 DEF Cancel
  <2>7. CASE CancelTooLate
    BY <2>7 DEF CancelTooLate
  <2>8. CASE CancelFails
    BY <2>8 DEF CancelFails
  <2>9. CASE Recheck
    BY <2>9 DEF Recheck
  <2>10. CASE RecheckFails
    BY <2>10 DEF RecheckFails
  <2>11. CASE Requery
    BY <2>11 DEF Requery, Over, Return
  <2>12. CASE RequeryFails
    BY <2>12 DEF RequeryFails, Return
  <2> QED BY <1>6, <2>1, <2>2, <2>3, <2>5, <2>6, <2>7, <2>8, <2>9, <2>10, <2>11, <2>12 DEF
     Asking
<1>7. CASE Booking
  <2>1. CASE FinUpsert
    BY <2>1 DEF FinUpsert, Upsert, MarkClosed
  <2>2. CASE FinClose
    BY <2>2 DEF FinClose, Close, MarkClosed
  <2>3. CASE FinDone
    BY <2>3 DEF FinDone, Return
  <2> QED BY <1>7, <2>1, <2>2, <2>3 DEF Booking
<1>8. CASE Planning
  <2>1. CASE MakePlan
    <3>1. \A i \in enters' : i \in Intents /\ ~Guarded(i)
      BY <2>1 DEF MakePlan, Candidates, Guarded, IInv, TypeOK, TypeMemory
    <3>2. \A i \in enters' : row[i] = "none"
      BY <2>1, <3>1 DEF MakePlan, IInv, Remembered
    <3> QED BY <2>1, <3>2 DEF MakePlan
  <2>2. CASE EntersDone
    BY <2>2 DEF EntersDone
  <2>3. ASSUME NEW i \in Intents, Skip(i)
        PROVE  Planned'
    BY <2>3 DEF Skip
  <2>4. ASSUME NEW i \in Intents, Journal(i)
        PROVE  Planned'
    <3>1. made + 1 \in Attempts
      BY <2>4, EntryAssumption DEF Journal, Attempts, IInv, TypeOK, TypeStore
    <3>2. cur' = made + 1 /\ owner'[cur'] = i
      BY <2>4, <3>1 DEF Journal, IInv, TypeOK, TypeStore
    <3> QED BY <2>4, <3>2 DEF Journal
  <2>5. ASSUME NEW i \in Intents, JournalFails(i)
        PROVE  Planned'
    BY <2>5 DEF JournalFails
  <2> QED BY <1>8, <2>1, <2>2, <2>3, <2>4, <2>5 DEF Planning
<1>9. CASE Submitting
  <2>1. CASE SubmitAccepted
    BY <2>1 DEF SubmitAccepted
  <2>2. CASE SubmitRefused
    BY <2>2 DEF SubmitRefused
  <2>3. CASE SubmitMaybe
    BY <2>3 DEF SubmitMaybe
  <2>4. CASE Confirm
    BY <2>4 DEF Confirm, Return
  <2> QED BY <1>9, <2>1, <2>2, <2>3, <2>4 DEF Submitting
<1>10. CASE Losing
  <2>1. CASE Unjournal
    BY <2>1 DEF Unjournal, Return
  <2>2. CASE LostUpsert
    <3>1. \A i \in enters : row'[i] = row[i]
      BY <2>2 DEF LostUpsert, Upsert, IInv, TypeOK, TypeStore, TypeLoop
    <3> QED BY <2>2, <3>1 DEF LostUpsert, AfterLost, Return
  <2>3. CASE LostClose
    <3>1. \A i \in enters : row'[i] = row[i]
      BY <2>3 DEF LostClose, Close, IInv, TypeOK, TypeStore, TypeLoop
    <3> QED BY <2>3, <3>1 DEF LostClose, AfterLost, Return
  <2> QED BY <1>10, <2>1, <2>2, <2>3 DEF Losing
<1>11. CASE UNCHANGED vars
  BY <1>11 DEF vars
<1> QED
  BY <1>1, <1>2, <1>3, <1>4, <1>5, <1>6, <1>7, <1>8, <1>9, <1>10, <1>11 DEF Next, Loop

\* The row of the attempt in hand is open until the step that closes it.
LEMMA JournalledNext ==
  ASSUME IInv, Journalled, [Next]_vars
  PROVE  Journalled'
<1> USE DEF Journalled, Mine, LosingPCs, store, exchange, engine, memory, hand, agenda, loop,
       history
<1>1. CASE Start
  BY <1>1 DEF Start
<1>2. CASE Crash
  BY <1>2 DEF Crash, InWindow
<1>3. CASE Lots
  <2>1. ASSUME NEW i \in Intents, SyncAdopt(i)
        PROVE  Journalled'
    BY <2>1 DEF SyncAdopt
  <2>2. ASSUME NEW i \in Intents, CloseLot(i)
        PROVE  Journalled'
    BY <2>2 DEF CloseLot, Close, MarkClosed
  <2> QED BY <1>3, <2>1, <2>2 DEF Lots
<1>4. CASE World
  <2>1. ASSUME NEW i \in Intents, Deliver(i)
        PROVE  Journalled'
    BY <2>1 DEF Deliver
  <2>2. ASSUME NEW i \in Intents, ShortExpires(i)
        PROVE  Journalled'
    BY <2>2 DEF ShortExpires
  <2>3. ASSUME NEW n \in Attempts, FillOrder(n)
        PROVE  Journalled'
    BY <2>3 DEF FillOrder
  <2>4. ASSUME NEW n \in Attempts, KillOrder(n)
        PROVE  Journalled'
    BY <2>4 DEF KillOrder
  <2>5. ASSUME NEW n \in Attempts, DeadlinePass(n)
        PROVE  Journalled'
    BY <2>5 DEF DeadlinePass
  <2>6. ASSUME NEW n \in Attempts, Relist(n)
        PROVE  Journalled'
    BY <2>6 DEF Relist
  <2> QED BY <1>4, <2>1, <2>2, <2>3, <2>4, <2>5, <2>6 DEF World
<1>5. CASE Restarting
  <2>1. CASE Begin
    BY <2>1 DEF Begin
  <2>2. CASE Load
    BY <2>2 DEF Load
  <2>3. CASE LoadFails
    BY <2>3 DEF LoadFails, OpenRows
  <2>4. CASE Loaded
    BY <2>4 DEF Loaded
  <2>5. ASSUME NEW n \in Attempts, Resolve(n)
        PROVE  Journalled'
    BY <2>5 DEF Resolve
  <2>6. CASE Resolved
    BY <2>6 DEF Resolved
  <2> QED BY <1>5, <2>1, <2>2, <2>3, <2>4, <2>5, <2>6 DEF Restarting
<1>6. CASE Asking
  <2>1. ASSUME NEW n \in Attempts, PollFails(n)
        PROVE  Journalled'
    BY <2>1 DEF PollFails
  <2>2. ASSUME NEW n \in Attempts, PollWaits(n)
        PROVE  Journalled'
    BY <2>2 DEF PollWaits
  <2>3. ASSUME NEW n \in Attempts, PollEnds(n)
        PROVE  Journalled'
    BY <2>3 DEF PollEnds, Over
  <2>5. CASE PollsDone
    BY <2>5 DEF PollsDone, IInv, TypeOK, TypeLoop
  <2>6. CASE Cancel
    BY <2>6 DEF Cancel
  <2>7. CASE CancelTooLate
    BY <2>7 DEF CancelTooLate
  <2>8. CASE CancelFails
    BY <2>8 DEF CancelFails
  <2>9. CASE Recheck
    BY <2>9 DEF Recheck
  <2>10. CASE RecheckFails
    BY <2>10 DEF RecheckFails
  <2>11. CASE Requery
    BY <2>11 DEF Requery, Over, Return
  <2>12. CASE RequeryFails
    BY <2>12 DEF RequeryFails, Return
  <2> QED BY <1>6, <2>1, <2>2, <2>3, <2>5, <2>6, <2>7, <2>8, <2>9, <2>10, <2>11, <2>12 DEF
     Asking
<1>7. CASE Booking
  <2>1. CASE FinUpsert
    <3>1. Mine \in Intents /\ row \in [Intents -> {"none", "open", "closed"}]
      BY <2>1, HandOwner DEF FinUpsert, HandPCs, IInv, TypeOK, TypeStore
    <3>2. pc' = "finClose" => row'[Mine] # "none"
      BY <2>1, <3>1 DEF FinUpsert, Upsert, Works, Fails, IInv, TypeOK, TypeLoop
    <3> QED BY <2>1, <3>2 DEF FinUpsert
  <2>2. CASE FinClose
    BY <2>2 DEF FinClose, Close, MarkClosed
  <2>3. CASE FinDone
    BY <2>3 DEF FinDone, Return
  <2> QED BY <1>7, <2>1, <2>2, <2>3 DEF Booking
<1>8. CASE Planning
  <2>1. CASE MakePlan
    BY <2>1 DEF MakePlan, Candidates
  <2>2. CASE EntersDone
    BY <2>2 DEF EntersDone
  <2>3. ASSUME NEW i \in Intents, Skip(i)
        PROVE  Journalled'
    BY <2>3 DEF Skip
  <2>4. ASSUME NEW i \in Intents, Journal(i)
        PROVE  Journalled'
    <3>1. made + 1 \in Attempts
      BY <2>4, EntryAssumption DEF Journal, Attempts, IInv, TypeOK, TypeStore
    <3>2. cur' = made + 1 /\ jour'[cur'] = "pre"
      BY <2>4, <3>1 DEF Journal, IInv, TypeOK, TypeStore
    <3> QED BY <2>4, <3>2 DEF Journal
  <2>5. ASSUME NEW i \in Intents, JournalFails(i)
        PROVE  Journalled'
    BY <2>5 DEF JournalFails
  <2> QED BY <1>8, <2>1, <2>2, <2>3, <2>4, <2>5 DEF Planning
<1>9. CASE Submitting
  <2>1. CASE SubmitAccepted
    BY <2>1 DEF SubmitAccepted, IInv, Traced
  <2>2. CASE SubmitRefused
    BY <2>2 DEF SubmitRefused
  <2>3. CASE SubmitMaybe
    BY <2>3 DEF SubmitMaybe
  <2>4. CASE Confirm
    BY <2>4 DEF Confirm, Return
  <2> QED BY <1>9, <2>1, <2>2, <2>3, <2>4 DEF Submitting
<1>10. CASE Losing
  <2>1. CASE Unjournal
    <3>1. cur \in Attempts /\ jour \in [Attempts -> {"none", "pre", "open", "done"}]
      BY <2>1, HandOwner DEF Unjournal, HandPCs, IInv, TypeOK, TypeStore
    <3>2. \A n \in Attempts \ {cur} : jour'[n] = jour[n]
      BY <2>1, <3>1 DEF Unjournal
    <3>3. outcome = "restart" => \A n \in todo : n \in Attempts /\ n # cur
      BY <2>1 DEF Unjournal, IInv, TypeOK, TypeLoop
    <3> QED BY <2>1, <3>2, <3>3 DEF Unjournal, Return
  <2>2. CASE LostUpsert
    <3>1. Mine \in Intents /\ row \in [Intents -> {"none", "open", "closed"}]
      BY <2>2, HandOwner DEF LostUpsert, HandPCs, IInv, TypeOK, TypeStore
    <3>2. pc' = "lostClose" => row'[Mine] # "none" /\ hand' = hand
      BY <2>2, <3>1 DEF LostUpsert, Upsert, AfterLost, Return
    <3>3. jour' = jour /\ owner' = owner /\ todo' = todo /\ pc = "lostUpsert"
      BY <2>2 DEF LostUpsert
    <3>4. \/ pc' = "lostClose" /\ hand' = hand
          \/ outcome = "restart" /\ pc' = "unjournal" /\ hand' = hand
          \/ pc' = "enter"
      BY <2>2 DEF LostUpsert, AfterLost, Return
    <3> QED BY <3>2, <3>3, <3>4
  <2>3. CASE LostClose
    <3>1. jour' = jour /\ owner' = owner /\ todo' = todo /\ pc = "lostClose"
      BY <2>3 DEF LostClose
    <3>2. \/ outcome = "restart" /\ pc' = "unjournal" /\ hand' = hand
          \/ pc' = "enter"
      BY <2>3 DEF LostClose, AfterLost, Return
    <3> QED BY <3>1, <3>2
  <2> QED BY <1>10, <2>1, <2>2, <2>3 DEF Losing
<1>11. CASE UNCHANGED vars
  BY <1>11 DEF vars
<1> QED
  BY <1>1, <1>2, <1>3, <1>4, <1>5, <1>6, <1>7, <1>8, <1>9, <1>10, <1>11 DEF Next, Loop

\* What was sent without an answer, and what was closed while it was followed, is in
\* doubt for good.
LEMMA DoubtedNext ==
  ASSUME IInv, Journalled, Doubted, [Next]_vars
  PROVE  Doubted'
<1> USE DEF Doubted, Mine, LosingPCs, store, exchange, engine, memory, hand, agenda, loop, history
<1>1. CASE Start
  BY <1>1 DEF Start
<1>2. CASE Crash
  BY <1>2 DEF Crash, InWindow
<1>3. CASE Lots
  <2>1. ASSUME NEW i \in Intents, SyncAdopt(i)
        PROVE  Doubted'
    BY <2>1 DEF SyncAdopt
  <2>2. ASSUME NEW i \in Intents, CloseLot(i)
        PROVE  Doubted'
    BY <2>2 DEF CloseLot, Close, MarkClosed
  <2> QED BY <1>3, <2>1, <2>2 DEF Lots
<1>4. CASE World
  <2>1. ASSUME NEW i \in Intents, Deliver(i)
        PROVE  Doubted'
    BY <2>1 DEF Deliver
  <2>2. ASSUME NEW i \in Intents, ShortExpires(i)
        PROVE  Doubted'
    BY <2>2 DEF ShortExpires
  <2>3. ASSUME NEW n \in Attempts, FillOrder(n)
        PROVE  Doubted'
    BY <2>3 DEF FillOrder
  <2>4. ASSUME NEW n \in Attempts, KillOrder(n)
        PROVE  Doubted'
    BY <2>4 DEF KillOrder
  <2>5. ASSUME NEW n \in Attempts, DeadlinePass(n)
        PROVE  Doubted'
    BY <2>5 DEF DeadlinePass
  <2>6. ASSUME NEW n \in Attempts, Relist(n)
        PROVE  Doubted'
    BY <2>6 DEF Relist
  <2> QED BY <1>4, <2>1, <2>2, <2>3, <2>4, <2>5, <2>6 DEF World
<1>5. CASE Restarting
  <2>1. CASE Begin
    BY <2>1 DEF Begin
  <2>2. CASE Load
    <3>1. \A n \in work' : n \in work \/ jour[n] = "open"
      BY <2>2 DEF Load
    <3> QED BY <2>2, <3>1 DEF Load
  <2>3. CASE LoadFails
    BY <2>3 DEF LoadFails, OpenRows
  <2>4. CASE Loaded
    BY <2>4 DEF Loaded
  <2>5. ASSUME NEW n \in Attempts, Resolve(n)
        PROVE  Doubted'
    BY <2>5 DEF Resolve
  <2>6. CASE Resolved
    BY <2>6 DEF Resolved
  <2> QED BY <1>5, <2>1, <2>2, <2>3, <2>4, <2>5, <2>6 DEF Restarting
<1>6. CASE Asking
  <2>1. ASSUME NEW n \in Attempts, PollFails(n)
        PROVE  Doubted'
    BY <2>1 DEF PollFails
  <2>2. ASSUME NEW n \in Attempts, PollWaits(n)
        PROVE  Doubted'
    BY <2>2 DEF PollWaits
  <2>3. ASSUME NEW n \in Attempts, PollEnds(n)
        PROVE  Doubted'
    BY <2>3 DEF PollEnds, Over
  <2>5. CASE PollsDone
    BY <2>5 DEF PollsDone, IInv, TypeOK, TypeLoop
  <2>6. CASE Cancel
    BY <2>6 DEF Cancel
  <2>7. CASE CancelTooLate
    BY <2>7 DEF CancelTooLate
  <2>8. CASE CancelFails
    BY <2>8 DEF CancelFails
  <2>9. CASE Recheck
    BY <2>9 DEF Recheck
  <2>10. CASE RecheckFails
    BY <2>10 DEF RecheckFails
  <2>11. CASE Requery
    BY <2>11 DEF Requery, Over, Return
  <2>12. CASE RequeryFails
    BY <2>12 DEF RequeryFails, Return
  <2> QED BY <1>6, <2>1, <2>2, <2>3, <2>5, <2>6, <2>7, <2>8, <2>9, <2>10, <2>11, <2>12 DEF
     Asking
<1>7. CASE Booking
  <2>1. CASE FinUpsert
    BY <2>1 DEF FinUpsert, Upsert, MarkClosed
  <2>2. CASE FinClose
    BY <2>2 DEF FinClose, Close, MarkClosed
  <2>3. CASE FinDone
    <3>1. cur \in Attempts /\ jour \in [Attempts -> {"none", "pre", "open", "done"}]
      BY <2>3, HandOwner DEF FinDone, HandPCs, IInv, TypeOK, TypeStore
    <3>2. \A n \in work' : n \in Attempts /\ n # cur /\ n \in work
      BY <2>3 DEF FinDone, IInv, TypeOK, TypeMemory
    <3>3. \A n \in work' : jour'[n] = jour[n]
      BY <2>3, <3>1, <3>2 DEF FinDone
    <3> QED BY <2>3, <3>2, <3>3 DEF FinDone, Return
  <2> QED BY <1>7, <2>1, <2>2, <2>3 DEF Booking
<1>8. CASE Planning
  <2>1. CASE MakePlan
    BY <2>1 DEF MakePlan, Candidates
  <2>2. CASE EntersDone
    BY <2>2 DEF EntersDone
  <2>3. ASSUME NEW i \in Intents, Skip(i)
        PROVE  Doubted'
    BY <2>3 DEF Skip
  <2>4. ASSUME NEW i \in Intents, Journal(i)
        PROVE  Doubted'
    <3>1. made + 1 \in Attempts
      BY <2>4, EntryAssumption DEF Journal, Attempts, IInv, TypeOK, TypeStore
    <3>2. \A n \in work : n \in Attempts /\ n # made + 1
      BY <2>4, EntryAssumption DEF IInv, TypeOK, TypeStore, TypeMemory, Followed, Numbered, Attempts
    <3>3. \A n \in work : owner'[n] = owner[n] /\ jour'[n] = jour[n]
      BY <2>4, <3>1, <3>2 DEF Journal, IInv, TypeOK, TypeStore
    <3> QED BY <2>4, <3>3 DEF Journal
  <2>5. ASSUME NEW i \in Intents, JournalFails(i)
        PROVE  Doubted'
    BY <2>5 DEF JournalFails
  <2> QED BY <1>8, <2>1, <2>2, <2>3, <2>4, <2>5 DEF Planning
<1>9. CASE Submitting
  <2>1. CASE SubmitAccepted
    BY <2>1 DEF SubmitAccepted
  <2>2. CASE SubmitRefused
    BY <2>2 DEF SubmitRefused
  <2>3. CASE SubmitMaybe
    BY <2>3 DEF SubmitMaybe
  <2>4. CASE Confirm
    <3>1. cur \in Attempts /\ jour \in [Attempts -> {"none", "pre", "open", "done"}]
      BY <2>4, HandOwner DEF Confirm, HandPCs, IInv, TypeOK, TypeStore
    <3>2. jour'[cur] # "done" /\ \A n \in Attempts \ {cur} : jour'[n] = jour[n]
      BY <2>4, <3>1 DEF Confirm, Journalled
    <3>3. work \subseteq Attempts
      BY DEF IInv, TypeOK, TypeMemory
    <3> QED BY <2>4, <3>2, <3>3 DEF Confirm, Return
  <2> QED BY <1>9, <2>1, <2>2, <2>3, <2>4 DEF Submitting
<1>10. CASE Losing
  <2>1. CASE Unjournal
    <3>1. cur \in Attempts /\ jour \in [Attempts -> {"none", "pre", "open", "done"}]
      BY <2>1, HandOwner DEF Unjournal, HandPCs, IInv, TypeOK, TypeStore
    <3>2. \A n \in Attempts \ {cur} : jour'[n] = jour[n]
      BY <2>1, <3>1 DEF Unjournal
    <3>3. cur \in work => outcome \in {"maybe", "restart"}
      <4>1. outcome \notin {"maybe", "restart"} => exch[cur] = "none"
        BY <2>1 DEF Unjournal, IInv, Fresh
      <4>2. cur \in work => exch[cur] # "none"
        BY <3>1 DEF IInv, Followed
      <4> QED BY <4>1, <4>2
    <3>4. work \subseteq Attempts
      BY DEF IInv, TypeOK, TypeMemory
    <3>5. UNCHANGED <<work, owner, unsure>> /\ pc = "unjournal"
      BY <2>1 DEF Unjournal
    <3>6. pc' \in {"resolve", "enter"} \/ (pc' = "lostUpsert" /\ outcome = "maybe" /\ hand' = hand)
      BY <2>1 DEF Unjournal, Return
    <3>7. \A n \in work' : jour'[n] = "done" => owner'[n] \in unsure'
      BY <3>2, <3>3, <3>4, <3>5
    <3> QED BY <3>5, <3>6, <3>7
  <2>2. CASE LostUpsert
    BY <2>2 DEF LostUpsert, Upsert, MarkClosed, AfterLost, Return, InWindow
  <2>3. CASE LostClose
    BY <2>3 DEF LostClose, Close, MarkClosed, AfterLost, Return
  <2> QED BY <1>10, <2>1, <2>2, <2>3 DEF Losing
<1>11. CASE UNCHANGED vars
  BY <1>11 DEF vars
<1> QED
  BY <1>1, <1>2, <1>3, <1>4, <1>5, <1>6, <1>7, <1>8, <1>9, <1>10, <1>11 DEF Next, Loop

\* An order is read when nothing more can fill.
LEMMA SightedNext ==
  ASSUME IInv, Sighted, [Next]_vars
  PROVE  Sighted'
<1> USE EntryAssumption DEF Sighted, Mine, store, exchange, engine, memory, hand, agenda, loop,
       history
<1>1. CASE Start
  BY <1>1 DEF Start
<1>2. CASE Crash
  BY <1>2 DEF Crash, InWindow
<1>3. CASE Lots
  <2>1. ASSUME NEW i \in Intents, SyncAdopt(i)
        PROVE  Sighted'
    BY <2>1 DEF SyncAdopt
  <2>2. ASSUME NEW i \in Intents, CloseLot(i)
        PROVE  Sighted'
    BY <2>2 DEF CloseLot, Close, MarkClosed
  <2> QED BY <1>3, <2>1, <2>2 DEF Lots
<1>4. CASE World
  <2>1. ASSUME NEW i \in Intents, Deliver(i)
        PROVE  Sighted'
    BY <2>1 DEF Deliver
  <2>2. ASSUME NEW i \in Intents, ShortExpires(i)
        PROVE  Sighted'
    BY <2>2 DEF ShortExpires
  <2>3. ASSUME NEW n \in Attempts, FillOrder(n)
        PROVE  Sighted'
    <3>1. exch[n] = "live" /\ filled[n] + 1 \in 0 .. Qty /\ Qty \in Nat
      BY <2>3, EntryAssumption DEF FillOrder, IInv, TypeOK, TypeExchange
    <3>2. /\ \A m \in Attempts \ {n} : exch'[m] = exch[m] /\ filled'[m] = filled[m]
          /\ filled'[n] = filled[n] + 1
          /\ exch'[n] = IF filled[n] + 1 = Qty THEN "dead" ELSE "live"
      BY <2>3, <3>1 DEF FillOrder, IInv, TypeOK, TypeExchange
    <3>3. UNCHANGED <<pc, cur, owner, seen, unsure, exposed>>
      BY <2>3 DEF FillOrder
    <3>4. pc \in {"recheck", "finUpsert"} => cur \in Attempts
      BY DEF IInv, Numbered, HandPCs
    <3>5. \A m \in Attempts : exch'[m] # "dead" => filled'[m] < Qty
      BY <3>1, <3>2
    <3>6. \A m \in Attempts : exch[m] = "dead" => exch'[m] = "dead" /\ filled'[m] = filled[m]
      BY <3>1, <3>2
    <3> QED BY <3>3, <3>4, <3>5, <3>6
  <2>4. ASSUME NEW n \in Attempts, KillOrder(n)
        PROVE  Sighted'
    <3>1. \A m \in Attempts : exch'[m] = exch[m] \/ exch'[m] = "dead"
      BY <2>4 DEF KillOrder, IInv, TypeOK, TypeExchange
    <3>2. pc \in {"recheck", "finUpsert"} => cur \in Attempts
      BY DEF IInv, Numbered, HandPCs
    <3> QED BY <2>4, <3>1, <3>2 DEF KillOrder
  <2>5. ASSUME NEW n \in Attempts, DeadlinePass(n)
        PROVE  Sighted'
    BY <2>5 DEF DeadlinePass
  <2>6. ASSUME NEW n \in Attempts, Relist(n)
        PROVE  Sighted'
    BY <2>6 DEF Relist
  <2> QED BY <1>4, <2>1, <2>2, <2>3, <2>4, <2>5, <2>6 DEF World
<1>5. CASE Restarting
  <2>1. CASE Begin
    BY <2>1 DEF Begin
  <2>2. CASE Load
    BY <2>2 DEF Load
  <2>3. CASE LoadFails
    BY <2>3 DEF LoadFails, OpenRows
  <2>4. CASE Loaded
    BY <2>4 DEF Loaded
  <2>5. ASSUME NEW n \in Attempts, Resolve(n)
        PROVE  Sighted'
    BY <2>5 DEF Resolve
  <2>6. CASE Resolved
    BY <2>6 DEF Resolved
  <2> QED BY <1>5, <2>1, <2>2, <2>3, <2>4, <2>5, <2>6 DEF Restarting
<1>6. CASE Asking
  <2>1. ASSUME NEW n \in Attempts, PollFails(n)
        PROVE  Sighted'
    BY <2>1 DEF PollFails
  <2>2. ASSUME NEW n \in Attempts, PollWaits(n)
        PROVE  Sighted'
    BY <2>2 DEF PollWaits
  <2>3. ASSUME NEW n \in Attempts, PollEnds(n)
        PROVE  Sighted'
    <3>1. Over(n) => exch[n] = "dead"
      <4>1. exch[n] # "none"
        BY <2>3 DEF PollEnds, IInv, Followed
      <4>2. filled[n] = Qty => exch[n] # "live"
        BY EntryAssumption
      <4> QED BY <4>1, <4>2 DEF Over, IInv, TypeOK, TypeExchange
    <3>2. Over(n) => Shown(n) = filled[n]
      BY DEF Over, Shown
    <3> QED BY <2>3, <3>1, <3>2 DEF PollEnds
  <2>5. CASE PollsDone
    BY <2>5 DEF PollsDone, IInv, TypeOK, TypeLoop
  <2>6. CASE Cancel
    <3>1. cur \in Attempts
      BY <2>6, HandOwner DEF Cancel, HandPCs, IInv
    <3>2. exch'[cur] = "dead" /\ \A m \in Attempts \ {cur} : exch'[m] = exch[m]
      BY <2>6, <3>1 DEF Cancel, IInv, TypeOK, TypeExchange
    <3> QED BY <2>6, <3>1, <3>2 DEF Cancel
  <2>7. CASE CancelTooLate
    BY <2>7 DEF CancelTooLate
  <2>8. CASE CancelFails
    <3>1. cur \in Attempts
      BY <2>8, HandOwner DEF CancelFails, HandPCs, IInv
    <3>2. \A m \in Attempts : exch'[m] = exch[m] \/ exch'[m] = "dead"
      BY <2>8, <3>1 DEF CancelFails, IInv, TypeOK, TypeExchange
    <3> QED BY <2>8, <3>1, <3>2 DEF CancelFails
  <2>9. CASE Recheck
    BY <2>9 DEF Recheck, Shown
  <2>10. CASE RecheckFails
    BY <2>10 DEF RecheckFails
  <2>11. CASE Requery
    <3>1. Over(cur) => exch[cur] = "dead"
      <4>1. exch[cur] # "none" /\ cur \in Attempts
        BY <2>11, HandOwner DEF Requery, IInv, Followed, SettlingPCs, HandPCs
      <4>2. filled[cur] = Qty => exch[cur] # "live"
        BY <4>1, EntryAssumption
      <4> QED BY <4>1, <4>2 DEF Over, IInv, TypeOK, TypeExchange
    <3>2. Over(cur) => Shown(cur) = filled[cur]
      BY DEF Over, Shown
    <3> QED BY <2>11, <3>1, <3>2 DEF Requery, Return
  <2>12. CASE RequeryFails
    BY <2>12 DEF RequeryFails, Return
  <2> QED BY <1>6, <2>1, <2>2, <2>3, <2>5, <2>6, <2>7, <2>8, <2>9, <2>10, <2>11, <2>12 DEF
     Asking
<1>7. CASE Booking
  <2>1. CASE FinUpsert
    BY <2>1 DEF FinUpsert, Upsert, MarkClosed
  <2>2. CASE FinClose
    BY <2>2 DEF FinClose, Close, MarkClosed
  <2>3. CASE FinDone
    BY <2>3 DEF FinDone, Return
  <2> QED BY <1>7, <2>1, <2>2, <2>3 DEF Booking
<1>8. CASE Planning
  <2>1. CASE MakePlan
    BY <2>1 DEF MakePlan, Candidates
  <2>2. CASE EntersDone
    BY <2>2 DEF EntersDone
  <2>3. ASSUME NEW i \in Intents, Skip(i)
        PROVE  Sighted'
    BY <2>3 DEF Skip
  <2>4. ASSUME NEW i \in Intents, Journal(i)
        PROVE  Sighted'
    <3>1. made + 1 \in Attempts
      BY <2>4, EntryAssumption DEF Journal, Attempts, IInv, TypeOK, TypeStore
    <3> QED BY <2>4, <3>1 DEF Journal
  <2>5. ASSUME NEW i \in Intents, JournalFails(i)
        PROVE  Sighted'
    BY <2>5 DEF JournalFails
  <2> QED BY <1>8, <2>1, <2>2, <2>3, <2>4, <2>5 DEF Planning
<1>9. CASE Submitting
  <2>1. CASE SubmitAccepted
    <3>1. cur \in Attempts /\ exch[cur] = "none"
      BY <2>1, HandOwner DEF SubmitAccepted, HandPCs, IInv, Fresh
    <3>2. filled[cur] < Qty /\ \A m \in Attempts \ {cur} : exch'[m] = exch[m]
      BY <2>1, <3>1 DEF SubmitAccepted, IInv, TypeOK, TypeExchange
    <3> QED BY <2>1, <3>1, <3>2 DEF SubmitAccepted
  <2>2. CASE SubmitRefused
    BY <2>2 DEF SubmitRefused
  <2>3. CASE SubmitMaybe
    <3>1. cur \in Attempts /\ exch[cur] = "none"
      BY <2>3, HandOwner DEF SubmitMaybe, HandPCs, IInv, Fresh
    <3>2. filled[cur] < Qty /\ \A m \in Attempts \ {cur} : exch'[m] = exch[m]
      BY <2>3, <3>1 DEF SubmitMaybe, IInv, TypeOK, TypeExchange
    <3>3. exch'[cur] \in {"none", "live"} /\ pc' = "unjournal" /\ UNCHANGED <<filled, seen, owner, exposed, cur>>
      BY <2>3, <3>1 DEF SubmitMaybe, IInv, TypeOK, TypeExchange
    <3> QED BY <3>1, <3>2, <3>3
  <2>4. CASE Confirm
    BY <2>4 DEF Confirm, Return
  <2> QED BY <1>9, <2>1, <2>2, <2>3, <2>4 DEF Submitting
<1>10. CASE Losing
  <2>1. CASE Unjournal
    BY <2>1 DEF Unjournal, Return
  <2>2. CASE LostUpsert
    BY <2>2 DEF LostUpsert, Upsert, MarkClosed, AfterLost, Return, InWindow
  <2>3. CASE LostClose
    BY <2>3 DEF LostClose, Close, MarkClosed, AfterLost, Return
  <2> QED BY <1>10, <2>1, <2>2, <2>3 DEF Losing
<1>11. CASE UNCHANGED vars
  BY <1>11 DEF vars
<1> QED
  BY <1>1, <1>2, <1>3, <1>4, <1>5, <1>6, <1>7, <1>8, <1>9, <1>10, <1>11 DEF Next, Loop

\* What is let go of stays as it was booked: a dead order does not fill, and no other
\* order of the intent is booked over it (NoRebuy).
LEMMA WrittenNext ==
  ASSUME IInv, Journalled, Doubted, Sighted, Written, [Next]_vars
  PROVE  Written'
<1> USE DEF Written, Booked, Mine, LosingPCs, store, exchange, engine, memory, hand, agenda, loop,
       history
<1>1. CASE Start
  BY <1>1 DEF Start
<1>2. CASE Crash
  BY <1>2 DEF Crash, InWindow
<1>3. CASE Lots
  <2>1. ASSUME NEW i \in Intents, SyncAdopt(i)
        PROVE  Written'
    BY <2>1 DEF SyncAdopt
  <2>2. ASSUME NEW i \in Intents, CloseLot(i)
        PROVE  Written'
    <3>1. \A j \in Intents : row[j] # "none" => row'[j] # "none"
      BY <2>2 DEF CloseLot, Close, IInv, TypeOK, TypeStore
    <3>2. pc = "plan" /\ UNCHANGED <<pc, jour, exch, filled, qty, owner, unsure, exposed>>
      BY <2>2 DEF CloseLot, Close
    <3>3. \A n \in Attempts : exch[n] # "none" => owner[n] \in Intents
      BY DEF IInv, Numbered
    <3> QED BY <3>1, <3>2, <3>3
  <2> QED BY <1>3, <2>1, <2>2 DEF Lots
<1>4. CASE World
  <2>1. ASSUME NEW i \in Intents, Deliver(i)
        PROVE  Written'
    BY <2>1 DEF Deliver
  <2>2. ASSUME NEW i \in Intents, ShortExpires(i)
        PROVE  Written'
    BY <2>2 DEF ShortExpires
  <2>3. ASSUME NEW n \in Attempts, FillOrder(n)
        PROVE  Written'
    <3>1. \A m \in Attempts : /\ exch'[m] # "none" => exch[m] # "none"
                              /\ exch[m] = "dead" => exch'[m] = "dead" /\ filled'[m] = filled[m]
      BY <2>3, EntryAssumption DEF FillOrder, IInv, TypeOK, TypeExchange
    <3>2. UNCHANGED <<jour, row, qty, owner, cur, unsure, exposed>>
      BY <2>3 DEF FillOrder
    <3>3. Booked'
      BY <3>1, <3>2
    <3>4. pc' \in {"finClose", "finDone"} => pc' = pc /\ cur \in Attempts
      BY <2>3 DEF FillOrder, IInv, Numbered, HandPCs
    <3> QED BY <3>1, <3>2, <3>3, <3>4
  <2>4. ASSUME NEW n \in Attempts, KillOrder(n)
        PROVE  Written'
    <3>1. \A m \in Attempts : /\ exch'[m] # "none" => exch[m] # "none"
                              /\ exch[m] = "dead" => exch'[m] = "dead" /\ filled'[m] = filled[m]
      BY <2>4, EntryAssumption DEF KillOrder, IInv, TypeOK, TypeExchange
    <3>2. UNCHANGED <<jour, row, qty, owner, cur, unsure, exposed>>
      BY <2>4 DEF KillOrder
    <3>3. Booked'
      BY <3>1, <3>2
    <3>4. pc' \in {"finClose", "finDone"} => pc' = pc /\ cur \in Attempts
      BY <2>4 DEF KillOrder, IInv, Numbered, HandPCs
    <3> QED BY <3>1, <3>2, <3>3, <3>4
  <2>5. ASSUME NEW n \in Attempts, DeadlinePass(n)
        PROVE  Written'
    BY <2>5 DEF DeadlinePass
  <2>6. ASSUME NEW n \in Attempts, Relist(n)
        PROVE  Written'
    BY <2>6 DEF Relist
  <2> QED BY <1>4, <2>1, <2>2, <2>3, <2>4, <2>5, <2>6 DEF World
<1>5. CASE Restarting
  <2>1. CASE Begin
    BY <2>1 DEF Begin
  <2>2. CASE Load
    BY <2>2 DEF Load
  <2>3. CASE LoadFails
    BY <2>3 DEF LoadFails, OpenRows
  <2>4. CASE Loaded
    BY <2>4 DEF Loaded
  <2>5. ASSUME NEW n \in Attempts, Resolve(n)
        PROVE  Written'
    BY <2>5 DEF Resolve
  <2>6. CASE Resolved
    BY <2>6 DEF Resolved
  <2> QED BY <1>5, <2>1, <2>2, <2>3, <2>4, <2>5, <2>6 DEF Restarting
<1>6. CASE Asking
  <2>1. ASSUME NEW n \in Attempts, PollFails(n)
        PROVE  Written'
    BY <2>1 DEF PollFails
  <2>2. ASSUME NEW n \in Attempts, PollWaits(n)
        PROVE  Written'
    BY <2>2 DEF PollWaits
  <2>3. ASSUME NEW n \in Attempts, PollEnds(n)
        PROVE  Written'
    BY <2>3 DEF PollEnds, Over
  <2>5. CASE PollsDone
    BY <2>5 DEF PollsDone, IInv, TypeOK, TypeLoop
  <2>6. CASE Cancel
    <3>1. cur \in Attempts /\ exch[cur] # "none" /\ cur \in work
      BY <2>6, HandOwner DEF Cancel, HandPCs, IInv, Followed, SettlingPCs
    <3>2. \A m \in Attempts : /\ exch'[m] # "none" => exch[m] # "none"
                              /\ exch[m] = "dead" => exch'[m] = "dead" /\ filled'[m] = filled[m]
      BY <2>6, <3>1, EntryAssumption DEF Cancel, IInv, TypeOK, TypeExchange
    <3>3. UNCHANGED <<jour, row, qty, owner, cur, unsure, exposed>>
      BY <2>6 DEF Cancel
    <3>4. Booked'
      BY <3>2, <3>3
    <3>5. pc' \in {"finClose", "finDone"} => pc' = pc /\ cur \in Attempts
      BY <2>6 DEF Cancel, IInv, Numbered, HandPCs
    <3> QED BY <3>2, <3>3, <3>4, <3>5
  <2>7. CASE CancelTooLate
    BY <2>7 DEF CancelTooLate
  <2>8. CASE CancelFails
    <3>1. cur \in Attempts /\ exch[cur] # "none" /\ cur \in work
      BY <2>8, HandOwner DEF CancelFails, HandPCs, IInv, Followed, SettlingPCs
    <3>2. \A m \in Attempts : /\ exch'[m] # "none" => exch[m] # "none"
                              /\ exch[m] = "dead" => exch'[m] = "dead" /\ filled'[m] = filled[m]
      BY <2>8, <3>1, EntryAssumption DEF CancelFails, IInv, TypeOK, TypeExchange
    <3>3. UNCHANGED <<jour, row, qty, owner, cur, unsure, exposed>>
      BY <2>8 DEF CancelFails
    <3>4. Booked'
      BY <3>2, <3>3
    <3>5. pc' \in {"finClose", "finDone"} => pc' = pc /\ cur \in Attempts
      BY <2>8 DEF CancelFails, IInv, Numbered, HandPCs
    <3> QED BY <3>2, <3>3, <3>4, <3>5
  <2>9. CASE Recheck
    BY <2>9 DEF Recheck
  <2>10. CASE RecheckFails
    BY <2>10 DEF RecheckFails
  <2>11. CASE Requery
    BY <2>11 DEF Requery, Over, Return
  <2>12. CASE RequeryFails
    BY <2>12 DEF RequeryFails, Return
  <2> QED BY <1>6, <2>1, <2>2, <2>3, <2>5, <2>6, <2>7, <2>8, <2>9, <2>10, <2>11, <2>12 DEF
     Asking
<1>7. CASE Booking
  <2>1. CASE FinUpsert
    <3>1. cur \in Attempts /\ exch[cur] # "none" /\ cur \in work
      BY <2>1, HandOwner DEF FinUpsert, HandPCs, IInv, Followed, SettlingPCs
    <3>2. Mine \in Intents /\ row \in [Intents -> {"none", "open", "closed"}] /\ qty \in [Intents -> 0 .. Qty]
      BY <3>1 DEF IInv, Numbered, TypeOK, TypeStore, Mine
    <3>3. UNCHANGED <<jour, exch, filled, owner, cur, exposed>> /\ unsure \subseteq unsure'
      BY <2>1 DEF FinUpsert
    <3>4. \A n \in Attempts : exch[n] # "none" => owner[n] \in Intents
      BY DEF IInv, Numbered
    <3>5. CASE Works /\ Upsert(Mine, seen)
      <4>1. /\ row'[Mine] # "none" /\ qty'[Mine] = seen
            /\ \A j \in Intents \ {Mine} : row'[j] = row[j] /\ qty'[j] = qty[j]
        BY <3>2, <3>5 DEF Upsert
      <4>2. Mine \notin unsure \cup exposed => exch[cur] = "dead" /\ seen = filled[cur]
        BY <2>1 DEF FinUpsert, Sighted
      <4>3. \A n \in Attempts :
              jour[n] = "done" /\ exch[n] # "none" /\ owner[n] \notin unsure \cup exposed => owner[n] # Mine
        BY <3>1 DEF IInv, NoRebuy, Doubted
      <4> QED BY <3>3, <3>4, <4>1, <4>2, <4>3
    <3>6. CASE Fails /\ UNCHANGED <<row, qty>> /\ unsure' = unsure \cup {Mine}
      BY <3>3, <3>6
    <3> QED BY <2>1, <3>5, <3>6 DEF FinUpsert
  <2>2. CASE FinClose
    <3>1. Mine \in Intents
      BY <2>2, HandOwner DEF FinClose, HandPCs, IInv
    <3>2. \A j \in Intents : (row[j] # "none" => row'[j] # "none") /\ qty'[j] = qty[j]
      BY <2>2 DEF FinClose, Close, IInv, TypeOK, TypeStore
    <3>3. pc = "finClose" /\ UNCHANGED <<jour, exch, filled, owner, cur, unsure, exposed>>
      BY <2>2 DEF FinClose
    <3>4. \A n \in Attempts : exch[n] # "none" => owner[n] \in Intents
      BY DEF IInv, Numbered
    <3> QED BY <3>1, <3>2, <3>3, <3>4
  <2>3. CASE FinDone
    <3>1. cur \in Attempts /\ jour \in [Attempts -> {"none", "pre", "open", "done"}]
      BY <2>3, HandOwner DEF FinDone, HandPCs, IInv, TypeOK, TypeStore
    <3>2. \A n \in Attempts \ {cur} : jour'[n] = jour[n]
      BY <2>3, <3>1 DEF FinDone
    <3>3. pc = "finDone" /\ pc' = "poll" /\ UNCHANGED <<row, qty, exch, filled, owner, unsure>> /\ exposed \subseteq exposed'
      BY <2>3 DEF FinDone, Return
    <3> QED BY <3>1, <3>2, <3>3
  <2> QED BY <1>7, <2>1, <2>2, <2>3 DEF Booking
<1>8. CASE Planning
  <2>1. CASE MakePlan
    BY <2>1 DEF MakePlan, Candidates
  <2>2. CASE EntersDone
    BY <2>2 DEF EntersDone
  <2>3. ASSUME NEW i \in Intents, Skip(i)
        PROVE  Written'
    BY <2>3 DEF Skip
  <2>4. ASSUME NEW i \in Intents, Journal(i)
        PROVE  Written'
    <3>1. made + 1 \in Attempts
      BY <2>4, EntryAssumption DEF Journal, Attempts, IInv, TypeOK, TypeStore
    <3>2. \A n \in Attempts \ {made + 1} : owner'[n] = owner[n] /\ jour'[n] = jour[n]
      BY <2>4, <3>1 DEF Journal, IInv, TypeOK, TypeStore
    <3>3. jour'[made + 1] = "pre"
      BY <2>4, <3>1 DEF Journal, IInv, TypeOK, TypeStore
    <3>4. pc' = "submit" /\ UNCHANGED <<row, qty, exch, filled, unsure, exposed>>
      BY <2>4 DEF Journal
    <3> QED BY <3>2, <3>3, <3>4
  <2>5. ASSUME NEW i \in Intents, JournalFails(i)
        PROVE  Written'
    BY <2>5 DEF JournalFails
  <2> QED BY <1>8, <2>1, <2>2, <2>3, <2>4, <2>5 DEF Planning
<1>9. CASE Submitting
  <2>1. CASE SubmitAccepted
    <3>1. cur \in Attempts /\ jour \in [Attempts -> {"none", "pre", "open", "done"}]
      BY <2>1, HandOwner DEF SubmitAccepted, HandPCs, IInv, TypeOK, TypeStore
    <3>2. jour[cur] = "pre" /\ \A n \in Attempts \ {cur} : exch'[n] = exch[n]
      BY <2>1, <3>1 DEF SubmitAccepted, Journalled, IInv, TypeOK, TypeExchange
    <3> QED BY <2>1, <3>2 DEF SubmitAccepted
  <2>2. CASE SubmitRefused
    BY <2>2 DEF SubmitRefused
  <2>3. CASE SubmitMaybe
    <3>1. cur \in Attempts /\ jour \in [Attempts -> {"none", "pre", "open", "done"}]
      BY <2>3, HandOwner DEF SubmitMaybe, HandPCs, IInv, TypeOK, TypeStore
    <3>2. jour[cur] = "pre" /\ \A n \in Attempts \ {cur} : exch'[n] = exch[n]
      BY <2>3, <3>1 DEF SubmitMaybe, Journalled, IInv, TypeOK, TypeExchange
    <3>3. pc' = "unjournal" /\ UNCHANGED <<jour, row, qty, filled, owner, exposed>> /\ unsure \subseteq unsure'
      BY <2>3 DEF SubmitMaybe
    <3> QED BY <3>2, <3>3
  <2>4. CASE Confirm
    <3>1. cur \in Attempts /\ jour \in [Attempts -> {"none", "pre", "open", "done"}]
      BY <2>4, HandOwner DEF Confirm, HandPCs, IInv, TypeOK, TypeStore
    <3>2. jour'[cur] # "done" /\ \A n \in Attempts \ {cur} : jour'[n] = jour[n]
      BY <2>4, <3>1 DEF Confirm, Journalled
    <3> QED BY <2>4, <3>2 DEF Confirm, Return
  <2> QED BY <1>9, <2>1, <2>2, <2>3, <2>4 DEF Submitting
<1>10. CASE Losing
  <2>1. CASE Unjournal
    <3>1. cur \in Attempts /\ jour \in [Attempts -> {"none", "pre", "open", "done"}]
      BY <2>1, HandOwner DEF Unjournal, HandPCs, IInv, TypeOK, TypeStore
    <3>2. \A n \in Attempts \ {cur} : jour'[n] = jour[n]
      BY <2>1, <3>1 DEF Unjournal
    <3>3. exch[cur] = "none" \/ Mine \in unsure
      BY <2>1 DEF Unjournal, IInv, Fresh, Doubted
    <3>4. /\ pc' \in {"resolve", "enter", "lostUpsert"} /\ exposed \subseteq exposed'
          /\ UNCHANGED <<row, qty, exch, filled, owner, unsure>>
      BY <2>1 DEF Unjournal, Return
    <3> QED BY <3>2, <3>3, <3>4
  <2>2. CASE LostUpsert
    <3>1. Mine \in Intents
      BY <2>2, HandOwner DEF LostUpsert, HandPCs, IInv
    <3>2. Mine \in unsure
      BY <2>2 DEF LostUpsert, Journalled, Doubted
    <3>3. \A j \in Intents \ {Mine} : row'[j] = row[j] /\ qty'[j] = qty[j]
      BY <2>2, <3>1 DEF LostUpsert, Upsert, IInv, TypeOK, TypeStore
    <3>4. \A n \in Attempts : exch[n] # "none" => owner[n] \in Intents
      BY DEF IInv, Numbered
    <3>5. /\ pc' \in {"lostClose", "unjournal", "enter"} /\ exposed \subseteq exposed'
          /\ UNCHANGED <<jour, exch, filled, owner, unsure>>
      BY <2>2 DEF LostUpsert, AfterLost, Return
    <3> QED BY <3>2, <3>3, <3>4, <3>5
  <2>3. CASE LostClose
    <3>1. Mine \in Intents
      BY <2>3, HandOwner DEF LostClose, HandPCs, IInv
    <3>2. \A j \in Intents : (row[j] # "none" => row'[j] # "none") /\ qty'[j] = qty[j]
      BY <2>3 DEF LostClose, Close, IInv, TypeOK, TypeStore
    <3>3. pc' \in {"unjournal", "enter"} /\ UNCHANGED <<jour, exch, filled, owner, unsure, exposed>>
      BY <2>3 DEF LostClose, AfterLost, Return
    <3>4. \A n \in Attempts : exch[n] # "none" => owner[n] \in Intents
      BY DEF IInv, Numbered
    <3> QED BY <3>1, <3>2, <3>3, <3>4
  <2> QED BY <1>10, <2>1, <2>2, <2>3 DEF Losing
<1>11. CASE UNCHANGED vars
  BY <1>11 DEF vars
<1> QED
  BY <1>1, <1>2, <1>3, <1>4, <1>5, <1>6, <1>7, <1>8, <1>9, <1>10, <1>11 DEF Next, Loop

-----------------------------------------------------------------------------
(* The theorems about the ledger.                                          *)

\* The initial state: nothing is planned, nothing is followed.
LEMMA InitBInv == Init => BInv
<1> SUFFICES ASSUME Init
             PROVE  BInv
  OBVIOUS
<1>1. Planned
  BY DEF Init, Planned, LosingPCs
<1>2. Journalled /\ Doubted
  BY DEF Init, Journalled, Doubted, LosingPCs
<1>3. Sighted
  BY EntryAssumption DEF Init, Sighted
<1>4. Written
  BY DEF Init, Written, Booked
<1> QED
  BY <1>1, <1>2, <1>3, <1>4 DEF BInv

\* Every step keeps the second invariant, given the first.
LEMMA NextBInv == IInv /\ BInv /\ [Next]_vars => BInv'
<1> SUFFICES ASSUME IInv, BInv, [Next]_vars
             PROVE  BInv'
  OBVIOUS
<1>1. Planned' /\ Journalled'
  BY PlannedNext, JournalledNext DEF BInv
<1>2. Doubted' /\ Sighted'
  BY DoubtedNext, SightedNext DEF BInv
<1>3. Written'
  BY WrittenNext DEF BInv
<1> QED
  BY <1>1, <1>2, <1>3 DEF BInv

\* Both invariants hold in every state the executor reaches.
THEOREM BookInvariance == Spec => [](IInv /\ BInv)
<1>1. Init => IInv /\ BInv
  BY InitIInv, InitBInv
<1>2. IInv /\ BInv /\ [Next]_vars => (IInv /\ BInv)'
  BY NextIInv, NextBInv
<1> QED
  BY <1>1, <1>2, PTL DEF Spec

\* When the cockpit is done with an accepted order, the order can fill no more and
\* the ledger holds exactly what it filled, unless an answer or a write was lost.
THEOREM AlwaysBooked == Spec => []Booked
<1>1. BInv => Booked
  BY DEF BInv, Written
<1> QED
  BY <1>1, BookInvariance, PTL

\* An order reaches the exchange by a submission alone: no other step makes the
\* exchange accept one, or forget one.
LEMMA AcceptedKept ==
  ASSUME IInv, [Next]_vars, ~(SubmitAccepted \/ SubmitMaybe)
  PROVE  \A n \in Attempts : exch'[n] # "none" <=> exch[n] # "none"
<1> USE DEF store, exchange, engine, memory, hand, agenda, loop, history
<1>1. CASE Start \/ Crash \/ Restarting
  BY <1>1 DEF Start, Crash, Restarting, Begin, Load, LoadFails, Loaded, Resolve, Resolved
<1>2. CASE Lots \/ Booking
  BY <1>2 DEF Lots, SyncAdopt, CloseLot, Booking, FinUpsert, FinClose, FinDone
<1>3. CASE World
  <2>1. ASSUME NEW n \in Attempts, FillOrder(n) \/ KillOrder(n)
        PROVE  \A m \in Attempts : exch'[m] # "none" <=> exch[m] # "none"
    BY <2>1 DEF FillOrder, KillOrder, IInv, TypeOK, TypeExchange
  <2> QED BY <1>3, <2>1 DEF World, Deliver, ShortExpires, DeadlinePass, Relist
<1>4. CASE Asking
  <2>1. CASE Cancel
    <3>1. cur \in Attempts
      BY <2>1, HandOwner DEF Cancel, HandPCs, IInv
    <3> QED BY <2>1, <3>1 DEF Cancel, IInv, TypeOK, TypeExchange
  <2>2. CASE CancelFails
    BY <2>2, CancelExch DEF IInv
  <2>3. CASE CancelTooLate \/ Recheck \/ RecheckFails \/ Requery \/ RequeryFails
    BY <2>3 DEF CancelTooLate, Recheck, RecheckFails, Requery, RequeryFails
  <2>4. CASE PollsDone \/ \E n \in Attempts : PollFails(n) \/ PollWaits(n) \/ PollEnds(n)
    BY <2>4 DEF PollsDone, PollFails, PollWaits, PollEnds
  <2> QED BY <1>4, <2>1, <2>2, <2>3, <2>4 DEF Asking
<1>5. CASE Planning
  BY <1>5 DEF Planning, MakePlan, EntersDone, Skip, Journal, JournalFails
<1>6. CASE Submitting \/ Losing
  BY <1>6 DEF Submitting, SubmitRefused, Confirm, Losing, Unjournal, LostUpsert, LostClose
<1>7. CASE UNCHANGED vars
  BY <1>7 DEF vars
<1> QED BY <1>1, <1>2, <1>3, <1>4, <1>5, <1>6, <1>7 DEF Next, Loop

\* No buy is submitted for an intent the ledger has closed, restart or not: what is
\* planned has no row, and its row is not written before its submission (Planned).
THEOREM NeverBoughtAgain == Spec => ClosedNeverBought
<1>1. IInv /\ BInv /\ [Next]_vars =>
        [\A n \in Attempts : exch[n] = "none" /\ exch'[n] # "none" => row[owner[n]] # "closed"]_vars
  <2> SUFFICES ASSUME IInv, BInv, [Next]_vars, NEW n \in Attempts, exch[n] = "none", exch'[n] # "none"
               PROVE  row[owner[n]] # "closed"
    OBVIOUS
  <2>1. SubmitAccepted \/ SubmitMaybe
    BY AcceptedKept
  <2>2. cur = n
    BY <2>1, SubmitExch DEF IInv
  <2>3. row[Mine] = "none"
    BY <2>1 DEF SubmitAccepted, SubmitMaybe, BInv, Planned
  <2> QED BY <2>2, <2>3 DEF Mine
<1> QED
  BY <1>1, BookInvariance, PTL DEF Spec, ClosedNeverBought

-----------------------------------------------------------------------------
(* Entry implements IntentLife.  life, bought and exposed are the abstract *)
(* state; each step of the executor maps to one step of it, or to none.    *)

\* Something in the store, or in the one window without it, says i is tried
Tried(i) == InWindow(i) \/ \E n \in OpenRows : owner[n] = i

\* What life is mapped to bought
bought == [i \in Intents |-> Cardinality(Accepted(i))]

\* A step of IntentLife, or none
LifeStep == [Life!Next]_<<life, bought, exposed>>

\* The life of an intent, read from its row and its traces.
LEMMA LifeValues ==
  ASSUME TypeStore, NEW i \in Intents
  PROVE  /\ row[i] = "closed" <=> life[i] = "closed"
         /\ row[i] = "open" <=> life[i] = "held"
         /\ row[i] = "none" /\ Tried(i) <=> life[i] = "trying"
         /\ row[i] = "none" /\ ~Tried(i) <=> life[i] = "idle"
BY DEF TypeStore, life, Tried

\* The same of the next state.
LEMMA LifeValuesNext ==
  ASSUME TypeStore', NEW i \in Intents
  PROVE  /\ row'[i] = "closed" <=> life'[i] = "closed"
         /\ row'[i] = "open" <=> life'[i] = "held"
         /\ row'[i] = "none" /\ Tried(i)' <=> life'[i] = "trying"
         /\ row'[i] = "none" /\ ~Tried(i)' <=> life'[i] = "idle"
BY DEF TypeStore, life, Tried

\* What one step may change: the life of one intent.
LEMMA LifeOfOne ==
  ASSUME TypeStore, TypeStore', NEW i \in Intents,
         \A j \in Intents \ {i} : row'[j] = row[j] /\ (row[j] = "none" => (Tried(j)' <=> Tried(j)))
  PROVE  life' = [life EXCEPT ![i] = life'[i]]
<1>1. life = [j \in Intents |-> life[j]] /\ life' = [j \in Intents |-> life'[j]]
  BY DEF life
<1>2. ASSUME NEW j \in Intents \ {i}
      PROVE  life'[j] = life[j]
  BY LifeValues, LifeValuesNext DEF TypeStore
<1> QED
  BY <1>1, <1>2

\* A step that changes no row and no trace is none of the promise's.
LEMMA LifeStill ==
  ASSUME TypeStore, TypeStore', UNCHANGED row,
         \A i \in Intents : row[i] = "none" => (Tried(i)' <=> Tried(i))
  PROVE  UNCHANGED life
<1>1. life = [j \in Intents |-> life[j]] /\ life' = [j \in Intents |-> life'[j]]
  BY DEF life
<1>2. ASSUME NEW j \in Intents
      PROVE  life'[j] = life[j]
  BY LifeValues, LifeValuesNext DEF TypeStore
<1> QED
  BY <1>1, <1>2

\* bought follows the orders accepted.
LEMMA BoughtStill ==
  ASSUME \A i \in Intents : Accepted(i)' = Accepted(i)
  PROVE  UNCHANGED bought
BY DEF bought

\* Losing the trace of some intents is the promise's Forget.
LEMMA ForgetStep ==
  ASSUME NEW S \in SUBSET Intents, exposed' = exposed \cup S, UNCHANGED bought,
         \/ UNCHANGED life
         \/ \E i \in S : life[i] = "trying" /\ life' = [life EXCEPT ![i] = "idle"]
  PROVE  LifeStep
<1>1. CASE S = {}
  BY <1>1 DEF LifeStep
<1>2. CASE S # {}
  <2>1. Life!Forget
    BY <1>2 DEF Life!Forget, bought
  <2> QED BY <2>1 DEF LifeStep, Life!Next
<1> QED BY <1>1, <1>2

\* The orders accepted for an intent are finitely many.
LEMMA AcceptedFinite ==
  \A i : IsFiniteSet(Accepted(i)) /\ Cardinality(Accepted(i)) \in Nat
<1>1. IsFiniteSet(Attempts)
  BY EntryAssumption, FS_Interval DEF Attempts
<1>2. \A i : Accepted(i) \subseteq Attempts
  BY DEF Accepted
<1> QED
  BY <1>1, <1>2, FS_Subset, FS_CardinalityType

\* A submission the exchange accepted is the promise's Buy: the intent is being tried,
\* and nothing was bought for it, or its trace was lost.
LEMMA BuyStep ==
  ASSUME IInv, BInv, TypeStore', pc = "submit", exch' = [exch EXCEPT ![cur] = "live"],
         UNCHANGED <<store, exposed>>, pc' # "lostUpsert"
  PROVE  LifeStep
<1> SUFFICES ASSUME NEW i \in Intents, i = owner[cur]
             PROVE  LifeStep
  BY HandOwner DEF HandPCs, IInv, Mine
<1>1. cur \in Attempts
  BY HandOwner DEF HandPCs, IInv
<1>2. row[i] = "none" /\ jour[cur] = "pre" /\ exch[cur] = "none"
  BY DEF BInv, Planned, Journalled, IInv, Fresh, Mine
<1>3. life[i] = "trying"
  BY <1>1, <1>2, LifeValues DEF IInv, TypeOK, Tried, OpenRows
<1>4. UNCHANGED life
  BY LifeStill DEF store, Tried, InWindow, OpenRows, IInv, TypeOK
<1>5. owner' = owner /\ exch'[cur] = "live" /\ \A n \in Attempts \ {cur} : exch'[n] = exch[n]
  BY <1>1 DEF IInv, TypeOK, TypeExchange, store
<1>6. Accepted(i)' = Accepted(i) \cup {cur} /\ cur \notin Accepted(i)
  BY <1>1, <1>2, <1>5 DEF Accepted
<1>7. \A j \in Intents \ {i} : Accepted(j)' = Accepted(j)
  BY <1>1, <1>5 DEF Accepted
<1>8. Cardinality(Accepted(i) \cup {cur}) = Cardinality(Accepted(i)) + 1
  BY <1>6, AcceptedFinite, FS_AddElement
<1>9. i \notin exposed => Cardinality(Accepted(i)) = 0
  BY FS_EmptySet DEF IInv, Fresh, Mine
<1>10. Life!Buy(i)
  <2>1. bought' = [bought EXCEPT ![i] = @ + 1]
    BY <1>6, <1>7, <1>8 DEF bought
  <2> QED BY <1>3, <1>4, <1>9, <2>1 DEF Life!Buy, bought
<1> QED
  BY <1>10 DEF LifeStep, Life!Next
\* The exchange accepts nothing, and the attempts keep their owners.
Quiet == UNCHANGED owner /\ \A n \in Attempts : exch'[n] # "none" <=> exch[n] # "none"

\* No window is open, before or after, or it is the same one
Shut == (pc # "lostUpsert" /\ pc' # "lostUpsert") \/ UNCHANGED <<pc, cur, outcome>>

\* Without a submission nothing is bought.
LEMMA QuietBought ==
  ASSUME Quiet
  PROVE  UNCHANGED bought
<1>1. ASSUME NEW i \in Intents
      PROVE  Accepted(i)' = Accepted(i)
  BY DEF Accepted, Quiet
<1> QED
  BY <1>1, BoughtStill

\* What touches neither the intents table, nor the open rows, nor the exchange's
\* acceptances is no step of the promise.
LEMMA NothingStep ==
  ASSUME TypeStore, TypeStore', Quiet, Shut, UNCHANGED <<row, exposed>>, OpenRows' = OpenRows
  PROVE  LifeStep
<1>1. \A i \in Intents : InWindow(i)' <=> InWindow(i)
  BY DEF InWindow, Mine, Shut, Quiet
<1>2. \A i \in Intents : Tried(i)' <=> Tried(i)
  BY <1>1 DEF Tried, Quiet
<1>3. UNCHANGED life
  BY <1>2, LifeStill
<1> QED
  BY <1>3, QuietBought DEF LifeStep

\* The row of an intent that is tried, or forgotten, is written: the promise's Book.
LEMMA BookStep ==
  ASSUME TypeStore, TypeStore', Quiet, UNCHANGED <<jour, exposed>>, NEW i \in Intents,
         row[i] = "none", row' = [row EXCEPT ![i] = "open"], Tried(i) \/ i \in exposed,
         \A j \in Intents \ {i} : InWindow(j)' <=> InWindow(j)
  PROVE  LifeStep
<1>1. row'[i] = "open" /\ \A j \in Intents \ {i} : row'[j] = row[j]
  BY DEF TypeStore
<1>2. \A j \in Intents \ {i} : Tried(j)' <=> Tried(j)
  BY DEF Tried, OpenRows, Quiet
<1>3. life' = [life EXCEPT ![i] = "held"]
  BY <1>1, <1>2, LifeOfOne, LifeValuesNext
<1>4. life[i] \in {"idle", "trying"} /\ (life[i] = "idle" => i \in exposed)
  BY LifeValues
<1>5. Life!Book(i)
  BY <1>3, <1>4, QuietBought DEF Life!Book, bought
<1> QED
  BY <1>5 DEF LifeStep, Life!Next

\* The row of an open intent is closed: the promise's Finish.  Closed again: nothing.
LEMMA FinishStep ==
  ASSUME TypeStore, TypeStore', Quiet, Shut, UNCHANGED <<jour, exposed>>, NEW i \in Intents,
         row[i] # "none", row' = [row EXCEPT ![i] = "closed"]
  PROVE  LifeStep
<1>1. row'[i] = "closed" /\ \A j \in Intents \ {i} : row'[j] = row[j]
  BY DEF TypeStore
<1>2. \A j \in Intents \ {i} : Tried(j)' <=> Tried(j)
  BY <1>1 DEF Tried, InWindow, OpenRows, Mine, Quiet, Shut
<1>3. life' = [life EXCEPT ![i] = "closed"]
  BY <1>1, <1>2, LifeOfOne, LifeValuesNext
<1>4. CASE row[i] = "closed"
  <2>1. life[i] = "closed"
    BY <1>4, LifeValues
  <2>2. UNCHANGED life
    BY <1>3, <2>1 DEF life
  <2> QED BY <2>2, QuietBought DEF LifeStep
<1>5. CASE row[i] = "open"
  <2>1. Life!Finish(i)
    BY <1>3, <1>5, LifeValues, QuietBought DEF Life!Finish, bought
  <2> QED BY <2>1 DEF LifeStep, Life!Next
<1> QED
  BY <1>4, <1>5 DEF TypeStore

\* Open rows are closed, or stay: with the window left behind, the intents that lose
\* their last trace by it are forgotten.
LEMMA LeaveStep ==
  ASSUME TypeStore, TypeStore', Quiet, UNCHANGED <<row, jour>>, pc' # "lostUpsert",
         exposed' = exposed \cup {i \in Intents : InWindow(i)}
  PROVE  LifeStep
<1> DEFINE S == {i \in Intents : InWindow(i)}
<1>1. \A i \in Intents : ~InWindow(i)'
  BY DEF InWindow
<1>2. \A i \in Intents \ S : Tried(i)' <=> Tried(i)
  BY <1>1 DEF Tried, OpenRows, Quiet
<1>3. CASE S = {}
  <2>1. UNCHANGED life
    BY <1>2, <1>3, LifeStill
  <2> QED BY <1>3, <2>1, QuietBought DEF LifeStep
<1>4. CASE S # {}
  <2>1. PICK i \in S : TRUE
    BY <1>4
  <2>2. i \in Intents /\ S = {i} /\ row[i] = "none" /\ Tried(i)
    BY <2>1 DEF InWindow, Tried
  <2>3. life' = [life EXCEPT ![i] = life'[i]]
    BY <1>2, <2>2, LifeOfOne
  <2>4. life[i] = "trying" /\ life'[i] \in {"idle", "trying"}
    BY <2>2, LifeValues, LifeValuesNext
  <2>5. UNCHANGED life \/ life' = [life EXCEPT ![i] = "idle"]
    BY <2>3, <2>4 DEF life
  <2> QED BY <2>1, <2>4, <2>5, ForgetStep, QuietBought
<1> QED
  BY <1>3, <1>4
\* FinUpsert: the row of an order that is over is written (Traced: the intent is tried
\* still, or forgotten).
LEMMA FinUpsertLife ==
  ASSUME IInv, TypeStore', Quiet, FinUpsert
  PROVE  LifeStep
<1> SUFFICES ASSUME NEW i \in Intents, i = Mine
             PROVE  LifeStep
  BY HandOwner DEF FinUpsert, HandPCs, IInv
<1>1. Shut /\ \A j \in Intents : ~InWindow(j) /\ ~InWindow(j)'
  BY DEF FinUpsert, Shut, InWindow
<1>2. UNCHANGED <<jour, exposed>> /\ OpenRows' = OpenRows
  BY DEF FinUpsert, OpenRows
<1>3. CASE UNCHANGED row
  BY <1>1, <1>2, <1>3, NothingStep DEF IInv, TypeOK
<1>4. CASE row' = [row EXCEPT ![i] = IF @ = "none" THEN "open" ELSE @] /\ row[i] = "none"
  <2>1. cur \in Attempts /\ exch[cur] # "none"
    BY HandOwner DEF FinUpsert, HandPCs, SettlingPCs, IInv, Followed
  <2>2. Tried(i) \/ i \in exposed
    BY <1>4, <2>1 DEF FinUpsert, IInv, Traced, Tried, OpenRows, Mine
  <2>3. row' = [row EXCEPT ![i] = "open"]
    BY <1>4
  <2> QED BY <1>1, <1>2, <1>4, <2>2, <2>3, BookStep DEF IInv, TypeOK
<1>5. CASE row' = [row EXCEPT ![i] = IF @ = "none" THEN "open" ELSE @] /\ row[i] # "none"
  <2>1. UNCHANGED row
    BY <1>5 DEF IInv, TypeOK, TypeStore
  <2> QED BY <1>3, <2>1
<1> QED
  BY <1>3, <1>4, <1>5 DEF FinUpsert, Upsert

\* FinDone: the row of the order is done.  An intent without its own row has lost its
\* trace.
LEMMA FinDoneLife ==
  ASSUME IInv, TypeStore', Quiet, FinDone
  PROVE  LifeStep
<1> SUFFICES ASSUME NEW i \in Intents, i = Mine
             PROVE  LifeStep
  BY HandOwner DEF FinDone, HandPCs, IInv
<1>1. cur \in Attempts /\ i = owner[cur]
  BY HandOwner DEF FinDone, HandPCs, IInv, Mine
<1>2. Shut /\ UNCHANGED row /\ \A j \in Intents : ~InWindow(j) /\ ~InWindow(j)'
  BY DEF FinDone, Shut, InWindow, Return
<1>3. CASE UNCHANGED <<jour, exposed>>
  BY <1>2, <1>3, NothingStep DEF OpenRows, IInv, TypeOK
<1>4. CASE jour' = [jour EXCEPT ![cur] = IF @ = "open" THEN "done" ELSE @]
            /\ exposed' = IF row[i] = "none" /\ jour[cur] = "open" THEN exposed \cup {i} ELSE exposed
  <2>1. \A n \in Attempts \ {cur} : jour'[n] = jour[n]
    BY <1>4 DEF IInv, TypeOK, TypeStore
  <2>2. \A j \in Intents \ {i} : Tried(j)' <=> Tried(j)
    BY <1>1, <1>2, <2>1 DEF Tried, OpenRows, Quiet
  <2>3. CASE row[i] # "none"
    <3>1. UNCHANGED life
      BY <1>2, <2>2, <2>3, LifeStill DEF IInv, TypeOK
    <3> QED BY <1>4, <2>3, <3>1, QuietBought DEF LifeStep
  <2>4. CASE row[i] = "none" /\ jour[cur] # "open"
    <3>1. UNCHANGED jour
      BY <1>4, <2>4 DEF IInv, TypeOK, TypeStore
    <3> QED BY <1>3, <1>4, <2>4, <3>1
  <2>5. CASE row[i] = "none" /\ jour[cur] = "open"
    <3>1. Tried(i)
      BY <1>1, <2>5 DEF Tried, OpenRows
    <3>2. life' = [life EXCEPT ![i] = life'[i]]
      BY <1>2, <2>2, LifeOfOne DEF IInv, TypeOK
    <3>3. life[i] = "trying" /\ life'[i] \in {"idle", "trying"}
      BY <1>2, <2>5, <3>1, LifeValues, LifeValuesNext DEF IInv, TypeOK
    <3>4. UNCHANGED life \/ life' = [life EXCEPT ![i] = "idle"]
      BY <3>2, <3>3 DEF life
    <3> QED BY <1>4, <2>5, <3>3, <3>4, ForgetStep, QuietBought
  <2> QED BY <2>3, <2>4, <2>5
<1> QED
  BY <1>3, <1>4 DEF FinDone

\* Journal: the intent is tried.
LEMMA JournalLife ==
  ASSUME IInv, BInv, TypeStore', NEW i \in Intents, Journal(i)
  PROVE  LifeStep
<1>1. made + 1 \in Attempts
  BY EntryAssumption DEF Journal, Attempts, IInv, TypeOK, TypeStore
<1>2. exch[made + 1] = "none" /\ jour[made + 1] = "none"
  BY <1>1 DEF IInv, Numbered, TypeOK, TypeStore, TypeExchange
<1>3. /\ owner'[made + 1] = i /\ jour'[made + 1] = "pre"
      /\ \A n \in Attempts \ {made + 1} : owner'[n] = owner[n] /\ jour'[n] = jour[n]
  BY <1>1 DEF Journal, IInv, TypeOK, TypeStore
<1>4. UNCHANGED <<row, exch, exposed>> /\ pc = "enter" /\ pc' = "submit"
  BY DEF Journal, exchange, history
<1>5. UNCHANGED bought
  <2>1. ASSUME NEW j \in Intents
        PROVE  Accepted(j)' = Accepted(j)
    BY <1>2, <1>3, <1>4 DEF Accepted
  <2> QED BY <2>1, BoughtStill
<1>6. \A j \in Intents : ~InWindow(j) /\ ~InWindow(j)'
  BY <1>4 DEF InWindow
<1>7. \A j \in Intents \ {i} : Tried(j)' <=> Tried(j)
  BY <1>1, <1>2, <1>3, <1>6 DEF Tried, OpenRows
<1>8. Tried(i)'
  BY <1>1, <1>3 DEF Tried, OpenRows
<1>9. row[i] = "none"
  BY DEF Journal, BInv, Planned
<1>10. life' = [life EXCEPT ![i] = life'[i]]
  BY <1>4, <1>7, LifeOfOne DEF IInv, TypeOK
<1>11. life[i] \in {"idle", "trying"} /\ life'[i] = "trying"
  BY <1>4, <1>8, <1>9, LifeValues, LifeValuesNext DEF IInv, TypeOK
<1>12. CASE life[i] = "trying"
  <2>1. UNCHANGED life
    BY <1>10, <1>11, <1>12 DEF life
  <2> QED BY <1>4, <1>5, <2>1 DEF LifeStep
<1>13. CASE life[i] = "idle"
  <2>1. Cardinality(Accepted(i)) = 0 \/ i \in exposed
    BY FS_EmptySet DEF Journal, IInv, Fresh
  <2>2. Life!Try(i)
    BY <1>4, <1>5, <1>10, <1>11, <1>13, <2>1 DEF Life!Try, bought
  <2> QED BY <2>2 DEF LifeStep, Life!Next
<1> QED
  BY <1>11, <1>12, <1>13
\* Unjournal: the row is closed.  An unknown result opens the window; a refusal ends
\* the try; a row left by a restart is forgotten when its intent has none either.
LEMMA UnjournalLife ==
  ASSUME IInv, BInv, TypeStore', Quiet, Unjournal
  PROVE  LifeStep
<1> SUFFICES ASSUME NEW i \in Intents, i = Mine
             PROVE  LifeStep
  BY HandOwner DEF Unjournal, HandPCs, IInv
<1>1. cur \in Attempts /\ i = owner[cur] /\ jour[cur] = "pre" /\ UNCHANGED row
  BY HandOwner DEF Unjournal, HandPCs, IInv, Mine, BInv, Journalled
<1>2. /\ \A j \in Intents : ~InWindow(j)
      /\ pc' # "lostUpsert" \/ UNCHANGED <<cur, outcome>>
  <2>1. pc = "unjournal"
    BY DEF Unjournal
  <2>2. CASE outcome = "restart"
    BY <2>1, <2>2 DEF Unjournal, InWindow, Return
  <2>3. CASE outcome = "maybe"
    BY <2>1, <2>3 DEF Unjournal, InWindow, hand
  <2>4. CASE outcome \notin {"restart", "maybe"}
    BY <2>1, <2>4 DEF Unjournal, InWindow, Return
  <2> QED BY <2>2, <2>3, <2>4
<1>3. \A j \in Intents \ {i} : ~InWindow(j)'
  BY <1>1, <1>2 DEF InWindow, Mine, Quiet
<1>4. \A n \in Attempts \ {cur} : jour'[n] = jour[n]
  BY DEF Unjournal, IInv, TypeOK, TypeStore
<1>5. \A j \in Intents \ {i} : Tried(j)' <=> Tried(j)
  BY <1>1, <1>2, <1>3, <1>4 DEF Tried, OpenRows, Quiet
<1>6. Tried(i)
  BY <1>1 DEF Tried, OpenRows
<1>7. life' = [life EXCEPT ![i] = life'[i]]
  BY <1>1, <1>5, LifeOfOne DEF IInv, TypeOK
<1>8. CASE UNCHANGED exposed /\ (row[i] = "none" => Tried(i)')
  <2>1. UNCHANGED life
    BY <1>1, <1>5, <1>6, <1>8, LifeStill DEF IInv, TypeOK
  <2> QED BY <1>8, <2>1, QuietBought DEF LifeStep
<1>9. CASE UNCHANGED <<jour, exposed>>
  <2>1. Tried(i)'
    BY <1>1, <1>9 DEF Tried, OpenRows, Quiet
  <2> QED BY <1>8, <1>9, <2>1
<1>10. CASE outcome = "maybe" /\ UNCHANGED exposed
  <2>1. pc' = "lostUpsert" /\ UNCHANGED <<cur, outcome>>
    BY <1>10 DEF Unjournal, hand
  <2>2. row[i] = "none" => Tried(i)'
    BY <1>1, <1>10, <2>1 DEF Tried, InWindow, Mine, Quiet
  <2> QED BY <1>8, <1>10, <2>2
<1>11. CASE row[i] = "none" /\ exposed' = exposed \cup {i}
  <2>1. life[i] = "trying" /\ life'[i] \in {"idle", "trying"}
    BY <1>1, <1>6, <1>11, LifeValues, LifeValuesNext DEF IInv, TypeOK
  <2>2. UNCHANGED life \/ life' = [life EXCEPT ![i] = "idle"]
    BY <1>7, <2>1 DEF life
  <2>3. UNCHANGED bought /\ {i} \in SUBSET Intents
    BY QuietBought
  <2> QED BY <1>11, <2>1, <2>2, <2>3, ForgetStep
<1>12. CASE outcome \notin {"maybe", "restart"} /\ UNCHANGED exposed
  <2>1. CASE row[i] # "none" \/ Tried(i)'
    BY <1>8, <1>12, <2>1
  <2>2. CASE row[i] = "none" /\ ~Tried(i)'
    <3>1. life[i] = "trying" /\ life'[i] = "idle"
      BY <1>1, <1>6, <2>2, LifeValues, LifeValuesNext DEF IInv, TypeOK
    <3>2. exch[cur] = "none" /\ pc = "unjournal"
      BY <1>12 DEF Unjournal, IInv, Fresh
    <3>3. \A n \in Attempts : owner[n] = i /\ n # cur => jour[n] \notin {"pre", "open"}
      BY <1>4, <2>2 DEF Tried, OpenRows, Quiet
    <3>4. i \notin exposed => Accepted(i) = {}
      BY <1>1, <2>2, <3>2, <3>3 DEF Accepted, IInv, Traced
    <3>5. Cardinality(Accepted(i)) = 0 \/ i \in exposed
      BY <3>4, FS_EmptySet
    <3>6. Life!GiveUp(i)
      BY <1>7, <1>12, <3>1, <3>5, QuietBought DEF Life!GiveUp, bought
    <3> QED BY <3>6 DEF LifeStep, Life!Next
  <2> QED BY <2>1, <2>2
<1>13. \/ UNCHANGED <<jour, exposed>>
       \/ outcome = "maybe" /\ UNCHANGED exposed
       \/ outcome \notin {"maybe", "restart"} /\ UNCHANGED exposed
       \/ row[i] = "none" /\ exposed' = exposed \cup {i}
       \/ row[i] # "none" /\ UNCHANGED exposed
  BY DEF Unjournal
<1> QED
  BY <1>8, <1>9, <1>10, <1>11, <1>12, <1>13

\* LostUpsert: the intent is written to be closed; when that fails, it is forgotten.
LEMMA LostUpsertLife ==
  ASSUME IInv, BInv, TypeStore', Quiet, LostUpsert
  PROVE  LifeStep
<1> SUFFICES ASSUME NEW i \in Intents, i = Mine
             PROVE  LifeStep
  BY HandOwner DEF LostUpsert, HandPCs, IInv
<1>1. cur \in Attempts /\ i = owner[cur] /\ pc = "lostUpsert" /\ pc' # "lostUpsert"
  BY HandOwner DEF LostUpsert, HandPCs, IInv, Mine, AfterLost, Return
<1>2. UNCHANGED jour /\ \A j \in Intents \ {i} : ~InWindow(j)
  BY DEF LostUpsert, InWindow
<1>3. \A j \in Intents : ~InWindow(j)'
  BY <1>1 DEF InWindow
<1>4. CASE UNCHANGED row /\ exposed' = exposed \cup {j \in Intents : InWindow(j)}
  BY <1>1, <1>2, <1>4, LeaveStep DEF IInv, TypeOK
<1>5. CASE row' = [row EXCEPT ![i] = IF @ = "none" THEN "open" ELSE @] /\ UNCHANGED exposed
  <2>1. CASE row[i] = "none"
    <3>1. outcome \in {"maybe", "restart"} /\ (outcome = "restart" => jour[cur] = "pre")
      BY <1>1 DEF BInv, Journalled
    <3>2. Tried(i)
      BY <1>1, <2>1, <3>1 DEF Tried, InWindow, OpenRows, Mine
    <3>3. row' = [row EXCEPT ![i] = "open"]
      BY <1>5, <2>1
    <3> QED BY <1>2, <1>3, <1>5, <2>1, <3>2, <3>3, BookStep DEF IInv, TypeOK
  <2>2. CASE row[i] # "none"
    <3>1. UNCHANGED row
      BY <1>5, <2>2 DEF IInv, TypeOK, TypeStore
    <3>2. \A j \in Intents : ~InWindow(j)
      BY <1>2, <2>2 DEF InWindow
    <3>3. exposed' = exposed \cup {j \in Intents : InWindow(j)}
      BY <1>5, <3>2
    <3> QED BY <1>4, <3>1, <3>3
  <2> QED BY <2>1, <2>2
<1> QED
  BY <1>4, <1>5 DEF LostUpsert, Upsert, MarkClosed
\* CloseIntent of the row in hand.
LEMMA CloseLife ==
  ASSUME IInv, BInv, TypeStore', Quiet, FinClose \/ LostClose
  PROVE  LifeStep
<1> SUFFICES ASSUME NEW i \in Intents, i = Mine
             PROVE  LifeStep
  BY HandOwner DEF FinClose, LostClose, HandPCs, IInv
<1>1. row[i] # "none"
  BY DEF FinClose, LostClose, BInv, Journalled
<1>2. UNCHANGED <<jour, exposed>> /\ (row' = [row EXCEPT ![i] = "closed"] \/ UNCHANGED row)
  BY DEF FinClose, LostClose, Close, history
<1>3. pc' # "lostUpsert" /\ pc # "lostUpsert"
  BY DEF FinClose, LostClose, AfterLost, Return
<1>4. CASE UNCHANGED row
  BY <1>2, <1>3, <1>4, NothingStep DEF IInv, TypeOK, Shut, OpenRows
<1>5. CASE row' = [row EXCEPT ![i] = "closed"]
  BY <1>1, <1>2, <1>3, <1>5, FinishStep DEF IInv, TypeOK, Shut
<1> QED
  BY <1>2, <1>4, <1>5

\* Confirm: a row without an answer becomes one with: it is open before and after.
LEMMA ConfirmLife ==
  ASSUME IInv, BInv, TypeStore', Quiet, Confirm
  PROVE  LifeStep
<1>1. jour[cur] = "pre" /\ cur \in Attempts
  BY HandOwner DEF Confirm, HandPCs, IInv, BInv, Journalled
<1>2. UNCHANGED jour \/ jour' = [jour EXCEPT ![cur] = "open"]
  BY DEF Confirm
<1>3. OpenRows' = OpenRows
  BY <1>1, <1>2 DEF OpenRows, IInv, TypeOK, TypeStore
<1>4. UNCHANGED <<row, exposed>> /\ Shut
  BY DEF Confirm, Shut, Return, history
<1> QED
  BY <1>3, <1>4, NothingStep DEF IInv, TypeOK

\* Every step of the executor is a step of the promise, or none.
LEMMA LifeNext ==
  ASSUME IInv, BInv, IInv', [Next]_vars
  PROVE  LifeStep
<1> USE DEF store, exchange, engine, memory, hand, agenda, loop, history
<1>1. TypeStore /\ TypeStore'
  BY DEF IInv, TypeOK
<1>2. ~(SubmitAccepted \/ SubmitMaybe) => \A n \in Attempts : exch'[n] # "none" <=> exch[n] # "none"
  BY AcceptedKept
<1>3. ASSUME Start \/ Begin \/ Load \/ Loaded \/ Resolved \/ \E n \in Attempts : Resolve(n)
      PROVE  LifeStep
  <2>1. UNCHANGED <<store, exch, exposed>>
    BY <1>3 DEF Start, Begin, Load, Loaded, Resolved, Resolve
  <2>2. CASE \E n \in Attempts : Resolve(n)
    <3>1. \A j \in Intents : ~InWindow(j) /\ ~InWindow(j)'
      BY <2>2 DEF Resolve, InWindow
    <3>2. UNCHANGED life
      BY <1>1, <2>1, <3>1, LifeStill DEF Tried, OpenRows
    <3> QED BY <2>1, <3>2, QuietBought DEF Quiet, LifeStep
  <2>3. CASE Start \/ Begin \/ Load \/ Loaded \/ Resolved
    <3>1. Shut
      BY <2>3 DEF Start, Begin, Load, Loaded, Resolved, Shut
    <3> QED BY <1>1, <2>1, <3>1, NothingStep DEF Quiet, OpenRows
  <2> QED BY <1>3, <2>2, <2>3
<1>4. ASSUME LoadFails
      PROVE  LifeStep
  <2> DEFINE S == {i \in Intents : row[i] = "none" /\ \E n \in OpenRows : owner[n] = i}
  <2>1. UNCHANGED <<store, exch>> /\ exposed' = exposed \cup S /\ S \in SUBSET Intents
    BY <1>4 DEF LoadFails
  <2>2. \A j \in Intents : ~InWindow(j) /\ ~InWindow(j)'
    BY <1>4 DEF LoadFails, InWindow
  <2>3. UNCHANGED life
    BY <1>1, <2>1, <2>2, LifeStill DEF Tried, OpenRows
  <2> HIDE DEF S
  <2> QED BY <2>1, <2>3, ForgetStep, QuietBought DEF Quiet
<1>5. ASSUME Crash
      PROVE  LifeStep
  BY <1>1, <1>5, LeaveStep DEF Crash, Quiet
<1>6. ASSUME NEW i \in Intents, SyncAdopt(i)
      PROVE  LifeStep
  BY <1>1, <1>6, NothingStep DEF SyncAdopt, Quiet, Shut, OpenRows
<1>7. ASSUME NEW i \in Intents, CloseLot(i)
      PROVE  LifeStep
  BY <1>1, <1>7, FinishStep DEF CloseLot, Close, Quiet, Shut
<1>8. ASSUME World
      PROVE  LifeStep
  <2>1. UNCHANGED <<store, loop, exposed>>
    BY <1>8 DEF World, Deliver, ShortExpires, FillOrder, KillOrder, DeadlinePass, Relist
  <2>2. ~(SubmitAccepted \/ SubmitMaybe)
    BY <2>1 DEF SubmitAccepted, SubmitMaybe
  <2> QED BY <1>1, <1>2, <2>1, <2>2, NothingStep DEF Quiet, Shut, OpenRows
<1>9. ASSUME Asking
      PROVE  LifeStep
  <2>1. UNCHANGED <<store, exposed>>
    BY <1>9 DEF Asking, PollFails, PollWaits, PollEnds, PollsDone, Cancel, CancelTooLate,
       CancelFails, Recheck, RecheckFails, Requery, RequeryFails
  <2>2. pc \in {"poll", "cancel", "recheck", "requery"}
    BY <1>9 DEF Asking, PollFails, PollWaits, PollEnds, PollsDone, Cancel, CancelTooLate,
       CancelFails, Recheck, RecheckFails, Requery, RequeryFails
  <2>3. pc' # "lostUpsert"
    BY <1>9 DEF Asking, PollFails, PollWaits, PollEnds, PollsDone, Cancel, CancelTooLate,
       CancelFails, Recheck, RecheckFails, Requery, RequeryFails, Return, IInv, TypeOK, TypeLoop
  <2>4. ~(SubmitAccepted \/ SubmitMaybe)
    BY <2>2 DEF SubmitAccepted, SubmitMaybe
  <2> QED BY <1>1, <1>2, <2>1, <2>2, <2>3, <2>4, NothingStep DEF Quiet, Shut, OpenRows
<1>10. ASSUME Booking
       PROVE  LifeStep
  <2>1. UNCHANGED <<owner, exch>>
    BY <1>10 DEF Booking, FinUpsert, FinClose, FinDone
  <2> QED BY <1>1, <1>10, <2>1, FinUpsertLife, FinDoneLife, CloseLife DEF Booking, Quiet
<1>11. ASSUME NEW i \in Intents, Journal(i)
       PROVE  LifeStep
  BY <1>1, <1>11, JournalLife
<1>12. ASSUME MakePlan \/ EntersDone \/ \E i \in Intents : Skip(i) \/ JournalFails(i)
       PROVE  LifeStep
  <2>1. UNCHANGED <<store, exch, exposed>> /\ Shut
    BY <1>12 DEF MakePlan, EntersDone, Skip, JournalFails, Shut
  <2> QED BY <1>1, <2>1, NothingStep DEF Quiet, OpenRows
<1>13. ASSUME SubmitAccepted \/ SubmitMaybe
       PROVE  LifeStep
  <2>1. UNCHANGED <<store, exposed>> /\ pc = "submit" /\ pc' # "lostUpsert"
    BY <1>13 DEF SubmitAccepted, SubmitMaybe
  <2>2. CASE exch' = [exch EXCEPT ![cur] = "live"]
    BY <1>1, <2>1, <2>2, BuyStep
  <2>3. CASE UNCHANGED exch
    BY <1>1, <2>1, <2>3, NothingStep DEF Quiet, Shut, OpenRows
  <2> QED BY <1>13, <2>2, <2>3 DEF SubmitAccepted, SubmitMaybe
<1>14. ASSUME SubmitRefused \/ Confirm
       PROVE  LifeStep
  <2>1. UNCHANGED <<owner, exch>>
    BY <1>14 DEF SubmitRefused, Confirm
  <2>2. CASE SubmitRefused
    BY <1>1, <2>2, NothingStep DEF SubmitRefused, Quiet, Shut, OpenRows
  <2> QED BY <1>1, <1>14, <2>1, <2>2, ConfirmLife DEF Quiet
<1>15. ASSUME Losing
       PROVE  LifeStep
  <2>1. UNCHANGED <<owner, exch>>
    BY <1>15 DEF Losing, Unjournal, LostUpsert, LostClose
  <2> QED BY <1>1, <1>15, <2>1, UnjournalLife, LostUpsertLife, CloseLife DEF Losing, Quiet
<1>16. ASSUME UNCHANGED vars
       PROVE  LifeStep
  BY <1>1, <1>16, NothingStep DEF vars, Quiet, Shut, OpenRows
<1> QED
  BY <1>3, <1>4, <1>5, <1>6, <1>7, <1>8, <1>9, <1>10, <1>11, <1>12, <1>13, <1>14, <1>15, <1>16
  DEF Next, Loop, Restarting, Lots, Planning, Submitting

\* The buy side keeps its promise to the source: seen from the store and the exchange
\* only, an intent goes from idle over trying and held to closed and is bought once,
\* restarts, failures and lost answers included; what is forgotten is named.
THEOREM PromiseKept == Spec => KeepsPromise
<1>1. Init => Life!Init
  <2> SUFFICES ASSUME Init
               PROVE  Life!Init
    OBVIOUS
  <2>1. \A i \in Intents : Accepted(i) = {}
    BY DEF Init, Accepted
  <2>2. OpenRows = {} /\ \A i \in Intents : ~InWindow(i)
    BY DEF Init, OpenRows, InWindow
  <2>3. life = [i \in Intents |-> "idle"]
    BY <2>2 DEF Init, life
  <2>4. [i \in Intents |-> Cardinality(Accepted(i))] = [i \in Intents |-> 0]
    BY <2>1, FS_EmptySet
  <2> QED BY <2>3, <2>4 DEF Init, Life!Init
<1>2. IInv /\ BInv /\ (IInv /\ BInv)' /\ [Next]_vars => [Life!Next]_(Life!vars)
  BY LifeNext DEF LifeStep, Life!vars, bought
<1> QED
  BY <1>1, <1>2, BookInvariance, PTL DEF Spec, KeepsPromise, Life!Spec

=============================================================================
