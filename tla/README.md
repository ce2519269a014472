# TLA+ models of yovel-cockpit

The cockpit is a daemon that turns signed *targets* ("hold this, up to here")
into orders at a broker, and keeps a local ledger of what it did.  It is small,
it runs for weeks, and it handles money: what must not go wrong is an order
placed twice, a share sold that belongs to somebody else, a pause that does not
last, a ledger that lies, two daemons on one account, more bought than was
entrusted.  Most of these need a crash, a lost answer, a slow goroutine or an
unlucky order of legal calls, which is what this directory checks.

Every definition is translated from the Go source; `PROJECT.json` ("map") names
the lines.  Doc and comment claims that the code does not keep are the runs
marked *violation*, and the list below their table.

## 1. The system

One daemon (`cmd/cockpitd`) for an account, started and restarted by a
supervisor (`cmd/cockpitsup`).  The daemon's goroutines:

| goroutine | does |
|---|---|
| HTTP handlers | `handleDownlink` reads the clock, then `Engine.Apply` under the engine's mutex, then wakes the run loop |
| `runLoop` | the only caller of the executor: `Tick` (5 s), `TickWoken`, `PollWorking` (500 ms while orders work), one after the other |
| `watchLoss` | every 30 s: daily loss against its limit, sets or resets the circuit breaker |
| `beatLoop` | writes the heartbeat, with the time of the last tick |
| `watchBudget`, the allocator's retry | at 08:50 and until it works: what is entrusted today, and each book's share of it |
| `watchBrokerLedger`, account refresh, notifier | sums and reports; they write no trading state |

The store is SQLite; each call is a transaction of its own, so a crash falls
*between* two calls, never inside one.  Start-up is sequential: locks, store,
`Engine.Restore`, broker, allocation, HTTP, loops.  Processes share files: the
lock files and heartbeats (daemons and supervisors), the token file (every
program with a driver of one account), `capital.json`.

| component | state | operations | talks to | what is hard | what makes it correct |
|---|---|---|---|---|---|
| executor, buy side (`executor.go`, `orders.go`) | `work`, `loaded`; `working_orders`, `intents` | doEnter, track, pollOne, cancelAndRecheck, ensureLoaded, resolveUnconfirmed | engine's plan, store, broker | crash between any two writes; an order with no answer; fills while cancelling | bought at most once; every fill booked; every order settled |
| executor, sell side (`executor.go`, `sell_fail.go`, `manual.go`, `tp_check.go`, `tp_day.go`) | lots, TP numbers, `sellAfter`; `intents`, `orders` | doSell, finishSell, placeTP, checkDelegatedTPs, expireDayTPs, syncPositions, attributeShrink | the same; the account's total | several lots and the user's own shares in one balance; fills only listed for a day; sales by hand | each share sold once and by its owner; the ledger adds up |
| admission and guards (`protocol/verify.go`, `engine.go`, `store/restore.go`) | `lastSeq`, `nonces`, targets, the guard flags; `source_seq`, `derisk_nonces`, `guards` | Admit, Apply, applyDerisk, Restore, SetCircuitBreaker | HTTP, watcher, run loop | replays over restarts; a clock read before a mutex; one row written by several; dropped errors | once per command; a pause lasts; no target steps back |
| daily loss (`cockpitd/loss.go`) | none of its own: the breaker and its dated reason | watchLoss, decideLoss | engine, store | restarts, commands that overwrite the reason | trips, and comes off the next day |
| supervisor, process locks (`cockpitsup`, `proc`, the daemon's start) | lock files, heartbeats, restart times | Acquire, release, policy, hung, beat | files, the operating system | create, write, read and remove of a lock file are apart; hangs, suspended processes, reused pids | one daemon an account; a hung one killed, a healthy one not; no crash loop; trading resumes |
| broker drivers (`kiwoom`, `upbit`) | token, token file | call with retries, SubmitBuy, waitFill, PlaceTP, CancelOrder | HTTPS | which failures may be tried again; several programs on one token | an order is never sent twice; what is answered is true |
| plan (`reconcile.go`, `engine.planLocked`) | targets, lots, `lastW` | Build, reduceOrder, ApplyOrderCap | sources, prices, session | repeated snapshots, partial exits, owners of lots, caps over sources | entered once; a hold_frac sells once; every lot gets what its snapshot asks |
| allocation and books (`alloc`, `book`, `sizing`, `cockpitd/alloc.go`) | the day's shares, `capital.json` | apply, capitalLocked, NewGate, Admit | the account, the plan | several sources in one plan; an account that cannot be read | limits hold over all sources |
| stops, time exits, TP prices (`executor.go`, `local_exit.go`, `guard`) | three numbers of a lot, in memory and in the store | armStop, setTimeExit, placeTP, enforceLocalExits | the plan's snapshot | three writers of one snapshot | every new number arrives |
| paper broker (`paper`, `paper_restore.go`) | cash, holdings, TP orders | Buy, Sell, PlaceTP, SettleLimits, Restore | prices, the ledger | several lots' locks on one symbol; rebuilt from rows written after the trade | a restart changes nothing but dust; every lot can be sold |
| session, quotes, lots | pure, or a cache | | | boundaries | |
| HTTP API, UI, notify, broker ledger check, config, ids, version, fakekiwoom, tools | none that trades | | | | |

`PROJECT.json` lists every component with what is modelled of it, and the
hazards, each at its line.

## 2. Plan

Done, in order of what hurts most: **IntentLife** (abstract), **Entry** and
**EntryProofs**; **Exit** and **ExitProofs**; **Control** and **ControlProofs**;
**Supervise** and **SuperviseProofs**; **OrderCall** (abstract), **Driver** and
**DriverProofs**; **Plan** and **PlanProofs**; **Paper** and **PaperProofs**; **SumProofs**,
lemmas on sums over finite sets that the last ones share.

Left, and what it is worth:

1. `Entry!Settled`'s counterpart for Exit: an exit that works is settled, unless
   a night passes while the daemon is down.
2. A plan made of prices that move between the plan and the purchase: how far what is
   paid may be over what was planned.

How the modules fit together.  Entry and Exit are two halves of one executor.
They are modelled apart since they share only the shape of the loop: Entry
follows intents that have no lot yet, with orders on different symbols; Exit
starts from lots and sells one symbol.  Control shares the plan's moment with
both.  Plan says *what* a tick does to every lot where Entry and Exit leave it
free, and takes orders as done at once, where Entry and Exit follow them.  What
Entry and Exit take for granted of a broker is OrderCall, which Driver
implements; the brokers without `Submitter` are Paper's.  Supervise says when a
daemon runs at all: the crashes and restarts of the other modules are its
processes.

## 3. The modules

### IntentLife — what the executor promises of one intent

`idle`, `trying`, `held`, `closed`: it is bought once while being tried, and
a closed intent never comes back.  The executor may *forget* an intent only
where the code's windows are; only then may it be bought again.

### Entry — the buy side

| model | code |
|---|---|
| `row`, `qty` | `intents` table |
| `jour`, `owner` | `working_orders`, with `pre` the Unconfirmed row written before the submission |
| `exch`, `filled`, `due` | the exchange, and the clock past an order's deadline |
| `unlisted` | the orders that `LimitStatus` answers with `Known` = false (Kiwoom lists the day's fills; an order need not be among them) |
| `lot`, `terminal`, `short`, `wanted` | `Engine.positions`, `terminal`, `short`, targets |
| `work`, `loaded` | `Executor.work`, `Executor.loaded` |
| `pc`, `cur`, `todo`, `enters`, ... | where the run loop's goroutine stands |

An attempt is one pass of `doEnter` that reaches the journal; its number stands
for the temporary id and the broker's number.  Actions are single store writes
and broker calls: `Journal` → `SubmitAccepted`/`Refused`/`Maybe` → `Confirm` or
`Unjournal` → `LostUpsert` → `LostClose`; `Load`, `Resolve` after a restart;
`PollEnds` → `Cancel` → `Recheck` → `Requery` → `FinUpsert` → `FinClose` →
`FinDone`.  `Crash` is possible before each.  Around them the exchange fills
and kills orders, targets come and go, deadlines pass.

The broker may leave an order out of its answers, and list it again, at any time and
without limit (`Relist`).  Such an answer is no error, and no failure is spent on it: the
code reads it as nothing filled and follows on (`PollWaits`), past the deadline cancels
and asks again (`Requery`), at every poll anew.  Only after a cancellation that was
answered does it take the answer as it is (`Recheck`), and books nothing for a fill
that was not listed; `unsure` names that intent.  A listed row with blank numbers is
taken as an unlisted one.

`exposed` and `unsure` are history: the intents whose last durable trace was
lost by a window in the code, and those whose fill the cockpit had no way to
learn.  They make the exceptions of the properties exact instead of vague, and
nothing in the model reads them.

### Exit — the sell side

Lots of one symbol next to the user's own shares; the account only knows the
sum, and the exchange sells whichever share is free (`Free`).  `book` holds the
cockpit's orders; `row`/`qty`/`tp` are the intents' rows, `jour` the
working orders, `sold`/`manual`/`told` the ledger's rows and the order numbers
in them; `pos`, `ptp`, `work`, `rest` are memory.  A tick goes
poll → delegated TPs → expiry of the day's TPs → sync with the account → plan →
exits → poll → new TPs, each visiting its lots, each write and call a step.
The plan's snapshot (`plan`) is taken once, and used after other steps changed
what it was taken of, as in `Executor.tick`.  Three writers use it, each with its guard
against lots that were sold meanwhile (`Untouched`): `ArmStop` writes the whole row from
it, `SetTimeExit` a column that is not modelled, and `PlanTp` with its steps a new TP;
all three put the snapshot back as the engine's lot (`SnapshotBack`).  Stops and time
exits come before the first TP, in any order and number: what differs between them
is in Plan.  That one of them writes another's number back as it was in the snapshot
is `Obeyed`'s matter there; here it is quantities and order numbers.

Which lots are sold, and how many shares, is free (`Sell(l, q)`): it covers
target exits, partial exits, stops and time exits.  Fills of an earlier day are
not listed by the broker (`Reported`), a day order dies at night.  History:
`astray` (lots of which a fill, an order or a number was lost), `twice` (lots
with a row that a crash or a failed write left doubtful), `gone` (orders the
cockpit cancelled itself).

### Control — admission, guards, the loss breaker

`Receive` reads the clock and queues for the mutex; then one of `Reject`,
`TakeTarget` (→ `SaveSeq`) or `TakeCommand` (→ `SaveNonce` → `ApplyDerisk`)
runs under it, with its store writes as steps that may fail or be the last
before `Restart`.  `Plan` needs the mutex, `Enter` comes after it.  The watcher
is `Check` → `Trip`/`Reset`.  `Restart` is `New` plus `Restore`: one seq back for
each source, and the nonces that are still in time.  Instants are small
numbers; a trading day is `DayLength` of them.  Signatures are taken as valid
and bodies as well-formed.

History: `applied`, `held`, `tripped`, and `excused` (a command whose nonce
write failed, or was let go by a request with an older message's clock or by a
start at its very expiry, or that a crash cut between nonce and guards; and
whether the last write of the guards row failed).

### Supervise — who may run

| model | code |
|---|---|
| `lock` | the lock files: `sup` and `dir` of a data-dir, `acct` of a broker key |
| `supBeat`, `dirBeat` | `supervisor.heartbeat.json`, `heartbeat.json`: the ages of `ts` and `last_tick` |
| `pc`, `want`, `try`, `seen` | where a process stands in `proc.Acquire`, its release, `run` of the daemon or `main` of the supervisor |
| `up`, `ticked`, `stuck` | the daemon's start, `liveness.lastTick`, and a loop that does not return |
| `child`, `exits`, `rest` | the supervisor's process, `policy.restarts`, `policy.halt` |
| `frozen`, `aliens` | the operating system: suspended processes, pids that other programs got |

`Acquire` is `Open` (exclusive creation) → `Write`, or `Read` → `Remove` → `Open`
again; `release` is `RelRead` → `RelRemove`.  Starters interleave between all of
these.  A daemon goes `dir` lock → `FirstBeat` → `acct` lock → `Boot` (the port)
→ `LoopTick` and `Beat`; a supervisor `StartSup`, `Spawn`, `WatchTick`
(`hung`), `ChildExit`.  Time is ages in minutes; `Tick` waits until every
process that is not suspended has done its work of the minute (`owed`).
History: `broken` says by which of three ways a live process lost its lock:
`torn` (the file read between its creation and its writing), `race` (two
starters find one stale lock, and the second removes the first one's fresh one
by name; or the dead holder's pid is a new holder's by then), `stale` (a lock judged by a heartbeat from before the holder's start,
or one whose holder is suspended).  `starts` and `dozed` belong to the properties.

### OrderCall and Driver — one call of a broker

OrderCall is what Entry and Exit rely on: for one submission the exchange gets
at most one order; *accepted* names its shares; after *refused* there is none
and none will come; after *maybe* either is possible.

Driver is `client.call` with its attempts (`try`), the renewal of the token
(`renewed`, `force`), `SubmitBuy`'s second, smaller order, `waitFill`
(`poll` → `kill` → `recheck`), `PlaceTP` and `CancelOrder`, for Kiwoom and
Upbit, and `tokenStore.get` (`ReadFile`, `Issue`, `Save`).  A request is
`Served`, turned away by a `Stranger` (a proxy or a pacing answer), `Lost` with
or without its order taken, or left on the wire (`late`, `Arrive`).  The
exchange of Kiwoom is the repository's own `fakekiwoom`.  History: `sent`, and
two exceptions: `torn` (an answer that could not be parsed is given as a plain
refusal, client.go:151 and 179; a missing order number as "no order",
broker.go:394-414) and `unsaved` (the token could not be written, token.go:149).
`blind` in a call marks that the cancellation or the second look of `waitFill`
failed.

### Plan — what a tick does to every lot

| model | code |
|---|---|
| `snap`, `number` | the last snapshot of a source; the stop, time exit and TP price in it |
| `lot`, `row` | `Engine.positions`, and what the store has of a lot's numbers |
| `terminal`, `lastW` | `Engine.terminal`, `Engine.lastW` |
| `capital`, `sharesOf`, `saved` | the allocation in force, its day, and `capital.json` |

`PlanAll` is `planLocked`: one `Gate` passed from source to source (`NewGate`,
`Admit`), and for each source `Build`'s table (`PlanTarget`: `Reduce` for what it
holds, `Buy` for what it does not), the book's own limit and the order cap,
twice.  `Tick` makes the plan and `Execute` is what the executor does with it, in its
order: exits, then `armStop`,
`setTimeExit` and `placeTP` *on one snapshot of each lot* (`Updated`, `Written`),
then entries.  `LocalExit` comes before the plan, `Sync` takes the numbers from
the store, `Restart` forgets snapshots and weights.  `ShareOut` is the allocator:
once a day, from the account, from the file, or not at all.  `NewAlloc` and
`CheckPct` say which books the daemon accepts; they are assumptions of the model.

What it simplifies: a tick is one step; the guards of entries that do not depend on
money (an old or expired snapshot, a halted book, a pause, a price far from the
market's) are one free set, `Bars`; prices do not move; each source has its own
book; float tolerances, acks, notes, orphans and counts are left out.  History:
`bought`, `late` and `keeps`.

### Paper — the account in memory

`cash`, `held`, `sellable`, `tps`, `seq` are `paper.Broker`; `lot`, `row`, and
`net`/`top` (the two numbers the restart reads from the orders' table) are the
executor's side.  An operation of the executor is the broker's step, then the
ledger's row, then the lot; `Restart` may come between any two and is
`PaperState` with `Broker.Restore`.  `Bought`, `Given`, `Placed` and `Cancelled`
overwrite `sellable` as the code does, which forgets what other lots' orders
lock.  So does `Settled`: it fills the orders whose price is `Reached`, and leaves the
others in the book with their locks forgotten (paper.go:405-423).  Orders have prices of
their own, so a settlement that leaves orders is common in the run.

A partial exit that would leave less than `MinOrder` ends the lot (`Keeps`, executor.go:535-540;
Upbit has such a limit, main.go:499), and the shares stay in the account: `dust` counts
them.  No row has them, so a restart forgets them; `Restored` says that they are all it
forgets.  `MinOrder` = 0 is an exchange without a limit.

History: `entered`, `left`, `dust`, and `torn`, the lots that a crash cut from
their row.

### MC modules

`MCEntry` and `MCControl` only extend their module; `MCExit`, `MCSupervise`,
`MCDriver`, `MCPlan` and `MCPaper` define constants that a `.cfg` cannot write
(records, functions, sequences), `MCPaper` a symmetry, and `MCExit` and `MCPlan` a
state constraint.  The `.cfg` files hold the bounds.

## 4. The runs

Bounds count *things that may happen* (submissions, crashes, failures, shares
sold by hand); between them every interleaving is explored, none sampled.

| run | bounds | shows |
|---|---|---|
| Entry | 1 intent, 2 orders of 2 shares, 2 crashes, 1 failure, any number of answers that leave an order out (695 000 states) | `NoRebuy`, `Booked`, `ClosedNeverBought`, `KeepsPromise` (implements IntentLife), `Settled` (liveness), and `IInv`, the invariant the proofs use |
| Exit | lots of 1 and 2 shares, 2 orders, 1 hand sale, 1 crash, remainders too small to sell; 1 failed call, or a night, one without the other (2.8 M) | `OfferedOnce`, `OwnSharesKept`, `LedgerTrue`, `NeverGrows` |
| ControlGuards | 2 commands (liquidate, resume) of life 1, 2 requests at a time, 3 instants, a day of 2, 1 crash, 1 failure (3.3 M) | `DeriskOnce`, `PauseSticks` |
| ControlTargets | 1 source with 2 targets, 4 instants, two days, 1 crash, 1 failure (164 000) | `NoStepBack`, `RetainedTaken`, `LossTrips`, `LossReleases` (liveness), and Control's `IInv` |
| Supervise | two supervisors with one data-dir, with one port, or with only the account in common, without faults; and one supervisor with 2 faults; ages to 3 minutes (783 000) | `OneTrader`, `StartsBounded`, `HungKilled` and `HealthyKept` (of steps), `Restored` (liveness) |
| Driver | six scenarios: one program's orders at Kiwoom, with `Submitter` and with `waitFill`, and at Upbit; daemon and brokerctl ordering at once, with failures or with dropped tokens; the daemon beside a tool that may not issue tokens. Up to 2 faults, 2 operations, 4 orders (377 000) | `KeepsPromise` (implements OrderCall), `SettledTrue`, `Heals` (liveness) |
| Plan | a day book with a stock and a coin, a night book with a stock; two days (88 000) | `EnteredOnce`, `KeptShare`, `Obeyed`, `WithinMeans`, `ReserveKept` |
| Paper | 3 lots of 3 shares, partial exits of 1, 2 prices of shares and of TPs, a smallest order of 2, 6 order numbers, any number of crashes (1.5 M) | `Restored`, `Closable`, `SoldOnce` |

Why these bounds are enough to mean something:

- *Entry*: a second purchase needs two attempts of one intent and one crash; a
  second crash reaches the crash during the recovery from the first; two intents
  never share a row, an order or a lot, so one is enough for TLC, and the
  theorems hold for any number.
- *Exit*: two lots are the least that can take each other's shares, and three
  shares the least that a partial fill can split.
- *Control*: two handlers are the least that can be overtaken between clock and
  mutex, and the command's life (1) is shorter than the run, so nonces do expire.
  Targets and commands meet only in the flags, so they have a run each; together
  the two runs fire every action.
- *Supervise*: two starters are the least that can race for a stale lock, and two
  faults the least for a hang followed by a death of the supervisor.  The limits
  are two minutes each, with `LoopMax` = 2 starts in a window, so that the rest
  and the return from it are reached; the code's 60-second wait before a third
  restart is not.
- *Driver*: four orders let each of two operations of two programs have its
  second, smaller order; two faults let a lost answer be followed by a failed
  second look.
- *Plan*: two books are the least that compete for money, night limit and
  reserve; three intents give an entry with each kind of limit.  New numbers, old
  lots without a source, and the second day are explored one without the other
  (`MCOneKind`).  No book of the run has a fixed seed, a part in per cent, a
  weight or a largest quantity of its own.
- *Paper*: two orders overwrite each other's locks, a third lot stands beside them.
  With two TP prices a settlement fills one order and leaves another.  Three shares, sold
  one by one, leave dust at the lower price (1 * 1 < 2) and none at the higher.  A crash
  comes between ledger and lot at most once for a lot (`Tears`), elsewhere any number of times.

Deadlock is checked everywhere but in Driver, whose programs end.

### Where the code does not do what it says

| run | claim | what happens |
|---|---|---|
| EntryRebuy (`BoughtOnce`) | orders.go:64-66: with the journal the same target is not bought again | after `ErrMaybeSent` the journal row is closed before the closed intent is written; killed in between, the daemon knows nothing of the purchase and buys again |
| ExitOwnShares (`OwnShares`) | protocol.md:257-258: a source's targets only touch its own positions | a TP that filled in part is cancelled and forgotten; the next exit sells as many shares too many |
| ExitDeadTP (`NoDeadTP`) | store.go:229-230: a dead TP number must be cleared, or exits stop at it | `placeTP` cancels the old TP and returns when the new one is refused, with the old number still in place |
| ControlBreaker (`BreakerReleased`) | loss.go:27: the breaker comes off on the next trading day, restarts included | a command overwrites the dated reason in the guards row; after a restart the watcher does not know its own breaker |

Other disagreements met while modelling, without a run of their own:

- executor.go:198 says that working orders are settled before anything is planned;
  when the first `OpenWorking` fails the tick plans without them (orders.go:124-127).
- protocol.md:319 says that in one tick a pause wins over an entry; entries planned
  before the pause are sent after it (executor.go:283).
- kiwoom client.go:133 says that a cancellation tried again has the same result;
  one that took effect and was answered with a 5xx is refused the second time,
  and `doSell` stops there (executor.go:474).
- proc.go:8-9 says that a dead holder's lock is always taken over; when its pid is
  another program's, the heartbeat it names is the one that the next daemon of the
  data-dir has just written (main.go:107) before it asks for the account's lock
  (main.go:110), and it is refused while that program lives.
- protocol.md:98, 440 and 746 let a source change its key; the lot of the old key
  is not the new key's (engine.go:635), and unless a book names the key its intent
  is entered once more.

The properties of the passing runs are the ones that do hold: `NoRebuy` is
`BoughtOnce` without the two windows, `OwnSharesKept` is `OwnShares` without
lots whose fills were lost, `LossReleases` says the breaker comes off while
the engine still knows why it was set, `OneTrader` and `Restored` (Supervise) name
the ways a lock is lost, `SettledTrue` and `KeepsPromise` (Driver) the answers that
cannot be believed, `Settled` (Entry) the orders that the broker does not list any
more, `Restored` (Paper) the dust, and `SoldOnce` the lots a crash cut from their row: there the
cash counts a sale whose lot is still open and is sold again, or a purchase that
left no lot and is made again.

Three more exceptions that Supervise makes exact: two supervisors of one data-dir,
once a lock was lost, kill each other's daemons without end; an orphaned daemon's
heartbeat hides a child whose beats have stopped (`hung` ignores the pid in it); a
hung daemon whose supervisor has died keeps its locks fresh and is nobody's child.
And one that shapes `Heals`: two long-lived programs that both issue tokens can
take them from each other for ever, so the property is about one issuer.

### Mutants

Each property of a passing run has an operator (`Mut...`, beside the definition
it varies) with a plausible bug, such as submitting before the journal is
written, resolving only the confirmed rows, saving the guards before they change,
judging a lock by its heartbeat alone, trying an order again after a lost answer,
not taking what a source buys from what the next may buy, moving the stop of a lot that
was sold in the same tick, or counting only the filled orders' numbers at a restart.  With it in place of the definition TLC finds
the property violated.

## 5. Fairness

*Entry*: `WF(Loop)`: the run loop's goroutine waits for nothing but calls with
timeouts, and a dead process is started again by the supervisor (`Start` is part
of `Loop`).  `WF(DeadlinePass(n))`: the clock advances.  Nothing is assumed of
fills, targets, or of calls succeeding, other than that failures are finite in
number; `Settled` therefore says that a *finite* number of failures cannot leave
an order followed for ever.  Answers that do not list the order are not failures, and
there may be any number of them; nothing forces the broker to list an order again.
An order that it leaves out for ever, or again and again, *is* followed for ever, in the
code and in the model, and `Settled` is about the others only
(`<>[](n \notin unlisted)` is its hypothesis).

*Control*: `WF(Handling)` and `WF(Watching)`: a handler in the mutex does not
block on anything but SQLite, and the watcher's ticker fires.  Nothing is
assumed of time or of messages: `LossTrips` allows for the day to end first.

*Supervise*: every process that runs takes its steps (file operations, a loop and
a beat that are tickers), a suspension ends, time passes, and the task scheduler
starts a supervisor that is gone (the comment over `main` of cockpitsup says so).
Starts are assumed to take less than `Grace`.

*Driver*: a program that can take a step does, and the daemon's loops query for
ever.  The number of faults and of dropped tokens is finite.

Exit, Plan and Paper have no liveness property; `Obeyed` (Plan) bounds the number
of ticks instead, which needs no fairness.

## 6. What is proved

`EntryProofs`, for every number of intents, attempts, shares, crashes and failures,
from `EntryAssumption` alone (types of the constants, `NoIntent` no intent):

- `Invariance`: `Spec => []IInv`
- `TypeCorrect`: `Spec => []TypeOK`
- `BoughtAtMostOnce`: `Spec => []NoRebuy`

`NoRebuy` speaks of accepted orders only, and no step looks at two of them; it
needs a chain from an accepted order to the planner's refusal to plan:

- `Traced`: an accepted order has a row in the store: its intent's, or its own in
  the journal; the exception is the one window, which `exposed` names;
- `Remembered`: what the intents table and the working orders know, the engine
  knows, as a lot or a terminal intent;
- `Barred`: once the journal was read, an accepted order's intent is guarded, or
  the goroutine is at a step that leads to it;
- `Fresh`: so nothing in a plan, and nothing about to be submitted, was accepted
  before.

`Numbered` and `Followed` are the book-keeping these rest on.

`ControlProofs`, for any sources, commands, requests at a time, lifetimes, clocks,
crashes and failures, from `ControlAssumption` alone:

- `Invariance`, `TypeCorrect`: `Spec => []IInv`, `Spec => []TypeOK`
- `AppliedOnce`: `Spec => []DeriskOnce`
- `PauseLasts`: `Spec => []PauseSticks`
- `NeverOlder`: `Spec => []NoStepBack`; `LastComesAgain`: `Spec => []RetainedTaken`

`DeriskOnce` needs to know why a nonce may be forgotten.  `NoncesKept` says it, a
command at a time: what took effect is in memory and on disk until the clock has
passed its expiry *and* every request that waits for it carries a clock that has
passed it, too; what is on disk took effect, or its handler is between the two
writes.  `SeqsKept` says that the engine is at the stored seq or ahead of it by
the one it is about to store, and after a restart one behind.  `PauseKept` says
that memory is what the commands made of it, and the row is, too, unless its last
write failed; the watcher writes the row with the same pause.

and about the books, from the same assumption:

- `BookInvariance`: `Spec => [](IInv /\ BInv)`
- `AlwaysBooked`: `Spec => []Booked`
- `NeverBoughtAgain`: `Spec => ClosedNeverBought`, an action property
- `PromiseKept`: `Spec => KeepsPromise`: Entry implements IntentLife

`Booked` compares a row with an order that went on filling while nobody looked.  `Sighted`
says that its shares are read only when it can fill no more, `Written` that they are in
the row before the order is let go of, and `Doubted` that every path around this is one
that `unsure` names.  For the refinement each action gets the abstract step it is:
`SubmitAccepted` is a Buy, the three ways a row is written are Book, and every other
action leaves `life` and `bought` alone.  The hard case is a row that disappears with
nothing in its place: `Journalled` says that it does only where `exposed` grows.

`ExitProofs`, for any finite number of lots of any sizes, any shares of the user's own,
and any number of orders, sessions, hand sales, crashes and failures, from
`ExitAssumption` alone (`Dust` may be anything, 0 included):

- `TypeCorrect`: `Spec => []TypeOK`, in which `Held >= 0` and `Free >= 0` are the hard part
- `GrowsNever`: `Spec => NeverGrows`, an action property
- `OfferedCorrect`: `Spec => []OfferedOnce`; `OwnSharesCorrect`: `Spec => []OwnSharesKept`
- `LedgerCorrect`: `Spec => []LedgerTrue`

The induction has three layers, each resting on the one before.

- `Basic` is true whatever failed: types; that a number in the store or in memory is one
  of an order made for that lot (`Referred`); what is in hand at each `pc` (`Handy`); that
  a lot not sold in this tick is what the plan's snapshot says (`Snapshot`), which is why
  `ArmStop`, `SetTimeExit` and `TpSave` write no old quantity and no old order number.  What a step may do to the broker's orders is one of six
  things (`BookStep`), and the account's sums follow from these, not from each of the 66 actions.
- `Sure` adds, for each lot outside `astray`, `LotOK`.  Its idea is the *pending* order: one
  that holds shares or has sold some, and is tracked, by the journal, as the lot's TP, or
  in hand between the broker's answer and the write.  There is one at most; a live order is
  tracked while the session lasts; the engine's TP is the store's while it matters
  (`TpKnown`); and what the *other* orders sold, with what the lot holds, is within what it
  had (`Balanced`).  So a fill of the pending order is always of shares still in `qty`, and
  settling it moves them out of `qty` once.
- `Kept` adds, for each lot outside `astray` and `twice`, `LedgerOK`: the rows are what the
  orders sold but for the pending one without a row (`Rowed`); the lot is what it had less
  the rows, but for a row just written, and for a TP's row at night, which is kept while its
  reduction is tried again (`Added`); an order with a row can fill no more (`Told`).

`LotOK` and `LedgerOK` are kept by most steps because the lot in hand is another one, or
because its orders only end: `FrameKeeps`, `EndKeeps`, `SettleKeeps`, `LedgerKeeps` and
`OneMoreKeeps` are these cases, and the steps that write are done by hand.

`PaperProofs`, for any finite number of lots, any sizes and any prices:

- `Invariance`, `TypeCorrect`: in particular the cash is never negative
- `AlwaysRestored`: `Spec => []Restored`; `AlwaysClosable`: `Spec => []Closable`;
  `AlwaysSoldOnce`: `Spec => []SoldOnce`

`Restored` speaks of the moments between two operations only.  The invariant says what
account and ledger differ by *inside* an operation: the shares and the money in hand,
the fills that are not booked, and the dust of closed lots (`Paid`, `Stocked`, `Ordered`,
`Dusty`).  `Closable` holds although the code overwrites `sellable`, because what one
operation forgets of other lots' locks can only make more shares free than there are, and
the orders that stand, those that outlived a settlement too, are of different open lots:
together they never have more shares than the account, so a lot without an order finds its
own (`Sellable`, `Covered`).  `SoldOnce` has its exception in the statement, `torn`.

`SuperviseProofs`, for any processes, data-dirs and ports, all limits and any number of
crashes, hangs, suspensions and reused pids:

- `Invariance`, `TypeCorrect`
- `TradesAlone`: `Spec => []OneTrader`
- `NoHungPasses`: `Spec => HungKilled`, for every limit
- `HealthySpared`: `Spec => HealthyKept`, *assuming* `1 < Grace` and `1 < Hang`
- `StartsFew`: `Spec => []StartsBounded`, for any window and any number of starts in it

While no lock was lost, a daemon from its start of trading to its end is the one the
account's lock file names (`AcctHeld`), and the one its data-dir's names (`DirHeld`);
so one daemon alone writes a heartbeat file, and the file tells what its owner did
(`BeatOwn`, `Healthy`).  The hypothesis of the last theorem is needed: with a limit of
one minute a heartbeat that is one minute old is too old although nothing is late.
The limits come from the command line, where the defaults are two and three minutes
(cmd/cockpitsup/main.go:44-45) and nothing forbids less.

`StartsBounded` counts *starts*, and the policy counts *exits* (policy.go), each in a
window that moves by itself.  `Paced` is what connects the two: a supervisor that may
start a daemon has for each ended start of the window an exit that is no older (`Ended`),
or it is at the end of a rest that outlasts every start of the window (`Outlasted`).  So
an exit has left the count only after its start has, and with fewer than `LoopMax` exits
there is room for one more start.

`PlanProofs`, for any number of sources and intents, any books, prices, weights, order caps
and publications, from `PlanAssumption` alone:

- `TypeCorrect`: `Spec => []TypeOK`; `ShareIsKept`: `Spec => []KeptShare`
- `NotEnteredTwice`: `Spec => []EnteredOnce`, and `AllObeyed`: `Spec => []Obeyed`, both
  *assuming* `OwnIntents`
- `MeansKept`: `Spec => WithinMeans`; `ReserveSpared`: `Spec => ReserveKept`

`OwnIntents` says that no intent is listed by two sources.  An `intent_id` is one entry,
and a second purchase takes a new one (protocol.md, section 4.1.2), but the code does not
compare the ids of different sources, and it is needed: an intent that another source
holds is not this one's lot, so both buy it (the hazard at engine.go:635).  The run's two
books list different intents.

A plan is a function over a sequence of sources, and for each of these one over the
sequence of its targets.  Two lemmas make them usable: the functions exist (`PassExists`), and
what the first value has and each step keeps, the last value has (`PassKeeps`).  Both take
a smallest index that refutes them, so no induction over an operator is needed, and both
speak of a *set* of values that a pass stays in.  Each fact about plans is such a set:

- `Sound`: what is sold is what `Reduce` says of a lot of that source; what is entered is
  listed, not barred, not over and not a lot of that source.
- `Selling`: the exit of a lot that a snapshot asks to reduce stays in the plan; the order
  cap cuts entries alone.
- `Tab`, `Paid` and `Room`: what the entries of a sequence cost, over any set of intents,
  each counted once, is within what was taken from the gate (`Within`, `Spends`).  It holds of a
  sequence if of its parts (`PaidJoin`), and of what the cap leaves of it (`PaidPrefix`),
  where the gate has been charged for more than is bought.

The invariants are of the lots. `PInv` has the types the sums need. `Once`: what was
bought is over or is held by the source that lists it, the only one that could enter it.
`Kept`: no snapshot that is in force asks for a share of the first quantity that it or
an earlier one left, and a restart forgets a snapshot but not the lot's entry. `Owed`: a
lot that is late has as many ticks left as `Todo` still needs. `Todo` counts a partial
exit, a stop, a time exit and an order, and the exit cancels the order; that a tick
lowers it is true although `armStop`, `setTimeExit` and `placeTP` write one old snapshot
one over the other, because the last of them that differs stays, and because the store
never has an older number than the engine (`NumbersOK`), so `Sync` undoes nothing.

`DriverProofs`, for any finite set of programs, tokens and scenarios:

- `Invariance`, `TypeCorrect`
- `SettledTruly`: `Spec => []SettledTrue`
- `PromiseKept`: `Spec => KeepsPromise`: Driver implements OrderCall

For each program the invariant says what its call may ask at this point (`Asks`), what it
knows (`Knows`), and what its order's number stands for (`Numbered`, `Unnumbered`,
`Told`).  A request that is made again is, for an order, one that was not processed;
that is the whole reason why two attempts are not two orders, and `Same` is its lemma.

In all of them there is one lemma a conjunct or one lemma a step, and in it one case an
action, split further where an action disturbs the conjunct.  The invariants of Entry and
Control are invariants of their runs, too; those of the others were checked by TLC on
the same instances before they were proved.

What the attempts found.  Each of these was a formula TLC had passed:

- `OneTrader` (Supervise) missed a way to lose a lock that needs more processes and
  restarts than the run has: the holder is dead when a starter reads its lock; before the
  starter removes it, by name, a new daemon gets the same pid and takes the same lock.
  That is a `race`, and counted as one now.
- `HungKilled` was stated of states and excused every daemon beside which another ran
  in the same data-dir.  It is about the step in which a check passes now, and needs
  only that the daemon has got as far as the account's lock.
- The `CASE`s of Driver (`Submitted`, `TrueAnswer`) and Plan had arms that overlap.  TLC
  takes the first, but the language leaves open which is meant; they are `IF`s now, in
  the order of the code.
- Driver's scenarios may not ask for no share at all (`want = 0`): the drivers return
  before that, and `DriverAssumption` says so.
- Exit's `OfferedOnce`, `OwnSharesKept` and `LedgerTrue` held on two small lots, and do not
  on one lot of three shares with shares of the user's beside it.  `FinishWorking` fails
  (orders.go: the row stays open), a TP is placed, and after a restart the exit is settled
  again: the lot is reduced twice and forgets a live TP.  So `astray` takes in a lot whose
  row could not be closed after a fill.  And a partly filled TP with its row, whose
  `ReduceIntent` failed at night, is forgotten when `attributeShrink` explains the gap as a
  sale by hand, which counts its shares twice; `Slips` names it whether the row is there or not.
- Paper's types were too weak to bound its sums, and sets of lots must be finite.
- Plan's `WithinMeans` counted for each source the purchases its targets *list*; what a
  book pays for is the lots that carry its kid and scope, also where two sources list one
  intent, and it says that now.  `PlanAssumption` left out that a source is in the order
  once and that its kid is not empty.  A lot without a kid is anybody's
  (engine.go:638), and a kid is the name of a key (`ErrUnknownKid`, verify.go:53-55).

Sums.  The provers cannot use the library's induction theorems, whose hypotheses are about
an operator.  Over *finite sets* there is a way around: if a formula about a set can be
written as a set of counter-examples, a smallest one of these (`Smallest` of `SumProofs`,
from well-foundedness of inclusion) with one element taken out is none, which is the
induction step.  `SumAdd`, `SumSame`, `SumPart`, `SumSplit` and `SumRenamed` are
proved like this, and `SumChange` and `SumZero` follow from them.

Only model-checked: everything under fairness, `Settled`, `LossTrips`, `LossReleases`,
`Restored` (of Supervise) and `Heals`, since liveness and `ENABLED` are beyond the proof
system.

## 7. What is not modelled

- Prices that move and costs: an order is shares (Paper has two prices, Plan one).
  That an account's money buys none (`ErrInsufficient`) is an answer of the broker
  in Entry, and what is left of the money in Driver and Paper.
- `RecordOrder`'s rows of the buy side: nothing reads them back there but the paper
  account's restart, where they are Paper's `net` and `top`.
- Signatures, JSON, schema and window checks of messages: one accepted message is
  like another.  A command's scope and slot are checked by the code and then not
  used (engine.go:297), so a liquidation sells every lot in Plan, too.
- Pacing of requests, paging, formats and rounding of the drivers, and `EndDay`.
- `guard.Evaluate`'s comparison of prices and instants: a lot may be sold by its
  stop or its time exit at any tick.
- In Paper, stops and time exits, whose writers are Exit's and Plan's: what the paper
  account has to do with a lot is its shares and its order.
- In Exit, the prices of TPs and the numbers of stops and time exits (Plan), and that the
  broker leaves out an order that has filled, on the day it was placed (Entry): there only
  one without a fill may be left out (`Unlisted`), and every one of an earlier day is.
- The calendar of trading days: any phase of the session may come next.
- On a signal the daemon does not wait for its run loop (main.go:440-454): Supervise
  ends it in one step, which the crashes of the other modules cover.
- The outbox, notifications, the broker-ledger report, the meter of the allocation,
  UI, configuration, ids and versions: they change no trading state.
