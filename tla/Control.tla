-------------------------------- MODULE Control --------------------------------
(***************************************************************************)
(* Who may stop the cockpit from buying, and how long that lasts: the      *)
(* admission of downlink messages (protocol.Admit, Engine.Apply), the      *)
(* local guards (pause, liquidate, block_entry, circuit breaker), their    *)
(* row on disk, and the watcher of the daily loss (watchLoss).             *)
(*                                                                         *)
(* Three kinds of goroutine meet at the engine's mutex: HTTP handlers,     *)
(* which read the clock BEFORE they get the mutex; the run loop, which     *)
(* plans under the mutex and buys after it let go; and the watcher, which  *)
(* reads the breaker and sets it in two turns.  A handler's writes to the  *)
(* store are steps, and the process may die between them.                  *)
(***************************************************************************)
EXTENDS Integers, Sequences, FiniteSets

CONSTANTS
  Sources,     \* publishers of targets: kid and scope
  NoSource,
  Life,        \* exp of a message, and until of a block, after its ts
  MaxSkew,     \* Policy.MaxSkew
  Actions,     \* what the operator may command
  DayLength,   \* instants of a trading day
  MaxNow,      \* bound: instants
  MaxSeq,      \* bound: targets of a source
  MaxCmds,     \* bound: de-risk commands
  MaxReqs,     \* bound: HTTP requests that wait for the mutex
  MaxCrashes,  \* bound: times the process is killed
  MaxErrs      \* bound: writes to the store that fail

ASSUME ControlAssumption ==
  /\ NoSource \notin Sources
  /\ Actions \subseteq {"liquidate", "pause", "block", "resume"}
  /\ Life \in Nat /\ MaxSkew \in Nat /\ DayLength \in Nat \ {0} /\ MaxNow \in Nat
  /\ MaxSeq \in Nat /\ MaxCmds \in Nat /\ MaxReqs \in Nat
  /\ MaxCrashes \in Nat /\ MaxErrs \in Nat

VARIABLES
  now,
  (* the publishers and the network *)
  sent,      \* per source the ts of its targets; the seq is the index
  cmds,      \* the commands issued: action and ts; the nonce is the index
  reqs,      \* requests waiting for the mutex: the message and the clock read for it
  (* the engine's memory *)
  lastSeq,   \* Guard.lastSeq
  nonces,    \* Guard.nonces
  target,    \* Engine.targets: seq, and whether entries are still allowed
  flags,     \* paused, liquidateAll, blockEntryUntil, circuitBreaker, guardReason
  (* the store *)
  seqs,      \* source_seq
  saved,     \* derisk_nonces
  guards,    \* the guards row
  (* where the goroutines stand *)
  applying,  \* the message whose handler holds the mutex, and its step
  entering,  \* the plan's entries not sent yet, and the instant it was made
  watch,     \* the watcher: its step, the day it took, what it decided
  loss,      \* today's realized loss is at the limit
  crashes, errs,
  (* history, read by no action *)
  applied,   \* how often a command took effect
  held,      \* a pause or liquidate took effect, and no resume since
  tripped,   \* the day of the loss the breaker was last set for
  excused    \* commands whose nonce was not written, was let go of too early,
             \* or that a crash cut in half; and whether a guard write failed

net      == <<sent, cmds>>
memory   == <<lastSeq, nonces, target, flags>>
disk     == <<seqs, saved, guards>>
bounds   == <<crashes, errs>>
history  == <<applied, held, tripped, excused>>
vars     == <<now, net, reqs, memory, disk, applying, entering, watch, loss, bounds, history>>

-----------------------------------------------------------------------------
NoDay == -1                       \* a reason that is not the watcher's
Today == now \div DayLength
Exp(ts) == ts + Life

Nonces == 1 .. Len(cmds)

\* What may still be delivered, once more or for the first time
Messages == {[src |-> s, n |-> n] : s \in Sources, n \in 1 .. MaxSeq}
            \cup {[src |-> NoSource, n |-> c] : c \in 1 .. MaxCmds}
Published(m) == m.n <= (IF m.src = NoSource THEN Len(cmds) ELSE Len(sent[m.src]))
TsOf(m) == IF m.src = NoSource THEN cmds[m.n].ts ELSE sent[m.src][m.n]

NoGuards == [paused |-> FALSE, liquidate |-> FALSE, until |-> 0, breaker |-> FALSE, reason |-> NoDay]
NoTarget == [seq |-> 0, entryOK |-> FALSE]
Free == [step |-> "free", m |-> [src |-> NoSource, n |-> 0]]
Asleep == [step |-> "idle", day |-> NoDay]

Fails == errs < MaxErrs /\ errs' = errs + 1 /\ UNCHANGED crashes
Works == UNCHANGED bounds
Unlocked == applying.step = "free"

\* entryBlocked of reconcile, and liquidateAll of planLocked: nothing is bought
Barred == flags.paused \/ flags.liquidate \/ flags.breaker \/ now < flags.until

Init ==
  /\ now = 0 /\ sent = [s \in Sources |-> <<>>] /\ cmds = <<>> /\ reqs = {}
  /\ lastSeq = [s \in Sources |-> 0] /\ nonces = {} /\ target = [s \in Sources |-> NoTarget]
  /\ flags = NoGuards
  /\ seqs = [s \in Sources |-> 0] /\ saved = {} /\ guards = NoGuards
  /\ applying = Free /\ entering = {} /\ watch = Asleep /\ loss = FALSE
  /\ crashes = 0 /\ errs = 0
  /\ applied = [c \in 1 .. MaxCmds |-> 0] /\ held = FALSE /\ tripped = NoDay
  /\ excused = [cmds |-> {}, guards |-> FALSE]

-----------------------------------------------------------------------------
(* The world: time, publishers, the operator, the market.                  *)

\* Losses are counted per trading day
Tick ==
  /\ now < MaxNow /\ now' = now + 1
  /\ loss' = (loss /\ (now + 1) \div DayLength = Today)
  /\ UNCHANGED <<net, reqs, memory, disk, applying, entering, watch, bounds, history>>

Publish(s) ==
  /\ Len(sent[s]) < MaxSeq /\ sent' = [sent EXCEPT ![s] = Append(@, now)]
  /\ UNCHANGED <<now, cmds, reqs, memory, disk, applying, entering, watch, loss, bounds, history>>

Command(a) ==
  /\ Len(cmds) < MaxCmds /\ cmds' = Append(cmds, [action |-> a, ts |-> now])
  /\ UNCHANGED <<now, sent, reqs, memory, disk, applying, entering, watch, loss, bounds, history>>

Trade ==
  /\ loss' = ~loss
  /\ UNCHANGED <<now, net, reqs, memory, disk, applying, entering, watch, bounds, history>>

\* Killed, and started again: New, then Restore with the seqs and nonces it
\* reads back.  A handler cut between nonce and guards leaves its command known
\* and without effect.
Restored(seq, kept) ==
  /\ crashes < MaxCrashes /\ crashes' = crashes + 1
  /\ lastSeq' = seq /\ nonces' = kept /\ saved' = kept
  /\ target' = [s \in Sources |-> NoTarget] /\ flags' = guards
  /\ reqs' = {} /\ applying' = Free /\ entering' = {} /\ watch' = Asleep
  /\ excused' = [guards |-> FALSE, cmds |->
       excused.cmds \cup {c \in saved : Exp(cmds[c].ts) = now}
         \cup (IF applying.step = "guards" THEN {applying.m.n} ELSE {})]
  /\ held' = (IF excused.guards THEN guards.paused ELSE held)
  /\ UNCHANGED <<now, net, seqs, guards, loss, errs, applied, tripped>>

OneBack == [s \in Sources |-> IF seqs[s] > 0 THEN seqs[s] - 1 ELSE 0]
Unexpired == {c \in saved : Exp(cmds[c].ts) > now}

\* Mutants: no seq read back, a later one, the last one itself; no nonce read back
MutRestartNoSeq == Restored([s \in Sources |-> 0], Unexpired)
MutRestartSkipsOne == Restored([s \in Sources |-> seqs[s] + 1], Unexpired)
MutRestartExact == Restored(seqs, Unexpired)
MutRestartNoNonces == Restored(OneBack, {})

\* The last seq is taken once more (retained messages come again); expired
\* nonces are let go
Restart == Restored(OneBack, Unexpired)

-----------------------------------------------------------------------------
(* A downlink message (handleDownlink, Apply).                             *)

\* The clock is read, then the mutex is waited for
Receive(m) ==
  /\ Published(m) /\ Cardinality(reqs) < MaxReqs
  /\ reqs' = reqs \cup {[m |-> m, at |-> now]}
  /\ UNCHANGED <<now, net, memory, disk, applying, entering, watch, loss, bounds, history>>

Skewed(r) == r.at - TsOf(r.m) > MaxSkew
Known(r) == IF r.m.src = NoSource THEN r.m.n \in nonces ELSE r.m.n <= lastSeq[r.m.src]
Expired(r) == r.at > Exp(TsOf(r.m))

\* forgetExpiredNonces, by the clock of this request
Kept(r) == {c \in nonces : r.at <= Exp(cmds[c].ts)}

Forget(r) ==
  LET gone == nonces \ Kept(r) IN
  excused' = [excused EXCEPT !.cmds =
    @ \cup {c \in gone : \E q \in reqs : q.m = [src |-> NoSource, n |-> c] /\ ~Expired(q)}]

\* Outside the skew, ignored, replayed or expired: answered, nothing changes
\* but the nonces that are forgotten on the way
Reject(r) ==
  /\ Unlocked /\ r \in reqs /\ reqs' = reqs \ {r}
  /\ \/ Skewed(r) /\ UNCHANGED <<nonces, excused>>
     \/ /\ ~Skewed(r) /\ r.m.src # NoSource /\ Known(r) /\ UNCHANGED <<nonces, excused>>
     \/ /\ ~Skewed(r) /\ r.m.src = NoSource /\ (r.m.n \in Kept(r) \/ Expired(r))
        /\ nonces' = Kept(r) /\ Forget(r)
  /\ UNCHANGED <<now, net, lastSeq, target, flags, disk, applying, entering, watch, loss, bounds,
                 applied, held, tripped>>

\* A target: the newest of its source; when it is expired only its entries die
TakeTarget(r) ==
  LET s == r.m.src IN
  /\ Unlocked /\ r \in reqs /\ s # NoSource /\ ~Skewed(r) /\ ~Known(r)
  /\ reqs' = reqs \ {r} /\ applying' = [step |-> "seq", m |-> r.m]
  /\ lastSeq' = [lastSeq EXCEPT ![s] = r.m.n]
  /\ target' = [target EXCEPT ![s] = [seq |-> r.m.n, entryOK |-> ~Expired(r)]]
  /\ UNCHANGED <<now, net, nonces, flags, disk, entering, watch, loss, bounds, history>>

\* SaveSeq; its error is dropped
SaveSeq ==
  LET s == applying.m.src  n == applying.m.n IN
  /\ applying.step = "seq" /\ applying' = Free
  /\ \/ Works /\ seqs' = [seqs EXCEPT ![s] = IF n > @ THEN n ELSE @]
     \/ Fails /\ UNCHANGED seqs
  /\ UNCHANGED <<now, net, reqs, memory, saved, guards, entering, watch, loss, history>>

\* A command that is new and in time
TakeCommand(r) ==
  /\ Unlocked /\ r \in reqs /\ r.m.src = NoSource /\ ~Skewed(r)
  /\ r.m.n \notin Kept(r) /\ ~Expired(r)
  /\ reqs' = reqs \ {r} /\ applying' = [step |-> "nonce", m |-> r.m]
  /\ nonces' = Kept(r) \cup {r.m.n} /\ Forget(r)
  /\ UNCHANGED <<now, net, lastSeq, target, flags, disk, entering, watch, loss, bounds,
                 applied, held, tripped>>

\* SaveNonce; its error is dropped
SaveNonce ==
  LET c == applying.m.n IN
  /\ applying.step = "nonce" /\ applying' = [applying EXCEPT !.step = "guards"]
  /\ \/ Works /\ saved' = saved \cup {c} /\ UNCHANGED excused
     \/ Fails /\ UNCHANGED saved /\ excused' = [excused EXCEPT !.cmds = @ \cup {c}]
  /\ UNCHANGED <<now, net, reqs, memory, seqs, guards, entering, watch, loss, applied, held, tripped>>

\* applyDerisk
Effect(f, c) ==
  LET a == cmds[c].action IN
  CASE a = "liquidate" -> [f EXCEPT !.liquidate = TRUE, !.paused = TRUE]
    [] a = "pause"     -> [f EXCEPT !.paused = TRUE]
    [] a = "block"     -> [f EXCEPT !.until = Exp(cmds[c].ts)]
    [] a = "resume"    -> [f EXCEPT !.paused = FALSE, !.until = 0, !.liquidate = FALSE]

\* persistGuardsLocked: the whole row, its error dropped
Persist(g) ==
  \/ Works /\ guards' = g /\ excused' = [excused EXCEPT !.guards = FALSE]
  \/ Fails /\ UNCHANGED guards /\ excused' = [excused EXCEPT !.guards = TRUE]

\* Mutant: the row is written before the flags change
MutApplyDeriskSavesFirst ==
  LET c == applying.m.n  a == cmds[c].action IN
  /\ applying.step = "guards" /\ applying' = Free
  /\ flags' = Effect(flags, c)
  /\ Persist([flags EXCEPT !.reason = NoDay])
  /\ applied' = [applied EXCEPT ![c] = @ + 1]
  /\ held' = IF a \in {"liquidate", "pause"} THEN TRUE ELSE IF a = "resume" THEN FALSE ELSE held
  /\ UNCHANGED <<now, net, reqs, lastSeq, nonces, target, seqs, saved, entering, watch, loss, tripped>>

\* The row gets the command's reason; guardReason in memory keeps the old one
ApplyDerisk ==
  LET c == applying.m.n  a == cmds[c].action IN
  /\ applying.step = "guards" /\ applying' = Free
  /\ flags' = Effect(flags, c)
  /\ Persist([Effect(flags, c) EXCEPT !.reason = NoDay])
  /\ applied' = [applied EXCEPT ![c] = @ + 1]
  /\ held' = IF a \in {"liquidate", "pause"} THEN TRUE ELSE IF a = "resume" THEN FALSE ELSE held
  /\ UNCHANGED <<now, net, reqs, lastSeq, nonces, target, seqs, saved, entering, watch, loss, tripped>>

-----------------------------------------------------------------------------
(* The run loop plans under the mutex, and buys without it.                *)

Plan ==
  /\ Unlocked /\ entering = {} /\ ~Barred
  /\ entering' = {s \in Sources : target[s].seq > 0 /\ target[s].entryOK}
  /\ entering' # {}
  /\ UNCHANGED <<now, net, reqs, memory, disk, applying, watch, loss, bounds, history>>

Enter(s) ==
  /\ s \in entering /\ entering' = entering \ {s}
  /\ UNCHANGED <<now, net, reqs, memory, disk, applying, watch, loss, bounds, history>>

-----------------------------------------------------------------------------
(* watchLoss: check() every 30 seconds.                                    *)

\* Mutant: the dates are compared the wrong way round
MutExpires == flags.breaker /\ flags.reason # NoDay /\ flags.reason = Today

\* decideLoss: the breaker is on for a day that is over
Expires == flags.breaker /\ flags.reason # NoDay /\ flags.reason # Today

\* Mutant: the limit is compared without its sign
MutCheckSign ==
  /\ watch.step = "idle" /\ Unlocked
  /\ watch' = [day |-> Today, step |->
       IF Expires THEN "reset" ELSE IF ~flags.breaker /\ ~loss THEN "trip" ELSE "idle"]
  /\ UNCHANGED <<now, net, reqs, memory, disk, applying, entering, loss, bounds, history>>

\* The day is taken and its loss read, then CircuitBreaker() asked (only the
\* watcher changes the breaker, so these are one step), then decideLoss
Check ==
  /\ watch.step = "idle" /\ Unlocked
  /\ watch' = [day |-> Today, step |->
       IF Expires THEN "reset" ELSE IF ~flags.breaker /\ loss THEN "trip" ELSE "idle"]
  /\ UNCHANGED <<now, net, reqs, memory, disk, applying, entering, loss, bounds, history>>

\* SetCircuitBreaker
SetBreaker(step, on, why) ==
  /\ watch.step = step /\ Unlocked /\ watch' = [watch EXCEPT !.step = "idle"]
  /\ flags' = [flags EXCEPT !.breaker = on, !.reason = why]
  /\ Persist([flags EXCEPT !.breaker = on, !.reason = why])
  /\ tripped' = (IF on THEN why ELSE tripped)
  /\ UNCHANGED <<now, net, reqs, lastSeq, nonces, target, seqs, saved, applying, entering, loss,
                 applied, held>>

Trip == SetBreaker("trip", TRUE, watch.day)
Reset == SetBreaker("reset", FALSE, NoDay)

-----------------------------------------------------------------------------
Handling == \/ SaveSeq \/ SaveNonce \/ ApplyDerisk
            \/ \E r \in reqs : Reject(r) \/ TakeTarget(r) \/ TakeCommand(r)

Watching == Check \/ Trip \/ Reset

Next ==
  \/ Tick \/ Trade \/ Restart
  \/ \E s \in Sources : Publish(s) \/ Enter(s)
  \/ \E a \in Actions : Command(a)
  \/ \E m \in Messages : Receive(m)
  \/ Handling \/ Plan \/ Watching

Spec == Init /\ [][Next]_vars

\* A handler that holds the mutex goes on, and so does the watcher
FairSpec == Spec /\ WF_vars(Handling) /\ WF_vars(Watching)

-----------------------------------------------------------------------------
(* Properties.                                                             *)

GuardsType == [paused : BOOLEAN, liquidate : BOOLEAN, until : Nat, breaker : BOOLEAN, reason : Int]

Commands == [action : Actions, ts : 0 .. MaxNow]

TypeNet ==
  /\ now \in 0 .. MaxNow
  /\ sent \in [Sources -> Seq(0 .. MaxNow)]
  /\ cmds \in Seq(Commands) /\ Len(cmds) <= MaxCmds
  /\ reqs \subseteq [m : Messages, at : 0 .. now] /\ \A r \in reqs : Published(r.m)

TypeMemory ==
  /\ lastSeq \in [Sources -> Nat] /\ seqs \in [Sources -> Nat]
  /\ target \in [Sources -> [seq : Nat, entryOK : BOOLEAN]]
  /\ \A s \in Sources : lastSeq[s] <= Len(sent[s])
  /\ nonces \subseteq Nonces /\ saved \subseteq Nonces
  /\ flags \in GuardsType /\ guards \in GuardsType

TypeHands ==
  /\ \/ applying = Free
     \/ /\ applying.step = "seq" /\ applying.m \in Messages /\ applying.m.src # NoSource
        /\ Published(applying.m)
     \/ /\ applying.step \in {"nonce", "guards"} /\ applying.m.src = NoSource
        /\ applying.m.n \in Nonces
  /\ applying \in [step : {"free", "seq", "nonce", "guards"},
                   m : [src : Sources \cup {NoSource}, n : Nat]]
  /\ entering \subseteq Sources
  /\ watch \in [step : {"idle", "trip", "reset"}, day : Int]

TypeHistory ==
  /\ crashes \in 0 .. MaxCrashes /\ errs \in 0 .. MaxErrs
  /\ applied \in [1 .. MaxCmds -> Nat] /\ held \in BOOLEAN
  /\ excused \in [cmds : SUBSET (1 .. MaxCmds), guards : BOOLEAN]

\* Types; nothing is known of a message that was not sent.
TypeOK == TypeNet /\ TypeMemory /\ TypeHands /\ TypeHistory

\* A command takes effect once however often it is delivered, restarts included,
\* and when its nonce is remembered it did take effect (Admit, Guard.Restore).
DeriskOnce ==
  \A c \in Nonces \ excused.cmds :
    /\ applied[c] <= 1
    /\ c \in nonces /\ applying.m # [src |-> NoSource, n |-> c] => applied[c] = 1

\* Once a pause or a liquidate took effect the cockpit stays paused until a
\* resume, whatever the watcher writes to the same row, and after any restart.
PauseSticks == ~excused.guards => (flags.paused <=> held) /\ (held => guards.paused)

\* The engine never works by a target older than the one the store knows of:
\* messages late, repeated or replayed after a restart included (seq of a source).
NoStepBack == \A s \in Sources : target[s].seq > 0 => target[s].seq >= seqs[s]

\* A source whose targets a restart lost can send its last one again: publishers
\* repeat it with the same seq, and may have no newer one (Guard.Restore).
RetainedTaken == \A s \in Sources : target[s].seq = 0 /\ seqs[s] > 0 => lastSeq[s] < seqs[s]

\* A daily loss at the limit trips the breaker, unless the day ends or the loss
\* is made good first.
LossTrips == \A d \in 0 .. MaxNow :
  (loss /\ Today = d) ~> (flags.breaker \/ ~loss \/ Today # d)

\* A breaker tripped on an earlier day comes off, as long as the engine still
\* knows why it was tripped.
LossReleases == \A d \in 0 .. MaxNow :
  (flags.breaker /\ flags.reason = d /\ Today > d) ~> ~(flags.breaker /\ flags.reason = d)

\* decideLoss: on the next trading day it comes off by itself, restarts included:
\* once the watcher has checked today, no breaker of an earlier day is on.
BreakerReleased ==
  watch.step = "idle" /\ watch.day = Today => ~(flags.breaker /\ tripped < Today)

-----------------------------------------------------------------------------
(* Why they hold: an invariant that every step keeps.                      *)

\* The engine works by the last seq it took, one it still has to save at most;
\* after a restart it is one behind the store, until a target comes
SeqsKept ==
  /\ \A s \in Sources :
       IF target[s].seq > 0 THEN target[s].seq = lastSeq[s] /\ seqs[s] <= lastSeq[s]
                            ELSE lastSeq[s] < seqs[s] \/ (lastSeq[s] = 0 /\ seqs[s] = 0)
  /\ \A s \in Sources : target[s].seq = 0 => seqs[s] <= lastSeq[s] + 1
  /\ applying.step = "seq" => target[applying.m.src].seq = applying.m.n

\* The flag in memory is what commands made of it, and so is the row, unless
\* its last write failed
PauseKept ==
  /\ flags.paused <=> held
  /\ ~excused.guards => (guards.paused <=> held)

\* The command c as a message, and whether its handler is between two writes
Cmd(c) == [src |-> NoSource, n |-> c]
InHand(c) == applying.m = Cmd(c)

\* A command that took effect is remembered, in memory and on disk, until
\* nobody can deliver it in time any more
Remembers(c) ==
  /\ applied[c] \in {0, 1}
  /\ c \in nonces => applied[c] = 1 \/ InHand(c)
  /\ c \in saved => applied[c] = 1 \/ (InHand(c) /\ applying.step = "guards")
  /\ InHand(c) => c \in nonces /\ applied[c] = 0 /\ (applying.step = "guards" => c \in saved)
  /\ c \in nonces /\ ~InHand(c) => c \in saved
  /\ applied[c] = 1 /\ c \notin nonces =>
       now > Exp(cmds[c].ts) /\ \A q \in reqs : q.m = Cmd(c) => Expired(q)

NoncesKept ==
  /\ \A c \in 1 .. MaxCmds : c > Len(cmds) => applied[c] = 0
  /\ \A c \in Nonces \ excused.cmds : Remembers(c)

IInv == TypeOK /\ SeqsKept /\ PauseKept /\ NoncesKept

=============================================================================
