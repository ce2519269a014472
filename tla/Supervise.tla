------------------------------ MODULE Supervise ------------------------------
(***************************************************************************)
(* Who may run: the process locks (internal/proc), the supervisor          *)
(* (cmd/cockpitsup) and the start of the daemon (cmd/cockpitd).            *)
(*                                                                         *)
(* A lock is a file created exclusively; it names its holder's pid and     *)
(* heartbeat file, and it is taken over when the holder is dead or its     *)
(* heartbeat old.  Creating, writing, reading and removing the file are    *)
(* separate steps, so starters interleave between them.  A supervisor      *)
(* holds the "sup" lock of its data-dir, starts one daemon at a time,      *)
(* kills it when its loop stops, and rests when it keeps dying.  A daemon  *)
(* holds the "dir" lock of the data-dir and the "acct" lock of the broker  *)
(* key before it may trade.                                                *)
(*                                                                         *)
(* Time is counted in minutes and only as ages, which stop at Old.         *)
(***************************************************************************)
EXTENDS Naturals, Sequences, FiniteSets, FiniteSetsExt

CONSTANTS
  Sups,        \* supervisors: pids
  Daemons,     \* pids a daemon may get; used again after its end
  NoChild,
  Dirs, Ports, \* data-dirs and ports of the local API
  Scenarios,   \* what a run starts from: the supervisors the system starts, the
               \* command line of each, and how many crashes, hangs... may happen
  Stale,       \* staleAfter
  Grace, Hang, \* of the supervisor's command line
  LoopWindow, LoopMax, HaltFor

ASSUME SuperviseAssumption ==
  /\ NoChild \notin Daemons /\ Sups \cap Daemons = {} /\ Sups # {}
  /\ Scenarios \subseteq [sups : SUBSET Sups, args : [Sups -> [dir : Dirs, port : Ports]], faults : Nat]
  /\ {Stale, Grace, Hang, LoopWindow, LoopMax, HaltFor} \subseteq Nat \ {0}
  /\ LoopMax > 1 /\ HaltFor > LoopWindow

Procs == Sups \cup Daemons
Old   == Max({Stale, Grace, Hang}) + 1   \* an age of this or more, or no file
Ages  == 0 .. Old
Older(a) == IF a < Old THEN a + 1 ELSE Old

VARIABLES
  (* files *)
  lock,     \* lock files: Free, or whose, its heartbeat's data-dir, and
            \* whether the content is written
  supBeat,  \* supervisor.heartbeat.json of each data-dir: age of ts
  dirBeat,  \* heartbeat.json of each data-dir: ages of ts and of last_tick
  (* processes *)
  enrolled, \* supervisors that are started at logon and after a failure
  args,     \* the command line of each process
  pc,
  want,     \* the lock a process acquires or releases
  try,      \* the attempt of Acquire
  seen,     \* the lock file it read, and whether its heartbeat was old then
  aliens,   \* pids without a process of ours which other programs now have
  (* a daemon *)
  up,       \* age of its start
  ticked,   \* liveness.lastTick: age, Old when it is zero
  stuck,    \* its loop does not return
  frozen,   \* processes that are suspended
  (* a supervisor *)
  child,
  exits,    \* policy.restarts: ages
  rest,     \* minutes it still waits: policy.halt, or the wait before a restart
  (* the clock *)
  owed,     \* periodic work due in this minute
  faults,   \* how many may still happen
  (* history, read by no action *)
  starts,   \* ages of the starts of each supervisor's daemons
  dozed,    \* daemons suspended since their start
  broken    \* how the lock of a live process was lost: "torn", "race", "stale"

files  == <<lock, supBeat, dirBeat>>
steps  == <<args, pc, want, try, seen, aliens>>
daemon == <<up, ticked, stuck>>
lazy   == <<frozen, dozed>>
sup    == <<child, exits, rest, starts>>
vars   == <<enrolled, files, steps, daemon, frozen, dozed, sup, owed, faults, broken>>

Free == [by |-> NoChild, beat |-> NoChild, full |-> FALSE]
LockStates == [by : Procs \cup {NoChild}, beat : Dirs \cup {NoChild}, full : BOOLEAN]
Unseen == [lock |-> Free, old |-> FALSE]
Kinds == {"sup", "dir", "acct"}
\* One broker key: the account's lock is the same file for every data-dir
File(p, k) == IF k = "acct" THEN <<"acct">> ELSE <<k, args[p].dir>>
Files == {<<"acct">>} \cup ({"sup", "dir"} \X Dirs)

-----------------------------------------------------------------------------
(* What a process reads of another one.                                    *)

\* Alive: some program has the pid
Alive(p) == pc[p] # "off" \/ p \in aliens

\* BeatFresh of the heartbeat file the lock names
Fresh(l) == (IF l.by \in Sups THEN supBeat[l.beat] ELSE dirBeat[l.beat].ts) < Stale

\* Mutant: only the heartbeat is looked at
MutGuardedBeatOnly(p, l) == l.full /\ l.by # p /\ Fresh(l)

\* Acquire: a lock with a living owner
Guarded(p, l) == l.full /\ l.by # p /\ Alive(l.by) /\ Fresh(l)

\* Mutant: the age of the heartbeat for that of last_tick
MutHungBeat(d) ==
  LET b == dirBeat[args[d].dir] IN up[d] >= Grace /\ (b.ts > up[d] \/ b.ts > Hang \/ b.ts = Old)

\* Mutant: no grace after a start
MutHungNoGrace(d) ==
  LET b == dirBeat[args[d].dir] IN
  b.ts > up[d] \/ b.tick > up[d] \/ b.ts = Old \/ b.tick = Old \/ b.tick > Hang

\* hung, of the daemon d; a saturated ts leaves last_tick, no younger, to decide
Hung(d) ==
  LET b == dirBeat[args[d].dir] IN
  /\ up[d] >= Grace
  /\ \/ b.ts > up[d] \/ b.ts = Old
     \/ b.tick > up[d] \/ b.tick = Old
     \/ b.tick > Hang

Watching == {s \in Sups : pc[s] = "watch"}
Running  == {d \in Daemons : pc[d] = "run"}
\* Work that each live process owes every minute
Periodic == ({"watch"} \X Watching) \cup ({"loop", "beat"} \X Running)

FreePids == {d \in Daemons \ aliens : pc[d] = "off" /\ \A s \in Sups : child[s] # d}

Can(p, at) == pc[p] = at /\ p \notin frozen
Fault == faults > 0 /\ faults' = faults - 1

-----------------------------------------------------------------------------
(* Acquire and release, at the grain of file operations.                   *)

\* Where a process goes on after the lock it wanted, and after not getting it
Got(p) == CASE want[p] = "sup" -> "idle" [] want[p] = "dir" -> "beat" [] want[p] = "acct" -> "boot"
Failed(p) == IF want[p] = "acct" THEN "rel" ELSE "off"

\* Processes that end leave nothing but their files
Gone(P) ==
  /\ want' = [p \in Procs |-> IF p \in P THEN "dir" ELSE want[p]]
  /\ try' = [p \in Procs |-> IF p \in P THEN 1 ELSE try[p]]
  /\ seen' = [p \in Procs |-> IF p \in P THEN Unseen ELSE seen[p]]

\* Acquire fails, or a lock is released: run returns, the account's lock first
GiveUp(p) ==
  /\ pc' = [pc EXCEPT ![p] = Failed(p)]
  /\ want' = [want EXCEPT ![p] = "dir"]
  /\ try' = [try EXCEPT ![p] = 1]

\* Mutant: without O_EXCL
MutOpenShared(p) ==
  /\ Can(p, "open")
  /\ lock' = [lock EXCEPT ![File(p, want[p])] = [by |-> p, beat |-> args[p].dir, full |-> FALSE]]
  /\ pc' = [pc EXCEPT ![p] = "write"]
  /\ UNCHANGED <<enrolled, supBeat, dirBeat, args, want, try, seen, aliens, daemon, lazy, sup, owed, faults, broken>>

\* os.OpenFile with O_CREATE|O_EXCL
Open(p) ==
  LET f == File(p, want[p]) IN
  /\ Can(p, "open")
  /\ IF lock[f] = Free
     THEN /\ lock' = [lock EXCEPT ![f] = [by |-> p, beat |-> args[p].dir, full |-> FALSE]]
          /\ pc' = [pc EXCEPT ![p] = "write"]
     ELSE /\ pc' = [pc EXCEPT ![p] = "read"]
          /\ UNCHANGED lock
  /\ UNCHANGED <<enrolled, supBeat, dirBeat, args, want, try, seen, aliens, daemon, lazy, sup, owed, faults, broken>>

\* The content is written to the file that was created, even if the name is gone
Write(p) ==
  LET f == File(p, want[p]) IN
  /\ Can(p, "write")
  /\ lock' = [lock EXCEPT ![f].full = IF lock[f].by = p THEN TRUE ELSE @]
  /\ pc' = [pc EXCEPT ![p] = Got(p)]
  /\ try' = [try EXCEPT ![p] = 1]
  /\ UNCHANGED <<enrolled, supBeat, dirBeat, args, want, seen, aliens, daemon, lazy, sup, owed, faults, broken>>

Read(p) ==
  LET l == lock[File(p, want[p])] IN
  /\ Can(p, "read")
  /\ IF Guarded(p, l)
     THEN GiveUp(p) /\ UNCHANGED seen
     ELSE /\ seen' = [seen EXCEPT ![p] = [lock |-> l, old |-> l # Free /\ ~Fresh(l)]]
          /\ pc' = [pc EXCEPT ![p] = "remove"]
          /\ UNCHANGED <<want, try>>
  /\ UNCHANGED <<enrolled, files, args, aliens, daemon, lazy, sup, owed, faults, broken>>

\* What went wrong when p removes the lock l of another process that lives.  The
\* last case: its owner was dead when p read it, and a new process has the pid.
Loss(p, l) ==
  IF l = Free \/ l.by = p \/ pc[l.by] = "off" THEN {}
  ELSE IF seen[p].lock.by # l.by THEN {"race"}
  ELSE IF ~seen[p].lock.full THEN {"torn"}
  ELSE IF seen[p].old THEN {"stale"} ELSE {"race"}

\* os.Remove of whatever has the name now, and the next attempt
Remove(p) ==
  LET f == File(p, want[p]) IN
  /\ Can(p, "remove")
  /\ broken' = broken \cup Loss(p, lock[f])
  /\ lock' = [lock EXCEPT ![f] = Free]
  /\ seen' = [seen EXCEPT ![p] = Unseen]
  /\ IF try[p] = 1
     THEN /\ try' = [try EXCEPT ![p] = 2]
          /\ pc' = [pc EXCEPT ![p] = "open"]
          /\ UNCHANGED want
     ELSE GiveUp(p)
  /\ UNCHANGED <<enrolled, supBeat, dirBeat, args, aliens, daemon, lazy, sup, owed, faults>>

\* release: only what is mine, but by name and in two operations
RelRead(p) ==
  LET l == lock[File(p, want[p])] IN
  /\ Can(p, "rel")
  /\ IF l.full /\ l.by = p
     THEN pc' = [pc EXCEPT ![p] = "relrm"] /\ UNCHANGED <<want, try>>
     ELSE GiveUp(p)
  /\ UNCHANGED <<enrolled, files, args, seen, aliens, daemon, lazy, sup, owed, faults, broken>>

RelRemove(p) ==
  LET f == File(p, want[p]) IN
  /\ Can(p, "relrm")
  /\ broken' = broken \cup (IF lock[f].by \in {p, NoChild} THEN {} ELSE {"race"})
  /\ lock' = [lock EXCEPT ![f] = Free]
  /\ GiveUp(p)
  /\ UNCHANGED <<enrolled, supBeat, dirBeat, args, seen, aliens, daemon, lazy, sup, owed, faults>>

-----------------------------------------------------------------------------
(* The daemon.                                                             *)

\* run: the heartbeat is written after the data-dir's lock, before the account's
FirstBeat(d) ==
  /\ Can(d, "beat")
  /\ dirBeat' = [dirBeat EXCEPT ![args[d].dir] = [ts |-> 0, tick |-> Old]]
  /\ pc' = [pc EXCEPT ![d] = "open"]
  /\ want' = [want EXCEPT ![d] = "acct"]
  /\ try' = [try EXCEPT ![d] = 1]
  /\ UNCHANGED <<enrolled, lock, supBeat, args, seen, aliens, daemon, lazy, sup, owed, faults, broken>>

\* The rest of run: store, restore, local API; its port is a lock of its own
Boot(d) ==
  /\ Can(d, "boot")
  /\ IF \E o \in Running : args[o].port = args[d].port
     THEN /\ pc' = [pc EXCEPT ![d] = "rel"]
          /\ UNCHANGED owed
     ELSE /\ pc' = [pc EXCEPT ![d] = "run"]
          /\ owed' = owed \cup {<<"loop", d>>, <<"beat", d>>}
  /\ UNCHANGED <<enrolled, files, args, want, try, seen, aliens, daemon, lazy, sup, faults, broken>>

\* runLoop and liveness.mark
LoopTick(d) ==
  /\ Can(d, "run") /\ <<"loop", d>> \in owed
  /\ ticked' = [ticked EXCEPT ![d] = IF stuck[d] THEN @ ELSE 0]
  /\ owed' = owed \ {<<"loop", d>>}
  /\ UNCHANGED <<enrolled, files, steps, up, stuck, lazy, sup, faults, broken>>

\* beatLoop, a goroutine of its own
Beat(d) ==
  /\ Can(d, "run") /\ <<"beat", d>> \in owed
  /\ dirBeat' = [dirBeat EXCEPT ![args[d].dir] = [ts |-> 0, tick |-> ticked[d]]]
  /\ owed' = owed \ {<<"beat", d>>}
  /\ UNCHANGED <<enrolled, lock, supBeat, steps, daemon, lazy, sup, faults, broken>>

\* A signal: run does not wait for the loop; the locks are released, the account's first
Exit(d) ==
  /\ Can(d, "run")
  /\ Fault
  /\ pc' = [pc EXCEPT ![d] = "rel"]
  /\ want' = [want EXCEPT ![d] = "acct"]
  /\ owed' = owed \ {<<"loop", d>>, <<"beat", d>>}
  /\ UNCHANGED <<enrolled, files, args, try, seen, aliens, daemon, lazy, sup, broken>>

-----------------------------------------------------------------------------
(* The supervisor.                                                         *)

\* main: its heartbeat is written before the lock is acquired
StartSup(s) ==
  /\ pc[s] = "off" /\ s \in enrolled
  /\ supBeat' = [supBeat EXCEPT ![args[s].dir] = 0]
  /\ pc' = [pc EXCEPT ![s] = "open"]
  /\ want' = [want EXCEPT ![s] = "sup"]
  /\ try' = [try EXCEPT ![s] = 1]
  /\ exits' = [exits EXCEPT ![s] = <<>>]
  /\ rest' = [rest EXCEPT ![s] = 0]
  /\ starts' = [starts EXCEPT ![s] = <<>>]
  /\ UNCHANGED <<enrolled, lock, dirBeat, args, seen, aliens, daemon, lazy, child, owed, faults, broken>>

\* cmd.Start of cockpitd; the new process begins with the data-dir's lock
Spawn(s) ==
  /\ Can(s, "idle") /\ rest[s] = 0
  /\ \E d \in FreePids :
       /\ child' = [child EXCEPT ![s] = d]
       /\ args' = [args EXCEPT ![d] = args[s]]
       /\ pc' = [pc EXCEPT ![d] = "open", ![s] = "watch"]
       /\ want' = [want EXCEPT ![d] = "dir"]
       /\ try' = [try EXCEPT ![d] = 1]
       /\ up' = [up EXCEPT ![d] = 0]
       /\ ticked' = [ticked EXCEPT ![d] = Old]
       /\ stuck' = [stuck EXCEPT ![d] = FALSE]
       /\ dozed' = dozed \ {d}
  /\ starts' = [starts EXCEPT ![s] = Append(@, 0)]
  /\ UNCHANGED <<enrolled, files, seen, aliens, frozen, exits, rest, owed, faults, broken>>

\* Mutant: > for >=
MutOnExitLate(s) ==
  LET recent == Append(exits[s], 0)
      halt   == Len(recent) > LoopMax IN
  /\ exits' = [exits EXCEPT ![s] = IF halt THEN <<>> ELSE recent]
  /\ rest' = [rest EXCEPT ![s] = IF halt THEN HaltFor ELSE 0]
  /\ child' = [child EXCEPT ![s] = NoChild]
  /\ UNCHANGED starts

\* onExit: halt when the window holds loopMax ends, else wait a little
OnExit(s) ==
  LET recent == Append(exits[s], 0)
      halt   == Len(recent) >= LoopMax IN
  /\ exits' = [exits EXCEPT ![s] = IF halt THEN <<>> ELSE recent]
  /\ rest' = [rest EXCEPT ![s] =
       IF halt THEN HaltFor ELSE IF up[child[s]] = 0 /\ Len(recent) > 2 THEN 1 ELSE 0]
  /\ child' = [child EXCEPT ![s] = NoChild]
  /\ UNCHANGED starts

\* Mutant: the supervisor watches on after its child's end
MutChildExitWatches(s) ==
  /\ Can(s, "watch") /\ pc[child[s]] = "off"
  /\ OnExit(s)
  /\ UNCHANGED <<enrolled, files, steps, daemon, lazy, owed, faults, broken>>

\* watch: cmd.Wait returned
ChildExit(s) ==
  /\ Can(s, "watch") /\ pc[child[s]] = "off"
  /\ OnExit(s)
  /\ pc' = [pc EXCEPT ![s] = "idle"]
  /\ owed' = owed \ {<<"watch", s>>}
  /\ UNCHANGED <<enrolled, files, args, want, try, seen, aliens, daemon, lazy, faults, broken>>

\* watch: the ticker; a child that hangs is killed, whatever it is doing
WatchTick(s) ==
  /\ Can(s, "watch") /\ <<"watch", s>> \in owed
  /\ supBeat' = [supBeat EXCEPT ![args[s].dir] = 0]
  /\ IF Hung(child[s])
     THEN /\ OnExit(s)
          /\ pc' = [pc EXCEPT ![s] = "idle", ![child[s]] = "off"]
          /\ Gone({child[s]})
          /\ frozen' = frozen \ {child[s]}
          /\ owed' = owed \ {<<"watch", s>>, <<"loop", child[s]>>, <<"beat", child[s]>>}
     ELSE /\ owed' = owed \ {<<"watch", s>>}
          /\ UNCHANGED <<sup, pc, want, try, seen, frozen>>
  /\ UNCHANGED <<enrolled, lock, dirBeat, args, aliens, daemon, dozed, faults, broken>>

\* A signal to the supervisor: the child is killed, the lock released
StopSup(s) ==
  LET gone == {child[s]} \ {NoChild} IN
  /\ pc[s] \in {"idle", "watch"} /\ s \notin frozen
  /\ Fault
  /\ pc' = [p \in Procs |-> IF p = s THEN "rel" ELSE IF p \in gone THEN "off" ELSE pc[p]]
  /\ Gone(gone)
  /\ child' = [child EXCEPT ![s] = NoChild]
  /\ frozen' = frozen \ gone
  /\ owed' = {o \in owed : o[2] \notin gone \cup {s}}
  /\ UNCHANGED <<enrolled, files, args, aliens, daemon, dozed, exits, rest, starts, broken>>

-----------------------------------------------------------------------------
(* The operating system.                                                   *)

\* A process is killed or dies: its files stay; a supervisor's child lives on
Crash(p) ==
  /\ Fault
  /\ pc[p] # "off"
  /\ pc' = [pc EXCEPT ![p] = "off"]
  /\ Gone({p})
  /\ child' = IF p \in Sups THEN [child EXCEPT ![p] = NoChild] ELSE child
  /\ frozen' = frozen \ {p}
  /\ owed' = {o \in owed : o[2] # p}
  /\ UNCHANGED <<enrolled, files, args, aliens, daemon, dozed, exits, rest, starts, broken>>

\* The executor's loop stops in a call that does not return
Stick(d) ==
  /\ Fault
  /\ pc[d] = "run" /\ ~stuck[d]
  /\ stuck' = [stuck EXCEPT ![d] = TRUE]
  /\ UNCHANGED <<enrolled, files, steps, up, ticked, lazy, sup, owed, broken>>

\* A process is suspended, and goes on where it stood
Freeze(p) ==
  /\ Fault
  /\ pc[p] # "off" /\ p \notin frozen
  /\ frozen' = frozen \cup {p}
  /\ dozed' = dozed \cup ({p} \cap Daemons)
  /\ owed' = {o \in owed : o[2] # p}
  /\ UNCHANGED <<enrolled, files, steps, daemon, sup, broken>>

Thaw(p) ==
  /\ p \in frozen
  /\ frozen' = frozen \ {p}
  /\ owed' = owed \cup {o \in Periodic : o[2] = p}
  /\ UNCHANGED <<enrolled, files, steps, daemon, dozed, sup, faults, broken>>

\* Another program gets the pid of a dead daemon, and ends
Reuse(d) ==
  /\ Fault
  /\ d \in FreePids /\ FreePids # {d}
  /\ aliens' = aliens \cup {d}
  /\ UNCHANGED <<enrolled, files, args, pc, want, try, seen, daemon, lazy, sup, owed, broken>>

AlienEnds(d) ==
  /\ d \in aliens
  /\ aliens' = aliens \ {d}
  /\ UNCHANGED <<enrolled, files, args, pc, want, try, seen, daemon, lazy, sup, owed, faults, broken>>

\* The times of a list, oldest first, a minute later: those that leave the window are its first
Recent(ages) ==
  LET old == Max({0} \cup {i \in DOMAIN ages : ages[i] >= LoopWindow})
  IN  [i \in 1 .. Len(ages) - old |-> ages[old + i] + 1]

\* A minute passes once every process that is not suspended has done what it
\* had to do: file operations and the start of a daemon take less
Tick ==
  /\ owed = {}
  /\ \A p \in Procs \ frozen : pc[p] \in {"off", "run", "idle", "watch"}
  /\ \A s \in Sups \ frozen : /\ pc[s] = "idle" => rest[s] > 0 \/ FreePids = {}
                              /\ pc[s] = "watch" => pc[child[s]] # "off"
  /\ supBeat' = [x \in Dirs |-> Older(supBeat[x])]
  /\ dirBeat' = [x \in Dirs |-> [ts |-> Older(dirBeat[x].ts), tick |-> Older(dirBeat[x].tick)]]
  /\ up' = [d \in Daemons |-> IF pc[d] = "off" THEN Old ELSE Older(up[d])]
  /\ ticked' = [d \in Daemons |-> IF pc[d] = "off" THEN Old ELSE Older(ticked[d])]
  /\ exits' = [s \in Sups |-> Recent(exits[s])]
  /\ starts' = [s \in Sups |-> Recent(starts[s])]
  /\ rest' = [s \in Sups |-> IF rest[s] > 0 THEN rest[s] - 1 ELSE 0]
  /\ owed' = {o \in Periodic : o[2] \notin frozen}
  /\ stuck' = [d \in Daemons |-> stuck[d] /\ pc[d] # "off"]
  /\ UNCHANGED <<enrolled, lock, steps, lazy, child, faults, broken>>

-----------------------------------------------------------------------------
Init ==
  /\ lock = [f \in Files |-> Free]
  /\ supBeat = [x \in Dirs |-> Old]
  /\ dirBeat = [x \in Dirs |-> [ts |-> Old, tick |-> Old]]
  /\ \E sc \in Scenarios :
       /\ args = [p \in Procs |-> sc.args[IF p \in Sups THEN p ELSE CHOOSE s \in Sups : TRUE]]
       /\ enrolled = sc.sups /\ faults = sc.faults
  /\ pc = [p \in Procs |-> "off"]
  /\ want = [p \in Procs |-> "dir"]
  /\ try = [p \in Procs |-> 1]
  /\ seen = [p \in Procs |-> Unseen]
  /\ aliens = {} /\ frozen = {} /\ dozed = {}
  /\ up = [d \in Daemons |-> Old]
  /\ ticked = [d \in Daemons |-> Old]
  /\ stuck = [d \in Daemons |-> FALSE]
  /\ child = [s \in Sups |-> NoChild]
  /\ exits = [s \in Sups |-> <<>>]
  /\ rest = [s \in Sups |-> 0]
  /\ starts = [s \in Sups |-> <<>>]
  /\ owed = {} /\ broken = {}

Locking(p) == Open(p) \/ Write(p) \/ Read(p) \/ Remove(p) \/ RelRead(p) \/ RelRemove(p)
Work(d) == FirstBeat(d) \/ Boot(d) \/ LoopTick(d) \/ Beat(d)
Supervising(s) == StartSup(s) \/ Spawn(s) \/ ChildExit(s) \/ WatchTick(s)

Next ==
  \/ \E p \in Procs : Locking(p) \/ Crash(p) \/ Freeze(p) \/ Thaw(p)
  \/ \E d \in Daemons : Work(d) \/ Exit(d) \/ Stick(d) \/ Reuse(d) \/ AlienEnds(d)
  \/ \E s \in Sups : Supervising(s) \/ StopSup(s)
  \/ Tick

Spec == Init /\ [][Next]_vars

\* Every process that runs goes on, time passes, a suspension ends, and the
\* task scheduler starts a supervisor again (the comment over main)
Fairness ==
  /\ WF_vars(Tick)
  /\ \A p \in Procs : WF_vars(Locking(p)) /\ WF_vars(Thaw(p))
  /\ \A d \in Daemons : WF_vars(FirstBeat(d) \/ Boot(d)) /\ WF_vars(LoopTick(d)) /\ WF_vars(Beat(d))
  /\ \A s \in Sups : WF_vars(Supervising(s))

FairSpec == Spec /\ Fairness

-----------------------------------------------------------------------------
(* Properties.                                                             *)

\* The values of all variables.
TypeOK ==
  /\ lock \in [Files -> LockStates]
  /\ supBeat \in [Dirs -> Ages] /\ dirBeat \in [Dirs -> [ts : Ages, tick : Ages]]
  /\ args \in [Procs -> [dir : Dirs, port : Ports]]
  /\ pc \in [Procs -> {"off", "open", "write", "read", "remove", "rel", "relrm", "beat", "boot",
                       "run", "idle", "watch"}]
  /\ enrolled \subseteq Sups
  /\ want \in [Procs -> Kinds] /\ try \in [Procs -> {1, 2}]
  /\ seen \in [Procs -> [lock : LockStates, old : BOOLEAN]]
  /\ aliens \subseteq Daemons /\ frozen \subseteq Procs /\ dozed \subseteq Daemons
  /\ up \in [Daemons -> Ages] /\ ticked \in [Daemons -> Ages] /\ stuck \in [Daemons -> BOOLEAN]
  /\ child \in [Sups -> Daemons \cup {NoChild}]
  /\ \A s \in Sups : pc[s] = "watch" => child[s] # NoChild
  /\ rest \in [Sups -> 0 .. HaltFor]
  /\ owed \subseteq {"watch", "loop", "beat"} \X Procs
  /\ faults \in Nat /\ broken \subseteq {"torn", "race", "stale"}

\* Two daemons trade on one account at once (internal/proc's reason to exist)
\* only after the lock of a live process was lost in one of the three ways:
\* read before its content was written, removed by name after it had changed
\* hands (to a process with the pid of the one before, too), or taken over with an
\* old heartbeat.
OneTrader == Cardinality(Running) > 1 => broken # {}

\* The time since the loop of a daemon ran, or since its start
Silent(d) == IF ticked[d] < up[d] THEN ticked[d] ELSE up[d]

\* No check of a supervisor passes a daemon whose loop stands still for longer
\* than the limits, hung or suspended, whatever its beat goroutine writes: once
\* the daemon has the account's lock to get, to hold or to give back, nobody else
\* writes its heartbeat file, unless a lock was lost.
HungKilled ==
  [][\A s \in Sups :
       <<"watch", s>> \in owed \ owed' /\ s \notin frozen' /\ pc'[s] = "watch"
         /\ want[child[s]] = "acct" /\ broken = {}
         => Silent(child[s]) <= Max({Grace, Hang})]_vars

\* However often a daemon dies, no window of loopWindow sees it started more
\* than loopMax times, so one fault cannot repeat its orders without end.
StartsBounded == \A s \in Sups : Len(starts[s]) <= LoopMax

\* A supervisor never kills a daemon that neither hung nor was suspended,
\* unless another one writes the same heartbeat file.
HealthyKept ==
  [][\A s \in Sups : pc[s] = "watch" /\ pc'[s] = "idle" /\ pc[child[s]] = "run"
       => stuck[child[s]] \/ child[s] \in dozed \/ broken # {}]_vars

\* A daemon trades, and hangs only if no supervisor has it for a child
Serving == \E d \in Running : ~stuck[d] \/ \A s \in Sups : child[s] # d

\* Once the faults are over a daemon trades again for good, unless a lock of a
\* live process was lost (two supervisors of one data-dir then kill each other's
\* daemons without end), another program has the pid of a dead daemon, or the
\* supervisor of a daemon that hangs has died: its beats go on, so its locks
\* stay fresh, and it is no supervisor's child.
Restored == <>[](broken # {} \/ aliens # {} \/ Serving)
=============================================================================
