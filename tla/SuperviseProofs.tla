--------------------------- MODULE SuperviseProofs ---------------------------
(***************************************************************************)
(* Supervise: two daemons never trade at once while no lock was lost, no   *)
(* check of a supervisor passes a daemon whose loop stands still, no       *)
(* healthy daemon is killed, and none is started too often.                *)
(*                                                                         *)
(* A lock file is made by whoever finds the name free, and a process that  *)
(* removes another one's writes that into `broken'.  So while `broken' is  *)
(* empty, a daemon from the start of its trading to its end is the one the *)
(* account's lock file names (AcctHeld), and from its heartbeat on the one *)
(* its data-dir's lock file names (DirHeld).  Hence two daemons do not     *)
(* write one heartbeat file, and the file shows what its owner did:        *)
(* BeatOwn bounds it from above, for the daemon that hangs, and Healthy    *)
(* from below, minute by minute, for the one that does not.                *)
(***************************************************************************)
EXTENDS Supervise, SumProofs

PCs == {"off", "open", "write", "read", "remove", "rel", "relrm", "beat", "boot", "run",
        "idle", "watch"}

\* The parts of TypeOK
TypeFiles ==
  /\ lock \in [Files -> LockStates]
  /\ supBeat \in [Dirs -> Ages] /\ dirBeat \in [Dirs -> [ts : Ages, tick : Ages]]
TypeSteps ==
  /\ args \in [Procs -> [dir : Dirs, port : Ports]]
  /\ pc \in [Procs -> PCs] /\ want \in [Procs -> Kinds] /\ try \in [Procs -> {1, 2}]
  /\ seen \in [Procs -> [lock : LockStates, old : BOOLEAN]]
TypeAges ==
  /\ up \in [Daemons -> Ages] /\ ticked \in [Daemons -> Ages] /\ stuck \in [Daemons -> BOOLEAN]
  /\ rest \in [Sups -> 0 .. HaltFor]
TypeChild ==
  /\ child \in [Sups -> Daemons \cup {NoChild}]
  /\ \A s \in Sups : pc[s] = "watch" => child[s] # NoChild
TypeSets ==
  /\ enrolled \subseteq Sups
  /\ aliens \subseteq Daemons /\ frozen \subseteq Procs /\ dozed \subseteq Daemons
  /\ owed \subseteq {"watch", "loop", "beat"} \X Procs
  /\ faults \in Nat /\ broken \subseteq {"torn", "race", "stale"}

\* TypeOK is its parts.
LEMMA TypeParts == TypeOK <=> TypeFiles /\ TypeSteps /\ TypeAges /\ TypeChild /\ TypeSets
BY DEF TypeOK, TypeFiles, TypeSteps, TypeAges, TypeChild, TypeSets, PCs

\* Old is the age after the largest limit, and no age is older.
LEMMA OldIs ==
  /\ Max({Stale, Grace, Hang}) \in Nat /\ Max({Grace, Hang}) \in Nat
  /\ Old \in Nat /\ Old > Stale /\ Old > Grace /\ Old > Hang
  /\ Grace <= Max({Grace, Hang}) /\ Hang <= Max({Grace, Hang})
  /\ \A a \in Ages : Older(a) \in Ages
<1>1. {Stale, Grace, Hang} \in SUBSET Nat /\ {Grace, Hang} \in SUBSET Nat
  BY SuperviseAssumption
<1>2. \A x \in {Stale, Grace, Hang} : x <= Stale + Grace + Hang
  BY <1>1
<1>3. Stale + Grace + Hang \in Nat
  BY <1>1
<1>4. Max({Stale, Grace, Hang}) \in {Stale, Grace, Hang}
      /\ \A x \in {Stale, Grace, Hang} : x <= Max({Stale, Grace, Hang})
  BY <1>1, <1>2, <1>3, MaxIs
<1>5. Max({Grace, Hang}) \in {Grace, Hang} /\ \A x \in {Grace, Hang} : x <= Max({Grace, Hang})
  BY <1>1, <1>2, <1>3, MaxIs
<1> QED
  BY <1>1, <1>4, <1>5 DEF Old, Ages, Older

\* The lock file a process wants is one of the lock files.
LEMMA FileIs ==
  ASSUME TypeSteps, NEW p \in Procs
  PROVE  File(p, want[p]) \in Files
BY DEF TypeSteps, File, Files, Kinds

-----------------------------------------------------------------------------
(* Types.                                                                  *)

\* The files keep their types.
LEMMA TypeFilesNext ==
  ASSUME TypeOK, TypeFiles, [Next]_vars
  PROVE  TypeFiles'
<1> USE DEF TypeFiles, files, steps, daemon, lazy, sup, Can, Fault
<1>1. ASSUME NEW p \in Procs, Open(p)
      PROVE  TypeFiles'
  <2>1. File(p, want[p]) \in Files /\ args[p].dir \in Dirs
    BY FileIs, TypeParts DEF TypeSteps
  <2>2. [by |-> p, beat |-> args[p].dir, full |-> FALSE] \in LockStates
    BY <2>1 DEF LockStates
  <2> QED BY <1>1, <2>1, <2>2 DEF Open
<1>2. ASSUME NEW p \in Procs, Write(p)
      PROVE  TypeFiles'
  <2>1. File(p, want[p]) \in Files
    BY FileIs, TypeParts
  <2> QED BY <1>2, <2>1 DEF Write, LockStates
<1>3. ASSUME NEW p \in Procs, Remove(p)
      PROVE  TypeFiles'
  <2>1. File(p, want[p]) \in Files
    BY FileIs, TypeParts
  <2> QED BY <1>3, <2>1 DEF Remove, LockStates, Free
<1>4. ASSUME NEW p \in Procs, RelRemove(p)
      PROVE  TypeFiles'
  <2>1. File(p, want[p]) \in Files
    BY FileIs, TypeParts
  <2> QED BY <1>4, <2>1 DEF RelRemove, LockStates, Free
<1>5. ASSUME NEW p \in Procs, Read(p) \/ RelRead(p) \/ Crash(p) \/ Freeze(p) \/ Thaw(p)
      PROVE  TypeFiles'
  BY <1>5 DEF Read, RelRead, Crash, Freeze, Thaw, GiveUp, Gone
<1>6. ASSUME NEW d \in Daemons, FirstBeat(d)
      PROVE  TypeFiles'
  <2>1. args[d].dir \in Dirs /\ Old \in Ages /\ 0 \in Ages /\ ticked[d] \in Ages
    BY TypeParts, OldIs DEF TypeSteps, TypeAges, Ages, Procs
  <2> QED BY <1>6, <2>1 DEF FirstBeat
<1>7. ASSUME NEW d \in Daemons, Beat(d)
      PROVE  TypeFiles'
  <2>1. args[d].dir \in Dirs /\ Old \in Ages /\ 0 \in Ages /\ ticked[d] \in Ages
    BY TypeParts, OldIs DEF TypeSteps, TypeAges, Ages, Procs
  <2> QED BY <1>7, <2>1 DEF Beat
<1>8. ASSUME NEW d \in Daemons, Boot(d) \/ LoopTick(d) \/ Exit(d) \/ Stick(d) \/ Reuse(d) \/
             AlienEnds(d)
      PROVE  TypeFiles'
  BY <1>8 DEF Boot, LoopTick, Exit, Stick, Reuse, AlienEnds
<1>9. ASSUME NEW s \in Sups, StartSup(s)
      PROVE  TypeFiles'
  <2>1. args[s].dir \in Dirs /\ 0 \in Ages
    BY TypeParts, OldIs DEF TypeSteps, Ages, Procs
  <2> QED BY <1>9, <2>1 DEF StartSup
<1>10. ASSUME NEW s \in Sups, WatchTick(s)
      PROVE  TypeFiles'
  <2>1. args[s].dir \in Dirs /\ 0 \in Ages
    BY TypeParts, OldIs DEF TypeSteps, Ages, Procs
  <2> QED BY <1>10, <2>1 DEF WatchTick
<1>11. ASSUME NEW s \in Sups, Spawn(s) \/ ChildExit(s) \/ StopSup(s)
      PROVE  TypeFiles'
  BY <1>11 DEF Spawn, ChildExit, StopSup, Gone, OnExit
<1>12. CASE Tick
  BY <1>12, OldIs DEF Tick
<1>13. CASE UNCHANGED vars
  BY <1>13 DEF vars
<1> QED
  BY <1>1, <1>2, <1>3, <1>4, <1>5, <1>6, <1>7, <1>8, <1>9, <1>10, <1>11, <1>12, <1>13 DEF Next,
     Locking, Work, Supervising

\* What a process is about to do keeps its type.
LEMMA TypeStepsNext ==
  ASSUME TypeOK, TypeFiles, TypeSteps, [Next]_vars
  PROVE  TypeSteps'
<1> USE DEF TypeSteps, PCs, Kinds, Procs, files, steps, daemon, lazy, sup, Can, Fault
<1>1. ASSUME NEW p \in Procs, Open(p)
      PROVE  TypeSteps'
  BY <1>1 DEF Open
<1>2. ASSUME NEW p \in Procs, Write(p)
      PROVE  TypeSteps'
  BY <1>2 DEF Write, Got
<1>3. ASSUME NEW p \in Procs, Read(p)
      PROVE  TypeSteps'
  <2>1. lock[File(p, want[p])] \in LockStates
    BY FileIs DEF TypeFiles
  <2>2. CASE Guarded(p, lock[File(p, want[p])])
    BY <1>3, <2>2 DEF Read, GiveUp, Failed
  <2>3. CASE ~Guarded(p, lock[File(p, want[p])])
    <3> DEFINE l == lock[File(p, want[p])]
               old == l # Free /\ ~Fresh(l)
    <3>1. [lock |-> l, old |-> old] \in [lock : LockStates, old : BOOLEAN]
      BY <2>1
    <3>2. seen' = [seen EXCEPT ![p] = [lock |-> l, old |-> old]] /\ pc' = [pc EXCEPT ![p] = "remove"]
          /\ UNCHANGED <<args, want, try>>
      BY <1>3, <2>3 DEF Read
    <3> HIDE DEF l, old
    <3> QED BY <3>1, <3>2
  <2> QED BY <2>2, <2>3
<1>4. ASSUME NEW p \in Procs, Remove(p)
      PROVE  TypeSteps'
  <2>1. Unseen \in [lock : LockStates, old : BOOLEAN]
    BY DEF Unseen, Free, LockStates
  <2> QED BY <1>4, <2>1 DEF Remove, GiveUp, Failed
<1>5. ASSUME NEW p \in Procs, RelRead(p)
      PROVE  TypeSteps'
  BY <1>5 DEF RelRead, GiveUp, Failed
<1>6. ASSUME NEW p \in Procs, RelRemove(p)
      PROVE  TypeSteps'
  BY <1>6 DEF RelRemove, GiveUp, Failed
<1>7. ASSUME NEW p \in Procs, Crash(p)
      PROVE  TypeSteps'
  <2>1. Unseen \in [lock : LockStates, old : BOOLEAN]
    BY DEF Unseen, Free, LockStates
  <2> QED BY <1>7, <2>1 DEF Crash, Gone
<1>8. ASSUME NEW p \in Procs, Freeze(p) \/ Thaw(p)
      PROVE  TypeSteps'
  BY <1>8 DEF Freeze, Thaw
<1>9. ASSUME NEW d \in Daemons, FirstBeat(d)
      PROVE  TypeSteps'
  BY <1>9 DEF FirstBeat
<1>10. ASSUME NEW d \in Daemons, Boot(d)
      PROVE  TypeSteps'
  BY <1>10 DEF Boot
<1>11. ASSUME NEW d \in Daemons, Exit(d)
      PROVE  TypeSteps'
  BY <1>11 DEF Exit
<1>12. ASSUME NEW d \in Daemons, LoopTick(d) \/ Beat(d) \/ Stick(d) \/ Reuse(d) \/ AlienEnds(d)
      PROVE  TypeSteps'
  BY <1>12 DEF LoopTick, Beat, Stick, Reuse, AlienEnds
<1>13. ASSUME NEW s \in Sups, StartSup(s)
      PROVE  TypeSteps'
  BY <1>13 DEF StartSup
<1>14. ASSUME NEW s \in Sups, Spawn(s)
      PROVE  TypeSteps'
  BY <1>14 DEF Spawn, FreePids
<1>15. ASSUME NEW s \in Sups, ChildExit(s)
      PROVE  TypeSteps'
  BY <1>15 DEF ChildExit, OnExit
<1>16. ASSUME NEW s \in Sups, WatchTick(s)
      PROVE  TypeSteps'
  <2>1. Unseen \in [lock : LockStates, old : BOOLEAN]
    BY DEF Unseen, Free, LockStates
  <2>2. CASE Hung(child[s])
    BY <1>16, <2>1, <2>2 DEF WatchTick, Gone
  <2>3. CASE ~Hung(child[s])
    BY <1>16, <2>3 DEF WatchTick
  <2> QED BY <2>2, <2>3
<1>17. ASSUME NEW s \in Sups, StopSup(s)
      PROVE  TypeSteps'
  <2>1. Unseen \in [lock : LockStates, old : BOOLEAN]
    BY DEF Unseen, Free, LockStates
  <2> QED BY <1>17, <2>1 DEF StopSup, Gone
<1>18. CASE Tick
  BY <1>18 DEF Tick
<1>19. CASE UNCHANGED vars
  BY <1>19 DEF vars
<1> QED
  BY <1>1, <1>2, <1>3, <1>4, <1>5, <1>6, <1>7, <1>8, <1>9, <1>10, <1>11, <1>12, <1>13, <1>14,
     <1>15, <1>16, <1>17, <1>18, <1>19 DEF Next, Locking, Work, Supervising

\* Ages and waits keep their types.
LEMMA TypeAgesNext ==
  ASSUME TypeOK, TypeAges, [Next]_vars
  PROVE  TypeAges'
<1> USE DEF TypeAges, files, steps, daemon, lazy, sup, Can, Fault
<1>1. ASSUME NEW p \in Procs, Open(p) \/ Write(p) \/ Read(p) \/ Remove(p) \/ RelRead(p) \/
             RelRemove(p) \/ Crash(p) \/ Freeze(p) \/ Thaw(p)
      PROVE  TypeAges'
  BY <1>1 DEF Open, Write, Read, Remove, RelRead, RelRemove, Crash, Freeze, Thaw, GiveUp, Gone
<1>2. ASSUME NEW d \in Daemons, LoopTick(d)
      PROVE  TypeAges'
  BY <1>2, OldIs DEF LoopTick, Ages
<1>3. ASSUME NEW d \in Daemons, Stick(d)
      PROVE  TypeAges'
  BY <1>3 DEF Stick
<1>4. ASSUME NEW d \in Daemons, FirstBeat(d) \/ Boot(d) \/ Beat(d) \/ Exit(d) \/ Reuse(d) \/
             AlienEnds(d)
      PROVE  TypeAges'
  BY <1>4 DEF FirstBeat, Boot, Beat, Exit, Reuse, AlienEnds
<1>5. ASSUME NEW s \in Sups, StartSup(s)
      PROVE  TypeAges'
  BY <1>5, SuperviseAssumption DEF StartSup
<1>6. ASSUME NEW s \in Sups, Spawn(s)
      PROVE  TypeAges'
  BY <1>6, OldIs DEF Spawn, FreePids, Ages
<1>7. ASSUME NEW s \in Sups, ChildExit(s)
      PROVE  TypeAges'
  BY <1>7, SuperviseAssumption DEF ChildExit, OnExit
<1>8. ASSUME NEW s \in Sups, WatchTick(s)
      PROVE  TypeAges'
  BY <1>8, SuperviseAssumption DEF WatchTick, OnExit
<1>9. ASSUME NEW s \in Sups, StopSup(s)
      PROVE  TypeAges'
  BY <1>9 DEF StopSup, Gone
<1>10. CASE Tick
  <2>1. Old \in Ages
    BY OldIs DEF Ages
  <2>2. \A s \in Sups : rest[s] \in 0 .. HaltFor /\ HaltFor \in Nat
    BY SuperviseAssumption
  <2>3. rest' \in [Sups -> 0 .. HaltFor]
    BY <1>10, <2>2 DEF Tick
  <2>4. up' \in [Daemons -> Ages] /\ ticked' \in [Daemons -> Ages]
    BY <1>10, <2>1, OldIs DEF Tick
  <2>5. stuck' \in [Daemons -> BOOLEAN]
    BY <1>10 DEF Tick
  <2> QED BY <2>3, <2>4, <2>5
<1>11. CASE UNCHANGED vars
  BY <1>11 DEF vars
<1> QED
  BY <1>1, <1>2, <1>3, <1>4, <1>5, <1>6, <1>7, <1>8, <1>9, <1>10, <1>11 DEF Next, Locking, Work,
     Supervising

\* A supervisor that watches has a daemon to watch.
LEMMA TypeChildNext ==
  ASSUME TypeOK, TypeSteps, TypeChild, [Next]_vars
  PROVE  TypeChild'
<1> USE DEF TypeChild, TypeSteps, Procs, files, steps, daemon, lazy, sup, Can, Fault
<1>1. ASSUME NEW p \in Procs, Open(p)
      PROVE  TypeChild'
  BY <1>1 DEF Open
<1>2. ASSUME NEW p \in Procs, Write(p)
      PROVE  TypeChild'
  BY <1>2 DEF Write, Got, Kinds
<1>3. ASSUME NEW p \in Procs, Read(p)
      PROVE  TypeChild'
  BY <1>3 DEF Read, GiveUp, Failed
<1>4. ASSUME NEW p \in Procs, Remove(p)
      PROVE  TypeChild'
  BY <1>4 DEF Remove, GiveUp, Failed
<1>5. ASSUME NEW p \in Procs, RelRead(p)
      PROVE  TypeChild'
  BY <1>5 DEF RelRead, GiveUp, Failed
<1>6. ASSUME NEW p \in Procs, RelRemove(p)
      PROVE  TypeChild'
  BY <1>6 DEF RelRemove, GiveUp, Failed
<1>7. ASSUME NEW p \in Procs, Crash(p)
      PROVE  TypeChild'
  BY <1>7 DEF Crash, Gone
<1>8. ASSUME NEW p \in Procs, Freeze(p) \/ Thaw(p)
      PROVE  TypeChild'
  BY <1>8 DEF Freeze, Thaw
<1>9. ASSUME NEW d \in Daemons, FirstBeat(d)
      PROVE  TypeChild'
  BY <1>9, SuperviseAssumption DEF FirstBeat
<1>10. ASSUME NEW d \in Daemons, Boot(d)
      PROVE  TypeChild'
  BY <1>10, SuperviseAssumption DEF Boot
<1>11. ASSUME NEW d \in Daemons, Exit(d)
      PROVE  TypeChild'
  BY <1>11, SuperviseAssumption DEF Exit
<1>12. ASSUME NEW d \in Daemons, LoopTick(d) \/ Beat(d) \/ Stick(d) \/ Reuse(d) \/ AlienEnds(d)
      PROVE  TypeChild'
  BY <1>12 DEF LoopTick, Beat, Stick, Reuse, AlienEnds
<1>13. ASSUME NEW s \in Sups, StartSup(s)
      PROVE  TypeChild'
  BY <1>13 DEF StartSup
<1>14. ASSUME NEW s \in Sups, Spawn(s)
      PROVE  TypeChild'
  BY <1>14, SuperviseAssumption DEF Spawn, FreePids
<1>15. ASSUME NEW s \in Sups, ChildExit(s)
      PROVE  TypeChild'
  BY <1>15, SuperviseAssumption DEF ChildExit, OnExit
<1>16. ASSUME NEW s \in Sups, WatchTick(s)
      PROVE  TypeChild'
  <2>1. CASE Hung(child[s])
    <3>1. pc' = [pc EXCEPT ![s] = "idle", ![child[s]] = "off"] /\ child' = [child EXCEPT ![s] = NoChild]
          /\ args' = args
      BY <1>16, <2>1 DEF WatchTick, OnExit
    <3>2. \A x \in Sups \ {s} : (pc'[x] = "watch" => pc[x] = "watch") /\ child'[x] = child[x]
      BY <3>1
    <3> QED BY <1>16, <3>1, <3>2
  <2>2. CASE ~Hung(child[s])
    BY <1>16, <2>2 DEF WatchTick
  <2> QED BY <2>1, <2>2
<1>17. ASSUME NEW s \in Sups, StopSup(s)
      PROVE  TypeChild'
  BY <1>17, SuperviseAssumption DEF StopSup, Gone
<1>18. CASE Tick
  BY <1>18 DEF Tick
<1>19. CASE UNCHANGED vars
  BY <1>19 DEF vars
<1> QED
  BY <1>1, <1>2, <1>3, <1>4, <1>5, <1>6, <1>7, <1>8, <1>9, <1>10, <1>11, <1>12, <1>13, <1>14,
     <1>15, <1>16, <1>17, <1>18, <1>19 DEF Next, Locking, Work, Supervising

\* The sets of processes, and what is owed, keep their types.
LEMMA TypeSetsNext ==
  ASSUME TypeOK, TypeChild, TypeSets, [Next]_vars
  PROVE  TypeSets'
<1> USE DEF TypeSets, Procs, files, steps, daemon, lazy, sup, Can, Fault
<1>1. ASSUME NEW p \in Procs, Remove(p)
      PROVE  TypeSets'
  BY <1>1 DEF Remove, Loss
<1>2. ASSUME NEW p \in Procs, RelRemove(p)
      PROVE  TypeSets'
  BY <1>2 DEF RelRemove, GiveUp
<1>3. ASSUME NEW p \in Procs, Crash(p)
      PROVE  TypeSets'
  BY <1>3 DEF Crash
<1>4. ASSUME NEW p \in Procs, Freeze(p)
      PROVE  TypeSets'
  BY <1>4 DEF Freeze
<1>5. ASSUME NEW p \in Procs, Thaw(p)
      PROVE  TypeSets'
  BY <1>5 DEF Thaw, Periodic, Watching, Running
<1>6. ASSUME NEW p \in Procs, Open(p) \/ Write(p) \/ Read(p) \/ RelRead(p)
      PROVE  TypeSets'
  BY <1>6 DEF Open, Write, Read, RelRead, GiveUp
<1>7. ASSUME NEW d \in Daemons, FirstBeat(d)
      PROVE  TypeSets'
  BY <1>7 DEF FirstBeat
<1>8. ASSUME NEW d \in Daemons, Boot(d)
      PROVE  TypeSets'
  BY <1>8 DEF Boot
<1>9. ASSUME NEW d \in Daemons, LoopTick(d)
      PROVE  TypeSets'
  BY <1>9 DEF LoopTick
<1>10. ASSUME NEW d \in Daemons, Beat(d)
      PROVE  TypeSets'
  BY <1>10 DEF Beat
<1>11. ASSUME NEW d \in Daemons, Exit(d)
      PROVE  TypeSets'
  BY <1>11 DEF Exit
<1>12. ASSUME NEW d \in Daemons, Stick(d)
      PROVE  TypeSets'
  BY <1>12 DEF Stick
<1>13. ASSUME NEW d \in Daemons, Reuse(d)
      PROVE  TypeSets'
  BY <1>13 DEF Reuse
<1>14. ASSUME NEW d \in Daemons, AlienEnds(d)
      PROVE  TypeSets'
  BY <1>14 DEF AlienEnds
<1>15. ASSUME NEW s \in Sups, StartSup(s)
      PROVE  TypeSets'
  BY <1>15 DEF StartSup
<1>16. ASSUME NEW s \in Sups, Spawn(s)
      PROVE  TypeSets'
  BY <1>16 DEF Spawn, FreePids
<1>17. ASSUME NEW s \in Sups, ChildExit(s)
      PROVE  TypeSets'
  BY <1>17 DEF ChildExit, OnExit
<1>18. ASSUME NEW s \in Sups, WatchTick(s)
      PROVE  TypeSets'
  BY <1>18 DEF WatchTick, OnExit, Gone
<1>19. ASSUME NEW s \in Sups, StopSup(s)
      PROVE  TypeSets'
  BY <1>19 DEF StopSup
<1>20. CASE Tick
  BY <1>20 DEF Tick, Periodic, Watching, Running
<1>21. CASE UNCHANGED vars
  BY <1>21 DEF vars
<1> QED
  BY <1>1, <1>2, <1>3, <1>4, <1>5, <1>6, <1>7, <1>8, <1>9, <1>10, <1>11, <1>12, <1>13, <1>14,
     <1>15, <1>16, <1>17, <1>18, <1>19, <1>20, <1>21 DEF Next, Locking, Work, Supervising

-----------------------------------------------------------------------------
(* The inductive invariant.                                                *)

\* Where a process may stand: whoever has to do with the account's lock runs, a
\* daemon that runs has not given it back, and daemons do not supervise.
Phases ==
  /\ \A p \in Procs : pc[p] = "off" => want[p] # "acct"
  /\ \A d \in Daemons : pc[d] \in {"boot", "run"} => want[d] = "acct"
  /\ \A d \in Daemons : want[d] # "sup" /\ pc[d] \notin {"idle", "watch"}

\* The account's lock file was made by d, and d has not begun to give it back
MayTrade(d) == pc[d] \in {"boot", "run"} \/ (pc[d] = "write" /\ want[d] = "acct")

\* The same of the data-dir's lock
HasDir(d) == want[d] = "acct" \/ pc[d] = "beat" \/ (pc[d] = "write" /\ want[d] = "dir")

\* While no lock was lost, a daemon that may trade is the account's lock's owner
AcctHeld ==
  broken = {} => \A d \in Daemons : MayTrade(d) => lock[<<"acct">>].by = d

\* and from its own lock on until it gives that back, the data-dir's lock's
DirHeld ==
  broken = {} => \A d \in Daemons : HasDir(d) => lock[<<"dir", args[d].dir>>].by = d

\* The heartbeat file of a daemon
BeatOf(d) == dirBeat[args[d].dir]

\* so the heartbeat file is its own, and shows no later tick than it made
BeatOwn ==
  broken = {} => \A d \in Daemons : want[d] = "acct" => ticked[d] <= BeatOf(d).tick

\* Who is suspended lives, and was seen to be
Awake ==
  /\ \A p \in frozen : pc[p] # "off"
  /\ frozen \cap Daemons \subseteq dozed

\* A daemon that was never suspended starts within the minute, its beat too
Young ==
  \A d \in Daemons \ dozed :
    pc[d] \in {"open", "write", "read", "remove", "beat", "boot"} =>
      up[d] = 0 /\ (want[d] = "acct" /\ broken = {} => BeatOf(d).ts = 0)

\* One that never hung either ticks and beats every minute
Healthy ==
  broken = {} => \A d \in Daemons \ dozed :
    pc[d] = "run" /\ ~stuck[d] =>
      /\ ticked[d] <= 1 \/ up[d] = 0
      /\ BeatOf(d).ts <= 1
      /\ BeatOf(d).tick <= 2 \/ up[d] <= 1
      /\ <<"loop", d>> \notin owed => ticked[d] = 0
      /\ <<"beat", d>> \notin owed => BeatOf(d).ts = 0 /\ (BeatOf(d).tick <= 1 \/ up[d] = 0)

SInv == TypeOK /\ Phases /\ AcctHeld /\ DirHeld /\ BeatOwn /\ Awake /\ Young /\ Healthy


\* What kind of lock a process wants says which file it is.
LEMMA FileOf ==
  ASSUME TypeSteps, NEW p \in Procs
  PROVE  /\ <<"acct">> \in Files /\ <<"dir", args[p].dir>> \in Files
         /\ File(p, want[p]) = <<"acct">> <=> want[p] = "acct"
         /\ \A x : File(p, want[p]) = <<"dir", x>> => want[p] = "dir"
BY DEF TypeSteps, File, Files, Kinds

\* Nobody removes the lock of a live daemon but itself, or the loss is on record.
LEMMA RemoveOwn ==
  ASSUME TypeOK, NEW p \in Procs, Remove(p) \/ RelRemove(p), broken' = {},
         NEW d \in Daemons, lock[File(p, want[p])].by = d, pc[d] # "off"
  PROVE  d = p
<1>1. d # NoChild
  BY SuperviseAssumption
<1>2. CASE Remove(p)
  <2>1. Loss(p, lock[File(p, want[p])]) = {}
    BY <1>2 DEF Remove
  <2> QED BY <1>1, <2>1 DEF Loss, Free
<1>3. CASE RelRemove(p)
  BY <1>1, <1>3 DEF RelRemove
<1> QED BY <1>2, <1>3

\* What was lost stays on record.
LEMMA LostStays ==
  ASSUME broken' = {}, [Next]_vars
  PROVE  broken = {}
<1> USE DEF files, steps, daemon, lazy, sup, Can, Fault
<1>1. ASSUME NEW p \in Procs, Open(p) \/ Write(p) \/ Read(p) \/ Remove(p) \/ RelRead(p) \/
             RelRemove(p) \/ Crash(p) \/ Freeze(p) \/ Thaw(p)
      PROVE  broken = {}
  BY <1>1 DEF Open, Write, Read, Remove, RelRead, RelRemove, Crash, Freeze, Thaw, GiveUp, Gone
<1>2. ASSUME NEW d \in Daemons, FirstBeat(d) \/ Boot(d) \/ LoopTick(d) \/ Beat(d) \/ Exit(d) \/
             Stick(d) \/ Reuse(d) \/ AlienEnds(d)
      PROVE  broken = {}
  BY <1>2 DEF FirstBeat, Boot, LoopTick, Beat, Exit, Stick, Reuse, AlienEnds
<1>3. ASSUME NEW s \in Sups, StartSup(s) \/ Spawn(s) \/ ChildExit(s) \/ WatchTick(s) \/ StopSup(s)
      PROVE  broken = {}
  BY <1>3 DEF StartSup, Spawn, ChildExit, WatchTick, StopSup, Gone, OnExit, OnExit, Gone
<1>4. CASE Tick
  BY <1>4 DEF Tick
<1>5. CASE UNCHANGED vars
  BY <1>5 DEF vars
<1> QED
  BY <1>1, <1>2, <1>3, <1>4, <1>5 DEF Next, Locking, Work, Supervising

\* A live daemon's lock stays its own until it removes it, unless a lock is lost.
LEMMA LockKept ==
  ASSUME TypeOK, TypeFiles, broken' = {}, NEW f \in Files, NEW e \in Daemons, lock[f].by = e,
          pc[e] # "off", pc[e] \in {"remove", "relrm"} => File(e, want[e]) # f, [Next]_vars
  PROVE  lock'[f].by = e
<1> USE DEF TypeFiles, LockStates, files, steps, daemon, lazy, sup, Can, Fault
<1>1. ASSUME NEW p \in Procs, Open(p)
      PROVE  lock'[f].by = e
  BY <1>1, SuperviseAssumption DEF Open, Free
<1>2. ASSUME NEW p \in Procs, Write(p)
      PROVE  lock'[f].by = e
  BY <1>2 DEF Write
<1>3. ASSUME NEW p \in Procs, Remove(p)
      PROVE  lock'[f].by = e
  <2>1. File(p, want[p]) # f
    BY <1>3, RemoveOwn DEF Remove
  <2> QED BY <1>3, <2>1 DEF Remove
<1>4. ASSUME NEW p \in Procs, RelRemove(p)
      PROVE  lock'[f].by = e
  <2>1. File(p, want[p]) # f
    BY <1>4, RemoveOwn DEF RelRemove
  <2> QED BY <1>4, <2>1 DEF RelRemove
<1>5. ASSUME NEW p \in Procs, Read(p) \/ RelRead(p) \/ Crash(p) \/ Freeze(p) \/ Thaw(p)
      PROVE  lock'[f].by = e
  BY <1>5 DEF Read, RelRead, Crash, Freeze, Thaw, GiveUp, Gone
<1>6. ASSUME NEW d \in Daemons, FirstBeat(d) \/ Boot(d) \/ LoopTick(d) \/ Beat(d) \/ Exit(d) \/
             Stick(d) \/ Reuse(d) \/ AlienEnds(d)
      PROVE  lock'[f].by = e
  BY <1>6 DEF FirstBeat, Boot, LoopTick, Beat, Exit, Stick, Reuse, AlienEnds
<1>7. ASSUME NEW s \in Sups, StartSup(s) \/ Spawn(s) \/ ChildExit(s) \/ WatchTick(s) \/ StopSup(s)
      PROVE  lock'[f].by = e
  BY <1>7 DEF StartSup, Spawn, ChildExit, WatchTick, StopSup, Gone, OnExit, OnExit, Gone
<1>8. CASE Tick
  BY <1>8 DEF Tick
<1>9. CASE UNCHANGED vars
  BY <1>9 DEF vars
<1> QED
  BY <1>1, <1>2, <1>3, <1>4, <1>5, <1>6, <1>7, <1>8, <1>9 DEF Next, Locking, Work, Supervising

\* Processes go through their phases in order.
LEMMA PhasesNext ==
  ASSUME TypeOK, TypeSteps, TypeChild, Phases, [Next]_vars
  PROVE  Phases'
<1> USE SuperviseAssumption DEF TypeSteps, TypeChild, PCs, Kinds, Procs, Phases, files, steps,
       daemon, lazy, sup, Can, Fault
<1>1. ASSUME NEW p \in Procs, Open(p)
      PROVE  Phases'
  BY <1>1 DEF Open
<1>2. ASSUME NEW p \in Procs, Write(p)
      PROVE  Phases'
  BY <1>2 DEF Write, Got
<1>3. ASSUME NEW p \in Procs, Read(p)
      PROVE  Phases'
  BY <1>3 DEF Read, GiveUp, Failed
<1>4. ASSUME NEW p \in Procs, Remove(p)
      PROVE  Phases'
  BY <1>4 DEF Remove, GiveUp, Failed
<1>5. ASSUME NEW p \in Procs, RelRead(p)
      PROVE  Phases'
  BY <1>5 DEF RelRead, GiveUp, Failed
<1>6. ASSUME NEW p \in Procs, RelRemove(p)
      PROVE  Phases'
  BY <1>6 DEF RelRemove, GiveUp, Failed
<1>7. ASSUME NEW p \in Procs, Crash(p)
      PROVE  Phases'
  BY <1>7 DEF Crash, Gone
<1>8. ASSUME NEW p \in Procs, Freeze(p) \/ Thaw(p)
      PROVE  Phases'
  BY <1>8 DEF Freeze, Thaw
<1>9. ASSUME NEW d \in Daemons, FirstBeat(d)
      PROVE  Phases'
  BY <1>9 DEF FirstBeat
<1>10. ASSUME NEW d \in Daemons, Boot(d)
      PROVE  Phases'
  BY <1>10 DEF Boot
<1>11. ASSUME NEW d \in Daemons, Exit(d)
      PROVE  Phases'
  BY <1>11 DEF Exit
<1>12. ASSUME NEW d \in Daemons, LoopTick(d) \/ Beat(d) \/ Stick(d) \/ Reuse(d) \/ AlienEnds(d)
      PROVE  Phases'
  BY <1>12 DEF LoopTick, Beat, Stick, Reuse, AlienEnds
<1>13. ASSUME NEW s \in Sups, StartSup(s)
      PROVE  Phases'
  BY <1>13 DEF StartSup
<1>14. ASSUME NEW s \in Sups, Spawn(s)
      PROVE  Phases'
  <2>1. PICK d \in FreePids : /\ pc' = [pc EXCEPT ![d] = "open", ![s] = "watch"]
                               /\ want' = [want EXCEPT ![d] = "dir"]
    BY <1>14 DEF Spawn
  <2>2. d \in Daemons /\ pc[s] = "idle" /\ s \notin Daemons
    BY <1>14 DEF Spawn, FreePids
  <2> QED BY <2>1, <2>2
<1>15. ASSUME NEW s \in Sups, ChildExit(s)
      PROVE  Phases'
  BY <1>15 DEF ChildExit, OnExit
<1>16. ASSUME NEW s \in Sups, WatchTick(s)
      PROVE  Phases'
  <2>1. CASE Hung(child[s])
    <3>1. /\ pc' = [pc EXCEPT ![s] = "idle", ![child[s]] = "off"] /\ s \notin Daemons
          /\ want' = [p \in Procs |-> IF p \in {child[s]} THEN "dir" ELSE want[p]]
      BY <1>16, <2>1 DEF WatchTick, Gone
    <3>2. child[s] \in Daemons /\ pc[s] = "watch"
      BY <1>16 DEF WatchTick
    <3> QED BY <3>1, <3>2
  <2>2. CASE ~Hung(child[s])
    BY <1>16, <2>2 DEF WatchTick
  <2> QED BY <2>1, <2>2
<1>17. ASSUME NEW s \in Sups, StopSup(s)
      PROVE  Phases'
  BY <1>17 DEF StopSup, Gone
<1>18. CASE Tick
  BY <1>18 DEF Tick
<1>19. CASE UNCHANGED vars
  BY <1>19 DEF vars
<1> QED
  BY <1>1, <1>2, <1>3, <1>4, <1>5, <1>6, <1>7, <1>8, <1>9, <1>10, <1>11, <1>12, <1>13, <1>14,
     <1>15, <1>16, <1>17, <1>18, <1>19 DEF Next, Locking, Work, Supervising

\* A daemon gets a lock by creating its file, and in no other way.
LEMMA HoldersGrow ==
  ASSUME TypeOK, TypeSteps, TypeChild, Phases, NEW e \in Daemons, \A p \in Procs : ~Open(p),
          [Next]_vars
  PROVE  /\ MayTrade(e)' => MayTrade(e)
         /\ HasDir(e)' => HasDir(e) /\ args'[e] = args[e] /\ pc[e] # "off"
<1> USE DEF TypeSteps, TypeChild, PCs, Kinds, Procs, Phases, MayTrade, HasDir, files, steps,
       daemon, lazy, sup, Can, Fault
<1>1. ASSUME NEW p \in Procs, Open(p)
      PROVE  /\ MayTrade(e)' => MayTrade(e)
             /\ HasDir(e)' => HasDir(e) /\ args'[e] = args[e] /\ pc[e] # "off"
  BY <1>1
<1>2. ASSUME NEW p \in Procs, Write(p)
      PROVE  /\ MayTrade(e)' => MayTrade(e)
             /\ HasDir(e)' => HasDir(e) /\ args'[e] = args[e] /\ pc[e] # "off"
  BY <1>2 DEF Write, Got
<1>3. ASSUME NEW p \in Procs, Read(p)
      PROVE  /\ MayTrade(e)' => MayTrade(e)
             /\ HasDir(e)' => HasDir(e) /\ args'[e] = args[e] /\ pc[e] # "off"
  BY <1>3 DEF Read, GiveUp, Failed
<1>4. ASSUME NEW p \in Procs, Remove(p)
      PROVE  /\ MayTrade(e)' => MayTrade(e)
             /\ HasDir(e)' => HasDir(e) /\ args'[e] = args[e] /\ pc[e] # "off"
  BY <1>4 DEF Remove, GiveUp, Failed
<1>5. ASSUME NEW p \in Procs, RelRead(p)
      PROVE  /\ MayTrade(e)' => MayTrade(e)
             /\ HasDir(e)' => HasDir(e) /\ args'[e] = args[e] /\ pc[e] # "off"
  BY <1>5 DEF RelRead, GiveUp, Failed
<1>6. ASSUME NEW p \in Procs, RelRemove(p)
      PROVE  /\ MayTrade(e)' => MayTrade(e)
             /\ HasDir(e)' => HasDir(e) /\ args'[e] = args[e] /\ pc[e] # "off"
  BY <1>6 DEF RelRemove, GiveUp, Failed
<1>7. ASSUME NEW p \in Procs, Crash(p)
      PROVE  /\ MayTrade(e)' => MayTrade(e)
             /\ HasDir(e)' => HasDir(e) /\ args'[e] = args[e] /\ pc[e] # "off"
  BY <1>7 DEF Crash, Gone
<1>8. ASSUME NEW p \in Procs, Freeze(p) \/ Thaw(p)
      PROVE  /\ MayTrade(e)' => MayTrade(e)
             /\ HasDir(e)' => HasDir(e) /\ args'[e] = args[e] /\ pc[e] # "off"
  BY <1>8 DEF Freeze, Thaw
<1>9. ASSUME NEW d \in Daemons, FirstBeat(d)
      PROVE  /\ MayTrade(e)' => MayTrade(e)
             /\ HasDir(e)' => HasDir(e) /\ args'[e] = args[e] /\ pc[e] # "off"
  BY <1>9 DEF FirstBeat
<1>10. ASSUME NEW d \in Daemons, Boot(d)
      PROVE  /\ MayTrade(e)' => MayTrade(e)
             /\ HasDir(e)' => HasDir(e) /\ args'[e] = args[e] /\ pc[e] # "off"
  BY <1>10 DEF Boot
<1>11. ASSUME NEW d \in Daemons, Exit(d)
      PROVE  /\ MayTrade(e)' => MayTrade(e)
             /\ HasDir(e)' => HasDir(e) /\ args'[e] = args[e] /\ pc[e] # "off"
  BY <1>11 DEF Exit
<1>12. ASSUME NEW d \in Daemons, LoopTick(d) \/ Beat(d) \/ Stick(d) \/ Reuse(d) \/ AlienEnds(d)
      PROVE  /\ MayTrade(e)' => MayTrade(e)
             /\ HasDir(e)' => HasDir(e) /\ args'[e] = args[e] /\ pc[e] # "off"
  BY <1>12 DEF LoopTick, Beat, Stick, Reuse, AlienEnds
<1>13. ASSUME NEW s \in Sups, StartSup(s)
      PROVE  /\ MayTrade(e)' => MayTrade(e)
             /\ HasDir(e)' => HasDir(e) /\ args'[e] = args[e] /\ pc[e] # "off"
  BY <1>13 DEF StartSup
<1>14. ASSUME NEW s \in Sups, Spawn(s)
      PROVE  /\ MayTrade(e)' => MayTrade(e)
             /\ HasDir(e)' => HasDir(e) /\ args'[e] = args[e] /\ pc[e] # "off"
  <2>1. PICK d \in FreePids : /\ pc' = [pc EXCEPT ![d] = "open", ![s] = "watch"]
                               /\ want' = [want EXCEPT ![d] = "dir"]
                               /\ args' = [args EXCEPT ![d] = args[s]]
    BY <1>14 DEF Spawn
  <2>2. d \in Daemons /\ s \notin Daemons
    BY <1>14, SuperviseAssumption DEF FreePids
  <2> QED BY <2>1, <2>2
<1>15. ASSUME NEW s \in Sups, ChildExit(s)
      PROVE  /\ MayTrade(e)' => MayTrade(e)
             /\ HasDir(e)' => HasDir(e) /\ args'[e] = args[e] /\ pc[e] # "off"
  BY <1>15 DEF ChildExit, OnExit
<1>16. ASSUME NEW s \in Sups, WatchTick(s)
      PROVE  /\ MayTrade(e)' => MayTrade(e)
             /\ HasDir(e)' => HasDir(e) /\ args'[e] = args[e] /\ pc[e] # "off"
  <2>1. CASE Hung(child[s])
    <3>1. /\ pc' = [pc EXCEPT ![s] = "idle", ![child[s]] = "off"] /\ s \notin Daemons /\ args' = args
          /\ want' = [p \in Procs |-> IF p \in {child[s]} THEN "dir" ELSE want[p]]
      BY <1>16, <2>1, SuperviseAssumption DEF WatchTick, Gone
    <3> QED BY <1>16, <3>1
  <2>2. CASE ~Hung(child[s])
    BY <1>16, <2>2 DEF WatchTick
  <2> QED BY <2>1, <2>2
<1>17. ASSUME NEW s \in Sups, StopSup(s)
      PROVE  /\ MayTrade(e)' => MayTrade(e)
             /\ HasDir(e)' => HasDir(e) /\ args'[e] = args[e] /\ pc[e] # "off"
  BY <1>17 DEF StopSup, Gone
<1>18. CASE Tick
  BY <1>18 DEF Tick
<1>19. CASE UNCHANGED vars
  BY <1>19 DEF vars
<1> QED
  BY <1>1, <1>2, <1>3, <1>4, <1>5, <1>6, <1>7, <1>8, <1>9, <1>10, <1>11, <1>12, <1>13, <1>14,
     <1>15, <1>16, <1>17, <1>18, <1>19 DEF Next, Locking, Work, Supervising

\* The locks are held through every step.
LEMMA HeldNext ==
  ASSUME TypeOK, TypeFiles, TypeSteps, TypeChild, Phases, AcctHeld, DirHeld, [Next]_vars
  PROVE  AcctHeld' /\ DirHeld'
<1> SUFFICES ASSUME broken' = {}, NEW e \in Daemons
             PROVE  /\ MayTrade(e)' => lock'[<<"acct">>].by = e
                    /\ HasDir(e)' => lock'[<<"dir", args'[e].dir>>].by = e
  BY DEF AcctHeld, DirHeld
<1>1. broken = {}
  BY LostStays
<1>2. CASE \A p \in Procs : ~Open(p)
  <2>1. /\ MayTrade(e)' => MayTrade(e)
        /\ HasDir(e)' => HasDir(e) /\ args'[e] = args[e] /\ pc[e] # "off"
    BY <1>2, HoldersGrow
  <2>2. <<"acct">> \in Files /\ <<"dir", args[e].dir>> \in Files
    BY FileOf DEF Procs
  <2>3. MayTrade(e) => pc[e] # "off" /\ pc[e] \notin {"remove", "relrm"}
    BY DEF MayTrade
  <2>4. MayTrade(e) => lock'[<<"acct">>].by = e
    BY <1>1, <2>2, <2>3, LockKept DEF AcctHeld
  <2>5. HasDir(e) /\ pc[e] \in {"remove", "relrm"} => File(e, want[e]) # <<"dir", args[e].dir>>
    BY FileOf DEF HasDir, Procs
  <2>6. HasDir(e) /\ pc[e] # "off" => lock'[<<"dir", args[e].dir>>].by = e
    BY <1>1, <2>2, <2>5, LockKept DEF DirHeld
  <2> QED BY <2>1, <2>4, <2>6
<1>3. ASSUME NEW p \in Procs, Open(p)
      PROVE  /\ MayTrade(e)' => lock'[<<"acct">>].by = e
             /\ HasDir(e)' => lock'[<<"dir", args'[e].dir>>].by = e
  <2> DEFINE f == File(p, want[p])
  <2>1. f \in Files /\ UNCHANGED <<want, args>>
    BY <1>3, FileIs DEF Open
  <2>2. CASE lock[f] # Free
    <3>1. UNCHANGED lock /\ pc' = [pc EXCEPT ![p] = "read"]
      BY <1>3, <2>2 DEF Open
    <3>2. pc'[e] = pc[e] \/ pc'[e] = "read"
      BY <3>1 DEF TypeSteps, Procs
    <3>3. (MayTrade(e)' => MayTrade(e)) /\ (HasDir(e)' => HasDir(e))
      BY <2>1, <3>2 DEF MayTrade, HasDir
    <3> QED BY <1>1, <2>1, <3>1, <3>3 DEF AcctHeld, DirHeld
  <2>3. CASE lock[f] = Free
    <3>1. /\ lock' = [lock EXCEPT ![f] = [by |-> p, beat |-> args[p].dir, full |-> FALSE]]
          /\ pc' = [pc EXCEPT ![p] = "write"]
      BY <1>3, <2>3 DEF Open
    <3>2. lock'[f].by = p /\ \A g \in Files \ {f} : lock'[g] = lock[g]
      BY <2>1, <3>1 DEF TypeFiles
    <3>3. lock[f].by \notin Daemons
      BY <2>3, SuperviseAssumption DEF Free
    <3>4. <<"acct">> \in Files /\ <<"dir", args[e].dir>> \in Files
      BY FileOf DEF Procs
    <3>5. CASE e # p
      <4>1. pc'[e] = pc[e]
        BY <3>1, <3>5 DEF TypeSteps
      <4>2. MayTrade(e) => lock[<<"acct">>].by = e
        BY <1>1 DEF AcctHeld
      <4>3. HasDir(e) => lock[<<"dir", args[e].dir>>].by = e
        BY <1>1 DEF DirHeld
      <4>4. (MayTrade(e)' => MayTrade(e)) /\ (HasDir(e)' => HasDir(e))
        BY <2>1, <4>1 DEF MayTrade, HasDir
      <4> HIDE DEF f
      <4> QED BY <2>1, <3>2, <3>3, <3>4, <4>2, <4>3, <4>4
    <3>6. CASE e = p
      <4>1. pc[e] = "open" /\ pc'[e] = "write"
        BY <1>3, <3>1, <3>6 DEF Open, Can, TypeSteps
      <4>2. MayTrade(e)' => f = <<"acct">>
        BY <2>1, <3>6, <4>1, FileOf DEF MayTrade
      <4>3. want[e] = "dir" => f = <<"dir", args[e].dir>>
        BY <3>6 DEF File
      <4>4. HasDir(e)' => want[e] = "dir" \/ HasDir(e)
        BY <2>1, <4>1 DEF HasDir
      <4>5. HasDir(e) => want[e] = "acct" /\ f = <<"acct">> /\ lock[<<"dir", args[e].dir>>].by = e
        BY <1>1, <3>6, <4>1, FileOf DEF HasDir, DirHeld
      <4>6. <<"acct">> # <<"dir", args[e].dir>>
        OBVIOUS
      <4> HIDE DEF f
      <4> QED BY <2>1, <3>2, <3>4, <3>6, <4>2, <4>3, <4>4, <4>5, <4>6
    <3> QED BY <3>5, <3>6
  <2> QED BY <2>2, <2>3
<1> QED
  BY <1>2, <1>3

\* A process trades, or is about to, alone.
LEMMA OneHolds ==
  ASSUME AcctHeld
  PROVE  OneTrader
<1> SUFFICES ASSUME broken = {}
             PROVE  ~(Cardinality(Running) > 1)
  BY DEF OneTrader
<1>1. \A d, e \in Running : d = e
  BY DEF AcctHeld, MayTrade, Running
<1>2. CASE Running = {}
  BY <1>2, FS_EmptySet
<1>3. CASE Running # {}
  <2>1. PICK d \in Running : Running = {d}
    BY <1>1, <1>3
  <2>2. Cardinality({d}) = 1
    BY FS_Singleton
  <2> QED BY <2>1, <2>2
<1> QED BY <1>2, <1>3

-----------------------------------------------------------------------------
(* The theorems.                                                           *)

\* The initial state: nothing runs, nothing is locked.
LEMMA InitTypes == Init => TypeOK
<1> SUFFICES ASSUME Init
             PROVE  TypeOK
  OBVIOUS
<1>1. 0 \in Ages /\ Old \in Ages
  BY OldIs DEF Ages
<1>2. Unseen \in [lock : LockStates, old : BOOLEAN] /\ Free \in LockStates
  BY DEF Unseen, Free, LockStates
<1>3. TypeFiles
  BY <1>1, <1>2 DEF Init, TypeFiles
<1>4. PICK sc \in Scenarios :
        /\ args = [p \in Procs |-> sc.args[IF p \in Sups THEN p ELSE CHOOSE s \in Sups : TRUE]]
        /\ enrolled = sc.sups /\ faults = sc.faults
  BY DEF Init
<1>5. sc \in [sups : SUBSET Sups, args : [Sups -> [dir : Dirs, port : Ports]], faults : Nat]
  BY SuperviseAssumption
<1>6. TypeSteps
  BY <1>2, <1>4, <1>5, SuperviseAssumption DEF Init, TypeSteps, PCs, Kinds
<1>7. TypeAges
  BY <1>1, SuperviseAssumption DEF Init, TypeAges
<1>8. TypeChild /\ TypeSets
  BY <1>4, <1>5 DEF Init, TypeChild, TypeSets, Procs
<1> QED
  BY <1>3, <1>6, <1>7, <1>8, TypeParts

\* Every step keeps the types.
LEMMA NextTypes == TypeOK /\ [Next]_vars => TypeOK'
<1> SUFFICES ASSUME TypeOK, [Next]_vars
             PROVE  TypeOK'
  OBVIOUS
<1>1. TypeFiles /\ TypeSteps /\ TypeAges /\ TypeChild /\ TypeSets
  BY TypeParts
<1>2. (TypeFiles /\ TypeSteps /\ TypeAges /\ TypeChild /\ TypeSets)'
  BY <1>1, TypeFilesNext, TypeStepsNext, TypeAgesNext, TypeChildNext, TypeSetsNext
<1> QED
  BY <1>2 DEF TypeOK, TypeFiles, TypeSteps, TypeAges, TypeChild, TypeSets, PCs

\* Two daemons that hold the lock of their data-dir do not share it.
LEMMA BeatsApart ==
  ASSUME Phases, DirHeld, broken = {}, NEW d \in Daemons, NEW e \in Daemons, d # e,
         FirstBeat(d) \/ Beat(d), HasDir(e)
  PROVE  args[d].dir # args[e].dir
<1>1. HasDir(d)
  BY DEF FirstBeat, Beat, Can, HasDir, Phases
<1> QED
  BY <1>1 DEF DirHeld

\* A daemon's heartbeat file shows no later tick than the daemon made: nobody else
\* writes it while the data-dir's lock is held.
LEMMA BeatOwnNext ==
  ASSUME TypeOK, TypeFiles, TypeSteps, TypeAges, TypeChild, Phases, DirHeld, BeatOwn, broken = {},
          NEW e \in Daemons, want'[e] = "acct", [Next]_vars
  PROVE  ticked'[e] <= dirBeat'[args'[e].dir].tick
<1> USE DEF TypeFiles, TypeSteps, TypeAges, TypeChild, PCs, Kinds, Procs, files, steps, daemon,
       lazy, sup, Can, Fault, Phases, BeatOwn, BeatOf
<1>1. ASSUME NEW p \in Procs, Open(p)
      PROVE  ticked'[e] <= dirBeat'[args'[e].dir].tick
  BY <1>1 DEF Open
<1>2. ASSUME NEW p \in Procs, Write(p)
      PROVE  ticked'[e] <= dirBeat'[args'[e].dir].tick
  BY <1>2 DEF Write
<1>3. ASSUME NEW p \in Procs, Read(p)
      PROVE  ticked'[e] <= dirBeat'[args'[e].dir].tick
  BY <1>3 DEF Read, GiveUp, Failed
<1>4. ASSUME NEW p \in Procs, Remove(p)
      PROVE  ticked'[e] <= dirBeat'[args'[e].dir].tick
  BY <1>4 DEF Remove, GiveUp, Failed
<1>5. ASSUME NEW p \in Procs, RelRead(p)
      PROVE  ticked'[e] <= dirBeat'[args'[e].dir].tick
  BY <1>5 DEF RelRead, GiveUp, Failed
<1>6. ASSUME NEW p \in Procs, RelRemove(p)
      PROVE  ticked'[e] <= dirBeat'[args'[e].dir].tick
  BY <1>6 DEF RelRemove, GiveUp, Failed
<1>7. ASSUME NEW p \in Procs, Crash(p)
      PROVE  ticked'[e] <= dirBeat'[args'[e].dir].tick
  BY <1>7 DEF Crash, Gone
<1>8. ASSUME NEW p \in Procs, Freeze(p) \/ Thaw(p)
      PROVE  ticked'[e] <= dirBeat'[args'[e].dir].tick
  BY <1>8 DEF Freeze, Thaw
<1>9. ASSUME NEW d \in Daemons, FirstBeat(d)
      PROVE  ticked'[e] <= dirBeat'[args'[e].dir].tick
  <2>1. args[d].dir \in Dirs /\ args[e].dir \in Dirs /\ UNCHANGED <<args, ticked>>
    BY <1>9 DEF FirstBeat
  <2>2. CASE d = e
    BY <1>9, <2>1, <2>2, OldIs DEF FirstBeat, Ages
  <2>3. CASE d # e
    <3>1. want[e] = "acct"
      BY <1>9, <2>3 DEF FirstBeat
    <3>2. args[d].dir # args[e].dir
      BY <1>9, <2>3, <3>1, BeatsApart DEF HasDir
    <3> QED BY <1>9, <2>1, <3>1, <3>2 DEF FirstBeat
  <2> QED BY <2>2, <2>3
<1>10. ASSUME NEW d \in Daemons, Boot(d)
      PROVE  ticked'[e] <= dirBeat'[args'[e].dir].tick
  BY <1>10 DEF Boot
<1>11. ASSUME NEW d \in Daemons, LoopTick(d)
      PROVE  ticked'[e] <= dirBeat'[args'[e].dir].tick
  BY <1>11, OldIs DEF LoopTick, Ages
<1>12. ASSUME NEW d \in Daemons, Beat(d)
      PROVE  ticked'[e] <= dirBeat'[args'[e].dir].tick
  <2>1. args[d].dir \in Dirs /\ args[e].dir \in Dirs /\ UNCHANGED <<args, ticked, want>>
    BY <1>12 DEF Beat
  <2>2. CASE d = e
    <3>1. dirBeat'[args[e].dir].tick = ticked[e] /\ ticked[e] \in Nat
      BY <1>12, <2>1, <2>2, OldIs DEF Beat, Ages
    <3> QED BY <2>1, <3>1
  <2>3. CASE d # e
    <3>1. args[d].dir # args[e].dir
      BY <1>12, <2>1, <2>3, BeatsApart DEF HasDir
    <3> QED BY <1>12, <2>1, <3>1 DEF Beat
  <2> QED BY <2>2, <2>3
<1>13. ASSUME NEW d \in Daemons, Exit(d)
      PROVE  ticked'[e] <= dirBeat'[args'[e].dir].tick
  BY <1>13 DEF Exit
<1>14. ASSUME NEW d \in Daemons, Stick(d) \/ Reuse(d) \/ AlienEnds(d)
      PROVE  ticked'[e] <= dirBeat'[args'[e].dir].tick
  BY <1>14 DEF Stick, Reuse, AlienEnds
<1>15. ASSUME NEW s \in Sups, StartSup(s)
      PROVE  ticked'[e] <= dirBeat'[args'[e].dir].tick
  BY <1>15 DEF StartSup
<1>16. ASSUME NEW s \in Sups, Spawn(s)
      PROVE  ticked'[e] <= dirBeat'[args'[e].dir].tick
  <2>1. PICK d \in FreePids : /\ pc' = [pc EXCEPT ![d] = "open", ![s] = "watch"]
                               /\ want' = [want EXCEPT ![d] = "dir"]
                               /\ args' = [args EXCEPT ![d] = args[s]]
                               /\ up' = [up EXCEPT ![d] = 0]
                               /\ ticked' = [ticked EXCEPT ![d] = Old]
                               /\ stuck' = [stuck EXCEPT ![d] = FALSE]
                               /\ dozed' = dozed \ {d}
    BY <1>16 DEF Spawn
  <2>2. d \in Daemons /\ s \notin Daemons /\ pc[d] = "off" /\ UNCHANGED <<dirBeat, owed, frozen>>
    BY <1>16, SuperviseAssumption DEF Spawn, FreePids
  <2> QED BY <2>1, <2>2
<1>17. ASSUME NEW s \in Sups, ChildExit(s)
      PROVE  ticked'[e] <= dirBeat'[args'[e].dir].tick
  BY <1>17 DEF ChildExit, OnExit
<1>18. ASSUME NEW s \in Sups, WatchTick(s)
      PROVE  ticked'[e] <= dirBeat'[args'[e].dir].tick
  <2>1. CASE Hung(child[s])
    <3>1. /\ pc' = [pc EXCEPT ![s] = "idle", ![child[s]] = "off"] /\ UNCHANGED <<args, dirBeat, up, ticked, stuck, dozed>>
          /\ want' = [p \in Procs |-> IF p \in {child[s]} THEN "dir" ELSE want[p]]
          /\ owed' = owed \ {<<"watch", s>>, <<"loop", child[s]>>, <<"beat", child[s]>>}
          /\ frozen' = frozen \ {child[s]}
      BY <1>18, <2>1 DEF WatchTick, Gone
    <3>2. child[s] \in Daemons /\ s \notin Daemons
      BY <1>18, SuperviseAssumption DEF WatchTick
    <3> QED BY <3>1, <3>2
  <2>2. CASE ~Hung(child[s])
    BY <1>18, <2>2 DEF WatchTick
  <2> QED BY <2>1, <2>2
<1>19. ASSUME NEW s \in Sups, StopSup(s)
      PROVE  ticked'[e] <= dirBeat'[args'[e].dir].tick
  BY <1>19, SuperviseAssumption DEF StopSup, Gone
<1>20. CASE Tick
  <2>1. want[e] = "acct" /\ pc[e] # "off" /\ args[e].dir \in Dirs /\ UNCHANGED args
    BY <1>20 DEF Tick
  <2>2. ticked'[e] = Older(ticked[e]) /\ dirBeat'[args[e].dir].tick = Older(dirBeat[args[e].dir].tick)
    BY <1>20, <2>1 DEF Tick
  <2>3. ticked[e] <= dirBeat[args[e].dir].tick /\ ticked[e] \in Ages /\ dirBeat[args[e].dir].tick \in Ages
    BY <2>1
  <2> QED BY <2>1, <2>2, <2>3, OldIs DEF Older, Ages
<1>21. CASE UNCHANGED vars
  BY <1>21 DEF vars
<1> QED
  BY <1>1, <1>2, <1>3, <1>4, <1>5, <1>6, <1>7, <1>8, <1>9, <1>10, <1>11, <1>12, <1>13, <1>14,
     <1>15, <1>16, <1>17, <1>18, <1>19, <1>20, <1>21 DEF Next, Locking, Work, Supervising

\* Who is suspended does nothing, and is on record.
LEMMA AwakeNext ==
  ASSUME TypeOK, TypeSteps, TypeChild, TypeSets, Awake, [Next]_vars
  PROVE  Awake'
<1> USE SuperviseAssumption DEF TypeSteps, TypeChild, TypeSets, PCs, Procs, Awake, files, steps,
       daemon, lazy, sup, Can, Fault
<1>1. ASSUME NEW p \in Procs, Open(p)
      PROVE  Awake'
  BY <1>1 DEF Open
<1>2. ASSUME NEW p \in Procs, Write(p)
      PROVE  Awake'
  BY <1>2 DEF Write, Got
<1>3. ASSUME NEW p \in Procs, Read(p)
      PROVE  Awake'
  BY <1>3 DEF Read, GiveUp, Failed
<1>4. ASSUME NEW p \in Procs, Remove(p)
      PROVE  Awake'
  BY <1>4 DEF Remove, GiveUp, Failed
<1>5. ASSUME NEW p \in Procs, RelRead(p)
      PROVE  Awake'
  BY <1>5 DEF RelRead, GiveUp, Failed
<1>6. ASSUME NEW p \in Procs, RelRemove(p)
      PROVE  Awake'
  BY <1>6 DEF RelRemove, GiveUp, Failed
<1>7. ASSUME NEW p \in Procs, Crash(p)
      PROVE  Awake'
  BY <1>7 DEF Crash, Gone
<1>8. ASSUME NEW p \in Procs, Freeze(p)
      PROVE  Awake'
  BY <1>8 DEF Freeze
<1>9. ASSUME NEW p \in Procs, Thaw(p)
      PROVE  Awake'
  BY <1>9 DEF Thaw
<1>10. ASSUME NEW d \in Daemons, FirstBeat(d)
      PROVE  Awake'
  BY <1>10 DEF FirstBeat
<1>11. ASSUME NEW d \in Daemons, Boot(d)
      PROVE  Awake'
  BY <1>11 DEF Boot
<1>12. ASSUME NEW d \in Daemons, Exit(d)
      PROVE  Awake'
  BY <1>12 DEF Exit
<1>13. ASSUME NEW d \in Daemons, LoopTick(d) \/ Beat(d) \/ Stick(d) \/ Reuse(d) \/ AlienEnds(d)
      PROVE  Awake'
  BY <1>13 DEF LoopTick, Beat, Stick, Reuse, AlienEnds
<1>14. ASSUME NEW s \in Sups, StartSup(s)
      PROVE  Awake'
  BY <1>14 DEF StartSup
<1>15. ASSUME NEW s \in Sups, Spawn(s)
      PROVE  Awake'
  <2>1. PICK d \in FreePids : /\ pc' = [pc EXCEPT ![d] = "open", ![s] = "watch"]
                               /\ want' = [want EXCEPT ![d] = "dir"]
                               /\ args' = [args EXCEPT ![d] = args[s]]
                               /\ up' = [up EXCEPT ![d] = 0]
                               /\ ticked' = [ticked EXCEPT ![d] = Old]
                               /\ stuck' = [stuck EXCEPT ![d] = FALSE]
                               /\ dozed' = dozed \ {d}
    BY <1>15 DEF Spawn
  <2>2. d \in Daemons /\ s \notin Daemons /\ pc[d] = "off" /\ UNCHANGED <<dirBeat, owed, frozen>>
    BY <1>15, SuperviseAssumption DEF Spawn, FreePids
  <2> QED BY <2>1, <2>2
<1>16. ASSUME NEW s \in Sups, ChildExit(s)
      PROVE  Awake'
  BY <1>16 DEF ChildExit, OnExit
<1>17. ASSUME NEW s \in Sups, WatchTick(s)
      PROVE  Awake'
  <2>1. CASE Hung(child[s])
    <3>1. /\ pc' = [pc EXCEPT ![s] = "idle", ![child[s]] = "off"] /\ UNCHANGED <<args, dirBeat, up, ticked, stuck, dozed>>
          /\ want' = [p \in Procs |-> IF p \in {child[s]} THEN "dir" ELSE want[p]]
          /\ owed' = owed \ {<<"watch", s>>, <<"loop", child[s]>>, <<"beat", child[s]>>}
          /\ frozen' = frozen \ {child[s]}
      BY <1>17, <2>1 DEF WatchTick, Gone
    <3>2. child[s] \in Daemons /\ s \notin Daemons
      BY <1>17, SuperviseAssumption DEF WatchTick
    <3> QED BY <3>1, <3>2
  <2>2. CASE ~Hung(child[s])
    BY <1>17, <2>2 DEF WatchTick
  <2> QED BY <2>1, <2>2
<1>18. ASSUME NEW s \in Sups, StopSup(s)
      PROVE  Awake'
  BY <1>18 DEF StopSup, Gone
<1>19. CASE Tick
  BY <1>19 DEF Tick
<1>20. CASE UNCHANGED vars
  BY <1>20 DEF vars
<1> QED
  BY <1>1, <1>2, <1>3, <1>4, <1>5, <1>6, <1>7, <1>8, <1>9, <1>10, <1>11, <1>12, <1>13, <1>14,
     <1>15, <1>16, <1>17, <1>18, <1>19, <1>20 DEF Next, Locking, Work, Supervising

\* What is to be done before a daemon trades is done in the minute it was started in.
LEMMA YoungNext ==
  ASSUME TypeOK, TypeFiles, TypeSteps, TypeAges, TypeChild, Phases, Awake, Young, broken' = {} =>
          broken = {}, NEW e \in Daemons \ dozed', pc'[e] \in {"open", "write", "read", "remove",
          "beat", "boot"}, [Next]_vars
  PROVE  up'[e] = 0 /\ (want'[e] = "acct" /\ broken' = {} => dirBeat'[args'[e].dir].ts = 0)
<1> USE SuperviseAssumption DEF TypeFiles, TypeSteps, TypeAges, TypeChild, PCs, Kinds, Procs,
       files, steps, daemon, lazy, sup, Can, Fault, Phases, Young, BeatOf
<1>1. ASSUME NEW p \in Procs, Open(p)
      PROVE  up'[e] = 0 /\ (want'[e] = "acct" /\ broken' = {} => dirBeat'[args'[e].dir].ts = 0)
  BY <1>1 DEF Open
<1>2. ASSUME NEW p \in Procs, Write(p)
      PROVE  up'[e] = 0 /\ (want'[e] = "acct" /\ broken' = {} => dirBeat'[args'[e].dir].ts = 0)
  BY <1>2 DEF Write, Got
<1>3. ASSUME NEW p \in Procs, Read(p)
      PROVE  up'[e] = 0 /\ (want'[e] = "acct" /\ broken' = {} => dirBeat'[args'[e].dir].ts = 0)
  BY <1>3 DEF Read, GiveUp, Failed
<1>4. ASSUME NEW p \in Procs, Remove(p)
      PROVE  up'[e] = 0 /\ (want'[e] = "acct" /\ broken' = {} => dirBeat'[args'[e].dir].ts = 0)
  BY <1>4 DEF Remove, GiveUp, Failed
<1>5. ASSUME NEW p \in Procs, RelRead(p)
      PROVE  up'[e] = 0 /\ (want'[e] = "acct" /\ broken' = {} => dirBeat'[args'[e].dir].ts = 0)
  BY <1>5 DEF RelRead, GiveUp, Failed
<1>6. ASSUME NEW p \in Procs, RelRemove(p)
      PROVE  up'[e] = 0 /\ (want'[e] = "acct" /\ broken' = {} => dirBeat'[args'[e].dir].ts = 0)
  BY <1>6 DEF RelRemove, GiveUp, Failed
<1>7. ASSUME NEW p \in Procs, Crash(p)
      PROVE  up'[e] = 0 /\ (want'[e] = "acct" /\ broken' = {} => dirBeat'[args'[e].dir].ts = 0)
  BY <1>7 DEF Crash, Gone
<1>8. ASSUME NEW p \in Procs, Freeze(p) \/ Thaw(p)
      PROVE  up'[e] = 0 /\ (want'[e] = "acct" /\ broken' = {} => dirBeat'[args'[e].dir].ts = 0)
  BY <1>8 DEF Freeze, Thaw
<1>9. ASSUME NEW d \in Daemons, FirstBeat(d)
      PROVE  up'[e] = 0 /\ (want'[e] = "acct" /\ broken' = {} => dirBeat'[args'[e].dir].ts = 0)
  BY <1>9 DEF FirstBeat
<1>10. ASSUME NEW d \in Daemons, Boot(d)
      PROVE  up'[e] = 0 /\ (want'[e] = "acct" /\ broken' = {} => dirBeat'[args'[e].dir].ts = 0)
  BY <1>10 DEF Boot
<1>11. ASSUME NEW d \in Daemons, Beat(d)
      PROVE  up'[e] = 0 /\ (want'[e] = "acct" /\ broken' = {} => dirBeat'[args'[e].dir].ts = 0)
  BY <1>11 DEF Beat
<1>12. ASSUME NEW d \in Daemons, Exit(d)
      PROVE  up'[e] = 0 /\ (want'[e] = "acct" /\ broken' = {} => dirBeat'[args'[e].dir].ts = 0)
  BY <1>12 DEF Exit
<1>13. ASSUME NEW d \in Daemons, LoopTick(d) \/ Stick(d) \/ Reuse(d) \/ AlienEnds(d)
      PROVE  up'[e] = 0 /\ (want'[e] = "acct" /\ broken' = {} => dirBeat'[args'[e].dir].ts = 0)
  BY <1>13 DEF LoopTick, Stick, Reuse, AlienEnds
<1>14. ASSUME NEW s \in Sups, StartSup(s)
      PROVE  up'[e] = 0 /\ (want'[e] = "acct" /\ broken' = {} => dirBeat'[args'[e].dir].ts = 0)
  BY <1>14 DEF StartSup
<1>15. ASSUME NEW s \in Sups, Spawn(s)
      PROVE  up'[e] = 0 /\ (want'[e] = "acct" /\ broken' = {} => dirBeat'[args'[e].dir].ts = 0)
  <2>1. PICK d \in FreePids : /\ pc' = [pc EXCEPT ![d] = "open", ![s] = "watch"]
                               /\ want' = [want EXCEPT ![d] = "dir"]
                               /\ args' = [args EXCEPT ![d] = args[s]]
                               /\ up' = [up EXCEPT ![d] = 0]
                               /\ ticked' = [ticked EXCEPT ![d] = Old]
                               /\ stuck' = [stuck EXCEPT ![d] = FALSE]
                               /\ dozed' = dozed \ {d}
    BY <1>15 DEF Spawn
  <2>2. d \in Daemons /\ s \notin Daemons /\ pc[d] = "off" /\ UNCHANGED <<dirBeat, owed, frozen>>
    BY <1>15, SuperviseAssumption DEF Spawn, FreePids
  <2> QED BY <2>1, <2>2
<1>16. ASSUME NEW s \in Sups, ChildExit(s)
      PROVE  up'[e] = 0 /\ (want'[e] = "acct" /\ broken' = {} => dirBeat'[args'[e].dir].ts = 0)
  BY <1>16 DEF ChildExit, OnExit
<1>17. ASSUME NEW s \in Sups, WatchTick(s)
      PROVE  up'[e] = 0 /\ (want'[e] = "acct" /\ broken' = {} => dirBeat'[args'[e].dir].ts = 0)
  <2>1. CASE Hung(child[s])
    <3>1. /\ pc' = [pc EXCEPT ![s] = "idle", ![child[s]] = "off"] /\ UNCHANGED <<args, dirBeat, up, ticked, stuck, dozed>>
          /\ want' = [p \in Procs |-> IF p \in {child[s]} THEN "dir" ELSE want[p]]
          /\ owed' = owed \ {<<"watch", s>>, <<"loop", child[s]>>, <<"beat", child[s]>>}
          /\ frozen' = frozen \ {child[s]}
      BY <1>17, <2>1 DEF WatchTick, Gone
    <3>2. child[s] \in Daemons /\ s \notin Daemons
      BY <1>17, SuperviseAssumption DEF WatchTick
    <3> QED BY <3>1, <3>2
  <2>2. CASE ~Hung(child[s])
    BY <1>17, <2>2 DEF WatchTick
  <2> QED BY <2>1, <2>2
<1>18. ASSUME NEW s \in Sups, StopSup(s)
      PROVE  up'[e] = 0 /\ (want'[e] = "acct" /\ broken' = {} => dirBeat'[args'[e].dir].ts = 0)
  BY <1>18 DEF StopSup, Gone
<1>19. CASE Tick
  <2>1. pc[e] = pc'[e] /\ e \notin frozen
    BY <1>19 DEF Tick, Awake
  <2> QED BY <1>19, <2>1 DEF Tick
<1>20. CASE UNCHANGED vars
  BY <1>20 DEF vars
<1> QED
  BY <1>1, <1>2, <1>3, <1>4, <1>5, <1>6, <1>7, <1>8, <1>9, <1>10, <1>11, <1>12, <1>13, <1>14,
     <1>15, <1>16, <1>17, <1>18, <1>19, <1>20 DEF Next, Locking, Work, Supervising

\* A daemon that neither hangs nor was suspended ticks and beats in every minute.
LEMMA HealthyNext ==
  ASSUME TypeOK, TypeFiles, TypeSteps, TypeAges, TypeChild, Phases, DirHeld, Awake, Young,
          Healthy, broken = {}, NEW e \in Daemons, e \notin dozed', pc'[e] = "run", ~stuck'[e],
          [Next]_vars
  PROVE  /\ ticked'[e] <= 1 \/ up'[e] = 0
         /\ dirBeat'[args'[e].dir].ts <= 1
         /\ dirBeat'[args'[e].dir].tick <= 2 \/ up'[e] <= 1
         /\ <<"loop", e>> \notin owed' => ticked'[e] = 0
         /\ <<"beat", e>> \notin owed' => /\ dirBeat'[args'[e].dir].ts = 0
                                          /\ dirBeat'[args'[e].dir].tick <= 1 \/ up'[e] = 0
<1> USE SuperviseAssumption DEF TypeFiles, TypeSteps, TypeAges, TypeChild, PCs, Kinds, Procs,
       files, steps, daemon, lazy, sup, Can, Fault, Phases, Healthy, BeatOf
<1>1. ASSUME NEW p \in Procs, Open(p)
      PROVE  /\ ticked'[e] <= 1 \/ up'[e] = 0
             /\ dirBeat'[args'[e].dir].ts <= 1
             /\ dirBeat'[args'[e].dir].tick <= 2 \/ up'[e] <= 1
             /\ <<"loop", e>> \notin owed' => ticked'[e] = 0
             /\ <<"beat", e>> \notin owed' => /\ dirBeat'[args'[e].dir].ts = 0
                                              /\ dirBeat'[args'[e].dir].tick <= 1 \/ up'[e] = 0
  BY <1>1 DEF Open
<1>2. ASSUME NEW p \in Procs, Write(p)
      PROVE  /\ ticked'[e] <= 1 \/ up'[e] = 0
             /\ dirBeat'[args'[e].dir].ts <= 1
             /\ dirBeat'[args'[e].dir].tick <= 2 \/ up'[e] <= 1
             /\ <<"loop", e>> \notin owed' => ticked'[e] = 0
             /\ <<"beat", e>> \notin owed' => /\ dirBeat'[args'[e].dir].ts = 0
                                              /\ dirBeat'[args'[e].dir].tick <= 1 \/ up'[e] = 0
  BY <1>2 DEF Write, Got
<1>3. ASSUME NEW p \in Procs, Read(p)
      PROVE  /\ ticked'[e] <= 1 \/ up'[e] = 0
             /\ dirBeat'[args'[e].dir].ts <= 1
             /\ dirBeat'[args'[e].dir].tick <= 2 \/ up'[e] <= 1
             /\ <<"loop", e>> \notin owed' => ticked'[e] = 0
             /\ <<"beat", e>> \notin owed' => /\ dirBeat'[args'[e].dir].ts = 0
                                              /\ dirBeat'[args'[e].dir].tick <= 1 \/ up'[e] = 0
  BY <1>3 DEF Read, GiveUp, Failed
<1>4. ASSUME NEW p \in Procs, Remove(p)
      PROVE  /\ ticked'[e] <= 1 \/ up'[e] = 0
             /\ dirBeat'[args'[e].dir].ts <= 1
             /\ dirBeat'[args'[e].dir].tick <= 2 \/ up'[e] <= 1
             /\ <<"loop", e>> \notin owed' => ticked'[e] = 0
             /\ <<"beat", e>> \notin owed' => /\ dirBeat'[args'[e].dir].ts = 0
                                              /\ dirBeat'[args'[e].dir].tick <= 1 \/ up'[e] = 0
  BY <1>4 DEF Remove, GiveUp, Failed
<1>5. ASSUME NEW p \in Procs, RelRead(p)
      PROVE  /\ ticked'[e] <= 1 \/ up'[e] = 0
             /\ dirBeat'[args'[e].dir].ts <= 1
             /\ dirBeat'[args'[e].dir].tick <= 2 \/ up'[e] <= 1
             /\ <<"loop", e>> \notin owed' => ticked'[e] = 0
             /\ <<"beat", e>> \notin owed' => /\ dirBeat'[args'[e].dir].ts = 0
                                              /\ dirBeat'[args'[e].dir].tick <= 1 \/ up'[e] = 0
  BY <1>5 DEF RelRead, GiveUp, Failed
<1>6. ASSUME NEW p \in Procs, RelRemove(p)
      PROVE  /\ ticked'[e] <= 1 \/ up'[e] = 0
             /\ dirBeat'[args'[e].dir].ts <= 1
             /\ dirBeat'[args'[e].dir].tick <= 2 \/ up'[e] <= 1
             /\ <<"loop", e>> \notin owed' => ticked'[e] = 0
             /\ <<"beat", e>> \notin owed' => /\ dirBeat'[args'[e].dir].ts = 0
                                              /\ dirBeat'[args'[e].dir].tick <= 1 \/ up'[e] = 0
  BY <1>6 DEF RelRemove, GiveUp, Failed
<1>7. ASSUME NEW p \in Procs, Crash(p)
      PROVE  /\ ticked'[e] <= 1 \/ up'[e] = 0
             /\ dirBeat'[args'[e].dir].ts <= 1
             /\ dirBeat'[args'[e].dir].tick <= 2 \/ up'[e] <= 1
             /\ <<"loop", e>> \notin owed' => ticked'[e] = 0
             /\ <<"beat", e>> \notin owed' => /\ dirBeat'[args'[e].dir].ts = 0
                                              /\ dirBeat'[args'[e].dir].tick <= 1 \/ up'[e] = 0
  BY <1>7 DEF Crash, Gone
<1>8. ASSUME NEW p \in Procs, Freeze(p) \/ Thaw(p)
      PROVE  /\ ticked'[e] <= 1 \/ up'[e] = 0
             /\ dirBeat'[args'[e].dir].ts <= 1
             /\ dirBeat'[args'[e].dir].tick <= 2 \/ up'[e] <= 1
             /\ <<"loop", e>> \notin owed' => ticked'[e] = 0
             /\ <<"beat", e>> \notin owed' => /\ dirBeat'[args'[e].dir].ts = 0
                                              /\ dirBeat'[args'[e].dir].tick <= 1 \/ up'[e] = 0
  BY <1>8 DEF Freeze, Thaw
<1>9. ASSUME NEW d \in Daemons, FirstBeat(d)
      PROVE  /\ ticked'[e] <= 1 \/ up'[e] = 0
             /\ dirBeat'[args'[e].dir].ts <= 1
             /\ dirBeat'[args'[e].dir].tick <= 2 \/ up'[e] <= 1
             /\ <<"loop", e>> \notin owed' => ticked'[e] = 0
             /\ <<"beat", e>> \notin owed' => /\ dirBeat'[args'[e].dir].ts = 0
                                              /\ dirBeat'[args'[e].dir].tick <= 1 \/ up'[e] = 0
  <2>1. UNCHANGED <<args, stuck, up, ticked, owed>> /\ pc[e] = "run" /\ e \notin dozed /\ d # e
    BY <1>9 DEF FirstBeat
  <2>2. args[d].dir # args[e].dir
    BY <1>9, <2>1, BeatsApart DEF HasDir
  <2>3. dirBeat'[args[e].dir] = dirBeat[args[e].dir]
    BY <1>9, <2>2 DEF FirstBeat
  <2> QED BY <2>1, <2>3
<1>10. ASSUME NEW d \in Daemons, Boot(d)
      PROVE  /\ ticked'[e] <= 1 \/ up'[e] = 0
             /\ dirBeat'[args'[e].dir].ts <= 1
             /\ dirBeat'[args'[e].dir].tick <= 2 \/ up'[e] <= 1
             /\ <<"loop", e>> \notin owed' => ticked'[e] = 0
             /\ <<"beat", e>> \notin owed' => /\ dirBeat'[args'[e].dir].ts = 0
                                              /\ dirBeat'[args'[e].dir].tick <= 1 \/ up'[e] = 0
  <2>1. UNCHANGED <<args, stuck, up, ticked, dirBeat, dozed, want>> /\ (pc[e] = "run" \/ (d = e /\ pc[e] = "boot"))
    BY <1>10 DEF Boot
  <2>2. \A x : x \in owed => x \in owed'
    BY <1>10 DEF Boot
  <2>3. CASE pc[e] = "run"
    BY <2>1, <2>2, <2>3
  <2>4. CASE d = e /\ pc[e] = "boot"
    <3>1. <<"loop", e>> \in owed' /\ <<"beat", e>> \in owed'
      BY <1>10, <2>4 DEF Boot
    <3>2. up[e] = 0 /\ dirBeat[args[e].dir].ts = 0
      BY <2>1, <2>4 DEF Young
    <3> QED BY <2>1, <3>1, <3>2
  <2> QED BY <2>1, <2>3, <2>4
<1>11. ASSUME NEW d \in Daemons, LoopTick(d)
      PROVE  /\ ticked'[e] <= 1 \/ up'[e] = 0
             /\ dirBeat'[args'[e].dir].ts <= 1
             /\ dirBeat'[args'[e].dir].tick <= 2 \/ up'[e] <= 1
             /\ <<"loop", e>> \notin owed' => ticked'[e] = 0
             /\ <<"beat", e>> \notin owed' => /\ dirBeat'[args'[e].dir].ts = 0
                                              /\ dirBeat'[args'[e].dir].tick <= 1 \/ up'[e] = 0
  <2>1. UNCHANGED <<args, stuck, up, dirBeat>> /\ pc[e] = "run" /\ e \notin dozed
    BY <1>11 DEF LoopTick
  <2>2. ticked'[e] = (IF d = e THEN 0 ELSE ticked[e])
    BY <1>11, <2>1 DEF LoopTick
  <2>3. <<"beat", e>> \notin owed' => <<"beat", e>> \notin owed
    BY <1>11 DEF LoopTick
  <2>4. d # e => (<<"loop", e>> \notin owed' => <<"loop", e>> \notin owed)
    BY <1>11 DEF LoopTick
  <2> QED BY <2>1, <2>2, <2>3, <2>4
<1>12. ASSUME NEW d \in Daemons, Beat(d)
      PROVE  /\ ticked'[e] <= 1 \/ up'[e] = 0
             /\ dirBeat'[args'[e].dir].ts <= 1
             /\ dirBeat'[args'[e].dir].tick <= 2 \/ up'[e] <= 1
             /\ <<"loop", e>> \notin owed' => ticked'[e] = 0
             /\ <<"beat", e>> \notin owed' => /\ dirBeat'[args'[e].dir].ts = 0
                                              /\ dirBeat'[args'[e].dir].tick <= 1 \/ up'[e] = 0
  <2>1. UNCHANGED <<args, stuck, up, ticked>> /\ pc[e] = "run" /\ e \notin dozed
    BY <1>12 DEF Beat
  <2>2. CASE d = e
    <3>1. dirBeat'[args[e].dir] = [ts |-> 0, tick |-> ticked[e]]
      BY <1>12, <2>2 DEF Beat
    <3>2. ticked[e] \in Nat /\ up[e] \in Nat
      BY OldIs DEF Ages
    <3>3. <<"loop", e>> \notin owed' => <<"loop", e>> \notin owed
      BY <1>12 DEF Beat
    <3> QED BY <2>1, <3>1, <3>2, <3>3
  <2>3. CASE d # e
    <3>1. args[d].dir # args[e].dir
      BY <1>12, <2>1, <2>3, BeatsApart DEF HasDir
    <3>2. dirBeat'[args[e].dir] = dirBeat[args[e].dir]
      BY <1>12, <3>1 DEF Beat
    <3>3. \A k \in {"loop", "beat"} : <<k, e>> \notin owed' => <<k, e>> \notin owed
      BY <1>12, <2>3 DEF Beat
    <3> QED BY <2>1, <3>2, <3>3
  <2> QED BY <2>2, <2>3
<1>13. ASSUME NEW d \in Daemons, Exit(d)
      PROVE  /\ ticked'[e] <= 1 \/ up'[e] = 0
             /\ dirBeat'[args'[e].dir].ts <= 1
             /\ dirBeat'[args'[e].dir].tick <= 2 \/ up'[e] <= 1
             /\ <<"loop", e>> \notin owed' => ticked'[e] = 0
             /\ <<"beat", e>> \notin owed' => /\ dirBeat'[args'[e].dir].ts = 0
                                              /\ dirBeat'[args'[e].dir].tick <= 1 \/ up'[e] = 0
  <2>1. UNCHANGED <<args, stuck, up, ticked, dirBeat>> /\ pc[e] = "run" /\ e \notin dozed /\ d # e
    BY <1>13 DEF Exit
  <2>2. \A k \in {"loop", "beat"} : <<k, e>> \notin owed' => <<k, e>> \notin owed
    BY <1>13, <2>1 DEF Exit
  <2> QED BY <2>1, <2>2
<1>14. ASSUME NEW d \in Daemons, Stick(d) \/ Reuse(d) \/ AlienEnds(d)
      PROVE  /\ ticked'[e] <= 1 \/ up'[e] = 0
             /\ dirBeat'[args'[e].dir].ts <= 1
             /\ dirBeat'[args'[e].dir].tick <= 2 \/ up'[e] <= 1
             /\ <<"loop", e>> \notin owed' => ticked'[e] = 0
             /\ <<"beat", e>> \notin owed' => /\ dirBeat'[args'[e].dir].ts = 0
                                              /\ dirBeat'[args'[e].dir].tick <= 1 \/ up'[e] = 0
  BY <1>14 DEF Stick, Reuse, AlienEnds
<1>15. ASSUME NEW s \in Sups, StartSup(s)
      PROVE  /\ ticked'[e] <= 1 \/ up'[e] = 0
             /\ dirBeat'[args'[e].dir].ts <= 1
             /\ dirBeat'[args'[e].dir].tick <= 2 \/ up'[e] <= 1
             /\ <<"loop", e>> \notin owed' => ticked'[e] = 0
             /\ <<"beat", e>> \notin owed' => /\ dirBeat'[args'[e].dir].ts = 0
                                              /\ dirBeat'[args'[e].dir].tick <= 1 \/ up'[e] = 0
  BY <1>15 DEF StartSup
<1>16. ASSUME NEW s \in Sups, Spawn(s)
      PROVE  /\ ticked'[e] <= 1 \/ up'[e] = 0
             /\ dirBeat'[args'[e].dir].ts <= 1
             /\ dirBeat'[args'[e].dir].tick <= 2 \/ up'[e] <= 1
             /\ <<"loop", e>> \notin owed' => ticked'[e] = 0
             /\ <<"beat", e>> \notin owed' => /\ dirBeat'[args'[e].dir].ts = 0
                                              /\ dirBeat'[args'[e].dir].tick <= 1 \/ up'[e] = 0
  <2>1. PICK d \in FreePids : /\ pc' = [pc EXCEPT ![d] = "open", ![s] = "watch"]
                               /\ want' = [want EXCEPT ![d] = "dir"]
                               /\ args' = [args EXCEPT ![d] = args[s]]
                               /\ up' = [up EXCEPT ![d] = 0]
                               /\ ticked' = [ticked EXCEPT ![d] = Old]
                               /\ stuck' = [stuck EXCEPT ![d] = FALSE]
                               /\ dozed' = dozed \ {d}
    BY <1>16 DEF Spawn
  <2>2. d \in Daemons /\ s \notin Daemons /\ pc[d] = "off" /\ UNCHANGED <<dirBeat, owed, frozen>>
    BY <1>16, SuperviseAssumption DEF Spawn, FreePids
  <2> QED BY <2>1, <2>2
<1>17. ASSUME NEW s \in Sups, ChildExit(s)
      PROVE  /\ ticked'[e] <= 1 \/ up'[e] = 0
             /\ dirBeat'[args'[e].dir].ts <= 1
             /\ dirBeat'[args'[e].dir].tick <= 2 \/ up'[e] <= 1
             /\ <<"loop", e>> \notin owed' => ticked'[e] = 0
             /\ <<"beat", e>> \notin owed' => /\ dirBeat'[args'[e].dir].ts = 0
                                              /\ dirBeat'[args'[e].dir].tick <= 1 \/ up'[e] = 0
  BY <1>17 DEF ChildExit, OnExit
<1>18. ASSUME NEW s \in Sups, WatchTick(s)
      PROVE  /\ ticked'[e] <= 1 \/ up'[e] = 0
             /\ dirBeat'[args'[e].dir].ts <= 1
             /\ dirBeat'[args'[e].dir].tick <= 2 \/ up'[e] <= 1
             /\ <<"loop", e>> \notin owed' => ticked'[e] = 0
             /\ <<"beat", e>> \notin owed' => /\ dirBeat'[args'[e].dir].ts = 0
                                              /\ dirBeat'[args'[e].dir].tick <= 1 \/ up'[e] = 0
  <2>1. CASE Hung(child[s])
    <3>1. /\ pc' = [pc EXCEPT ![s] = "idle", ![child[s]] = "off"] /\ UNCHANGED <<args, dirBeat, up, ticked, stuck, dozed>>
          /\ want' = [p \in Procs |-> IF p \in {child[s]} THEN "dir" ELSE want[p]]
          /\ owed' = owed \ {<<"watch", s>>, <<"loop", child[s]>>, <<"beat", child[s]>>}
          /\ frozen' = frozen \ {child[s]}
      BY <1>18, <2>1 DEF WatchTick, Gone
    <3>2. child[s] \in Daemons /\ s \notin Daemons
      BY <1>18, SuperviseAssumption DEF WatchTick
    <3> QED BY <3>1, <3>2
  <2>2. CASE ~Hung(child[s])
    BY <1>18, <2>2 DEF WatchTick
  <2> QED BY <2>1, <2>2
<1>19. ASSUME NEW s \in Sups, StopSup(s)
      PROVE  /\ ticked'[e] <= 1 \/ up'[e] = 0
             /\ dirBeat'[args'[e].dir].ts <= 1
             /\ dirBeat'[args'[e].dir].tick <= 2 \/ up'[e] <= 1
             /\ <<"loop", e>> \notin owed' => ticked'[e] = 0
             /\ <<"beat", e>> \notin owed' => /\ dirBeat'[args'[e].dir].ts = 0
                                              /\ dirBeat'[args'[e].dir].tick <= 1 \/ up'[e] = 0
  BY <1>19 DEF StopSup, Gone
<1>20. CASE Tick
  <2>1. /\ UNCHANGED <<args, pc, dozed>> /\ pc[e] = "run" /\ e \notin dozed /\ ~stuck[e] /\ args[e].dir \in Dirs
        /\ owed = {} /\ e \notin frozen
    BY <1>20 DEF Tick, Awake
  <2>2. ticked[e] = 0 /\ dirBeat[args[e].dir].ts = 0 /\ (dirBeat[args[e].dir].tick <= 1 \/ up[e] = 0)
    BY <2>1
  <2>3. /\ ticked'[e] = Older(ticked[e]) /\ up'[e] = Older(up[e])
        /\ dirBeat'[args[e].dir].ts = Older(dirBeat[args[e].dir].ts)
        /\ dirBeat'[args[e].dir].tick = Older(dirBeat[args[e].dir].tick)
    BY <1>20, <2>1 DEF Tick
  <2>4. up[e] \in Ages /\ dirBeat[args[e].dir].tick \in Ages
    BY <2>1
  <2>5. <<"loop", e>> \in Periodic /\ <<"beat", e>> \in Periodic
    BY <2>1 DEF Periodic, Running
  <2>6. <<"loop", e>> \in owed' /\ <<"beat", e>> \in owed'
    BY <1>20, <2>1, <2>5 DEF Tick
  <2>7. ticked'[e] <= 1 /\ dirBeat'[args[e].dir].ts <= 1
    BY <2>2, <2>3, OldIs DEF Older
  <2>8. dirBeat'[args[e].dir].tick <= 2 \/ up'[e] <= 1
    BY <2>2, <2>3, <2>4, OldIs DEF Older, Ages
  <2> QED BY <2>1, <2>6, <2>7, <2>8
<1>21. CASE UNCHANGED vars
  BY <1>21 DEF vars
<1> QED
  BY <1>1, <1>2, <1>3, <1>4, <1>5, <1>6, <1>7, <1>8, <1>9, <1>10, <1>11, <1>12, <1>13, <1>14,
     <1>15, <1>16, <1>17, <1>18, <1>19, <1>20, <1>21 DEF Next, Locking, Work, Supervising

-----------------------------------------------------------------------------
(* The invariant.                                                          *)

\* At the start nobody holds anything.
LEMMA InitSInv == Init => SInv
<1> SUFFICES ASSUME Init
             PROVE  SInv
  OBVIOUS
<1>1. Phases
  BY SuperviseAssumption DEF Init, Phases, Procs
<1>2. AcctHeld /\ DirHeld /\ BeatOwn
  BY DEF Init, AcctHeld, DirHeld, BeatOwn, MayTrade, HasDir, Procs
<1>3. Awake /\ Young /\ Healthy
  BY DEF Init, Awake, Young, Healthy, Procs
<1> QED
  BY <1>1, <1>2, <1>3, InitTypes DEF SInv

\* Every step keeps the invariant.
LEMMA NextSInv == SInv /\ [Next]_vars => SInv'
<1> SUFFICES ASSUME SInv, [Next]_vars
             PROVE  SInv'
  OBVIOUS
<1>1. /\ TypeOK /\ TypeFiles /\ TypeSteps /\ TypeAges /\ TypeChild /\ TypeSets
      /\ Phases /\ AcctHeld /\ DirHeld /\ BeatOwn /\ Awake /\ Young /\ Healthy
  BY TypeParts DEF SInv
<1>2. TypeOK' /\ Phases' /\ Awake'
  BY <1>1, NextTypes, PhasesNext, AwakeNext
<1>3. AcctHeld' /\ DirHeld'
  BY <1>1, HeldNext
<1>4. broken' = {} => broken = {}
  BY LostStays
<1>5. BeatOwn'
  BY <1>1, <1>4, BeatOwnNext DEF BeatOwn, BeatOf
<1>6. Young'
  BY <1>1, <1>4, YoungNext DEF Young, BeatOf
<1>7. Healthy'
  BY <1>1, <1>4, HealthyNext DEF Healthy, BeatOf
<1> QED
  BY <1>2, <1>3, <1>5, <1>6, <1>7 DEF SInv

\* The invariant holds in every state that is reached.
THEOREM Invariance == Spec => []SInv
  BY InitSInv, NextSInv, PTL DEF Spec

\* Every variable keeps its type.
THEOREM TypeCorrect == Spec => []TypeOK
<1>1. SInv => TypeOK
  BY DEF SInv
<1> QED
  BY <1>1, Invariance, PTL

\* However many processes are started, crash, hang, are suspended or get the pid of a
\* dead one: two daemons never trade at once before the lock of a live process was
\* lost in one of the three ways that OneTrader names.
THEOREM TradesAlone == Spec => []OneTrader
<1>1. SInv => OneTrader
  BY OneHolds DEF SInv
<1> QED
  BY <1>1, Invariance, PTL

-----------------------------------------------------------------------------
(* What a check of a supervisor does.                                      *)

\* A daemon that a check does not find hung ticked, or started, within the limits:
\* within the grace period its start is that young, and later its heartbeat file,
\* which nobody else writes, shows a tick that is.
LEMMA PassedIsLive ==
  ASSUME TypeFiles, TypeSteps, TypeAges, BeatOwn, broken = {},
         NEW d \in Daemons, want[d] = "acct", ~Hung(d)
  PROVE  Silent(d) <= Max({Grace, Hang})
<1>1. ticked[d] \in Nat /\ up[d] \in Nat /\ dirBeat[args[d].dir].tick \in Nat
  BY DEF TypeFiles, TypeSteps, TypeAges, Procs, Ages
<1>2. ticked[d] <= dirBeat[args[d].dir].tick
  BY DEF BeatOwn, BeatOf
<1>3. Grace \in Nat /\ Hang \in Nat
  BY SuperviseAssumption
<1>4. CASE up[d] < Grace
  BY <1>1, <1>3, <1>4, OldIs DEF Silent
<1>5. CASE ~(up[d] < Grace)
  <2>1. dirBeat[args[d].dir].tick <= Hang
    BY <1>1, <1>3, <1>5 DEF Hung
  <2> QED BY <1>1, <1>2, <1>3, <2>1, OldIs DEF Silent
<1> QED BY <1>4, <1>5

\* A check that leaves its daemon alone has found it alive within the limits.
LEMMA NoHungNext ==
  ASSUME TypeOK, TypeFiles, TypeSteps, TypeAges, TypeChild, BeatOwn, broken = {}, NEW t \in Sups,
          <<"watch", t>> \in owed, <<"watch", t>> \notin owed', t \notin frozen', pc'[t] =
          "watch", want[child[t]] = "acct", [Next]_vars
  PROVE  Silent(child[t]) <= Max({Grace, Hang})
<1> USE DEF TypeFiles, TypeSteps, TypeAges, TypeChild, PCs, Kinds, Procs, files, steps, daemon,
       lazy, sup, Can, Fault
<1>1. ASSUME NEW p \in Procs, Crash(p)
      PROVE  Silent(child[t]) <= Max({Grace, Hang})
  BY <1>1 DEF Crash, Gone
<1>2. ASSUME NEW p \in Procs, Freeze(p)
      PROVE  Silent(child[t]) <= Max({Grace, Hang})
  BY <1>2 DEF Freeze
<1>3. ASSUME NEW p \in Procs, Thaw(p)
      PROVE  Silent(child[t]) <= Max({Grace, Hang})
  BY <1>3 DEF Thaw
<1>4. ASSUME NEW p \in Procs, Open(p) \/ Write(p) \/ Read(p) \/ Remove(p) \/ RelRead(p) \/
             RelRemove(p)
      PROVE  Silent(child[t]) <= Max({Grace, Hang})
  BY <1>4 DEF Open, Write, Read, Remove, RelRead, RelRemove, GiveUp
<1>5. ASSUME NEW d \in Daemons, FirstBeat(d) \/ Boot(d) \/ LoopTick(d) \/ Beat(d) \/ Exit(d) \/
             Stick(d) \/ Reuse(d) \/ AlienEnds(d)
      PROVE  Silent(child[t]) <= Max({Grace, Hang})
  BY <1>5 DEF FirstBeat, Boot, LoopTick, Beat, Exit, Stick, Reuse, AlienEnds
<1>6. ASSUME NEW s \in Sups, ChildExit(s)
      PROVE  Silent(child[t]) <= Max({Grace, Hang})
  BY <1>6 DEF ChildExit, OnExit
<1>7. ASSUME NEW s \in Sups, WatchTick(s)
      PROVE  Silent(child[t]) <= Max({Grace, Hang})
  <2>1. s = t
    BY <1>7, SuperviseAssumption DEF WatchTick
  <2>2. ~Hung(child[t])
    BY <1>7, <2>1, SuperviseAssumption DEF WatchTick
  <2>3. child[t] \in Daemons
    BY <1>7, <2>1 DEF WatchTick
  <2> QED BY <2>2, <2>3, PassedIsLive
<1>8. ASSUME NEW s \in Sups, StopSup(s)
      PROVE  Silent(child[t]) <= Max({Grace, Hang})
  BY <1>8, SuperviseAssumption DEF StopSup
<1>9. ASSUME NEW s \in Sups, StartSup(s) \/ Spawn(s)
      PROVE  Silent(child[t]) <= Max({Grace, Hang})
  BY <1>9 DEF StartSup, Spawn
<1>10. CASE Tick
  BY <1>10 DEF Tick
<1>11. CASE UNCHANGED vars
  BY <1>11 DEF vars
<1> QED
  BY <1>1, <1>2, <1>3, <1>4, <1>5, <1>6, <1>7, <1>8, <1>9, <1>10, <1>11 DEF Next, Locking, Work,
     Supervising

\* With limits of two minutes and more, a daemon whose loop and beat ran in every
\* minute is not taken for one that hangs.
LEMMA HealthyNotHung ==
  ASSUME TypeFiles, TypeSteps, TypeAges, Healthy, broken = {}, 1 < Grace, 1 < Hang,
         NEW d \in Daemons, pc[d] = "run", Hung(d)
  PROVE  stuck[d] \/ d \in dozed
<1> SUFFICES ASSUME ~stuck[d], d \notin dozed
             PROVE  FALSE
  OBVIOUS
<1>1. /\ up[d] \in Nat /\ dirBeat[args[d].dir].tick \in Nat /\ dirBeat[args[d].dir].ts \in Nat
  BY DEF TypeFiles, TypeSteps, TypeAges, Procs, Ages
<1>2. dirBeat[args[d].dir].ts <= 1 /\ (dirBeat[args[d].dir].tick <= 2 \/ up[d] <= 1)
  BY DEF Healthy, BeatOf
<1>3. Grace \in Nat /\ Hang \in Nat
  BY SuperviseAssumption
<1>4. up[d] >= Grace
  BY DEF Hung
<1>5. dirBeat[args[d].dir].tick <= 2
  BY <1>1, <1>2, <1>3, <1>4
<1> QED BY <1>1, <1>2, <1>3, <1>4, <1>5, OldIs DEF Hung

\* A supervisor that ends its watch over a daemon that runs found it silent, so the
\* daemon hung, was suspended, or lost its lock.
LEMMA SparedNext ==
  ASSUME TypeOK, TypeFiles, TypeSteps, TypeAges, TypeChild, Phases, Healthy, broken = {}, 1 <
          Grace, 1 < Hang, NEW t \in Sups, pc[t] = "watch", pc'[t] = "idle", pc[child[t]] = "run",
          [Next]_vars
  PROVE  stuck[child[t]] \/ child[t] \in dozed
<1> USE DEF TypeFiles, TypeSteps, TypeAges, TypeChild, PCs, Kinds, Procs, files, steps, daemon,
       lazy, sup, Can, Fault
<1>1. ASSUME NEW p \in Procs, Open(p)
      PROVE  stuck[child[t]] \/ child[t] \in dozed
  BY <1>1 DEF Open
<1>2. ASSUME NEW p \in Procs, Write(p)
      PROVE  stuck[child[t]] \/ child[t] \in dozed
  BY <1>2 DEF Write, Got, Phases
<1>3. ASSUME NEW p \in Procs, Read(p)
      PROVE  stuck[child[t]] \/ child[t] \in dozed
  BY <1>3 DEF Read, GiveUp
<1>4. ASSUME NEW p \in Procs, Remove(p)
      PROVE  stuck[child[t]] \/ child[t] \in dozed
  BY <1>4 DEF Remove, GiveUp
<1>5. ASSUME NEW p \in Procs, RelRead(p)
      PROVE  stuck[child[t]] \/ child[t] \in dozed
  BY <1>5 DEF RelRead, GiveUp
<1>6. ASSUME NEW p \in Procs, RelRemove(p)
      PROVE  stuck[child[t]] \/ child[t] \in dozed
  BY <1>6 DEF RelRemove, GiveUp
<1>7. ASSUME NEW p \in Procs, Crash(p)
      PROVE  stuck[child[t]] \/ child[t] \in dozed
  BY <1>7 DEF Crash, Gone
<1>8. ASSUME NEW p \in Procs, Freeze(p) \/ Thaw(p)
      PROVE  stuck[child[t]] \/ child[t] \in dozed
  BY <1>8 DEF Freeze, Thaw
<1>9. ASSUME NEW d \in Daemons, FirstBeat(d) \/ Boot(d) \/ LoopTick(d) \/ Beat(d) \/ Exit(d) \/
             Stick(d) \/ Reuse(d) \/ AlienEnds(d)
      PROVE  stuck[child[t]] \/ child[t] \in dozed
  BY <1>9 DEF FirstBeat, Boot, LoopTick, Beat, Exit, Stick, Reuse, AlienEnds
<1>10. ASSUME NEW s \in Sups, StartSup(s)
      PROVE  stuck[child[t]] \/ child[t] \in dozed
  BY <1>10 DEF StartSup
<1>11. ASSUME NEW s \in Sups, Spawn(s)
      PROVE  stuck[child[t]] \/ child[t] \in dozed
  <2>1. PICK d \in FreePids : pc' = [pc EXCEPT ![d] = "open", ![s] = "watch"]
    BY <1>11 DEF Spawn
  <2> QED BY <2>1
<1>12. ASSUME NEW s \in Sups, ChildExit(s)
      PROVE  stuck[child[t]] \/ child[t] \in dozed
  BY <1>12 DEF ChildExit, OnExit
<1>13. ASSUME NEW s \in Sups, WatchTick(s)
      PROVE  stuck[child[t]] \/ child[t] \in dozed
  <2>1. s = t
    <3>1. CASE Hung(child[s])
      <4>1. pc' = [pc EXCEPT ![s] = "idle", ![child[s]] = "off"]
        BY <1>13, <3>1 DEF WatchTick
      <4> QED BY <4>1
    <3>2. CASE ~Hung(child[s])
      BY <1>13, <3>2 DEF WatchTick
    <3> QED BY <3>1, <3>2
  <2>2. Hung(child[t]) /\ child[t] \in Daemons
    BY <1>13, <2>1 DEF WatchTick
  <2> QED BY <2>2, HealthyNotHung
<1>14. ASSUME NEW s \in Sups, StopSup(s)
      PROVE  stuck[child[t]] \/ child[t] \in dozed
  BY <1>14 DEF StopSup, Gone
<1>15. CASE Tick
  BY <1>15 DEF Tick
<1>16. CASE UNCHANGED vars
  BY <1>16 DEF vars
<1> QED
  BY <1>1, <1>2, <1>3, <1>4, <1>5, <1>6, <1>7, <1>8, <1>9, <1>10, <1>11, <1>12, <1>13, <1>14,
     <1>15, <1>16 DEF Next, Locking, Work, Supervising

\* No check passes a daemon whose loop stands still for longer than the limits, for
\* every grace and hang limit, and however its heartbeat file came about.
THEOREM NoHungPasses == Spec => HungKilled
<1>1. SInv /\ [Next]_vars =>
        [\A s \in Sups :
           <<"watch", s>> \in owed \ owed' /\ s \notin frozen' /\ pc'[s] = "watch"
             /\ want[child[s]] = "acct" /\ broken = {}
             => Silent(child[s]) <= Max({Grace, Hang})]_vars
  <2> SUFFICES ASSUME SInv, [Next]_vars, NEW t \in Sups,
                      <<"watch", t>> \in owed \ owed', t \notin frozen', pc'[t] = "watch",
                      want[child[t]] = "acct", broken = {}
               PROVE  Silent(child[t]) <= Max({Grace, Hang})
    OBVIOUS
  <2>1. TypeOK /\ TypeFiles /\ TypeSteps /\ TypeAges /\ TypeChild /\ BeatOwn
    BY TypeParts DEF SInv
  <2> QED BY <2>1, NoHungNext
<1> QED
  BY <1>1, Invariance, PTL DEF Spec, HungKilled

\* With limits of at least two minutes, as the command line has them by default, no
\* supervisor kills a daemon that neither hung nor was suspended.
THEOREM HealthySpared ==
  ASSUME 1 < Grace, 1 < Hang
  PROVE  Spec => HealthyKept
<1>1. SInv /\ [Next]_vars =>
        [\A s \in Sups : pc[s] = "watch" /\ pc'[s] = "idle" /\ pc[child[s]] = "run"
           => stuck[child[s]] \/ child[s] \in dozed \/ broken # {}]_vars
  <2> SUFFICES ASSUME SInv, [Next]_vars, NEW t \in Sups,
                      pc[t] = "watch", pc'[t] = "idle", pc[child[t]] = "run", broken = {}
               PROVE  stuck[child[t]] \/ child[t] \in dozed
    OBVIOUS
  <2>1. TypeOK /\ TypeFiles /\ TypeSteps /\ TypeAges /\ TypeChild /\ Phases /\ Healthy
    BY TypeParts DEF SInv
  <2> QED BY <2>1, SparedNext
<1> QED
  BY <1>1, Invariance, PTL DEF Spec, HealthyKept

-----------------------------------------------------------------------------
(* How often a supervisor starts a daemon.  Each start but that of the     *)
(* daemon it watches was ended by an exit no older than the start, so the  *)
(* window holds no more starts than exits and the running one; after a     *)
(* halt, which forgets the exits, the rest outlasts every start.           *)

Times == Seq(Nat)

\* The start of a daemon that still runs has no exit yet
Current(s) == IF pc[s] = "watch" THEN 1 ELSE 0

\* Each ended start has its exit, counted from the last ones, which is no older
Ended(st, ex, open) ==
  /\ Len(st) <= Len(ex) + open
  /\ \A k \in 1 .. Len(st) - open : st[Len(st) - open + 1 - k] >= ex[Len(ex) + 1 - k]

\* No start is in the window any more when the rest is over
Outlasted(st, left) == \A k \in 1 .. Len(st) : st[k] + left > LoopWindow

Serves == {"open", "write", "read", "remove", "idle", "watch"}

PacedAt(s) ==
  /\ starts[s] \in Times /\ exits[s] \in Times
  /\ Len(starts[s]) <= LoopMax /\ Len(exits[s]) < LoopMax
  /\ \A k \in 1 .. Len(starts[s]) : starts[s][k] <= LoopWindow
  /\ pc[s] \in Serves =>
       \/ Ended(starts[s], exits[s], Current(s))
       \/ pc[s] = "idle" /\ Outlasted(starts[s], rest[s])

Paced ==
  /\ starts = [s \in Sups |-> starts[s]] /\ exits = [s \in Sups |-> exits[s]]
  /\ \A s \in Sups : PacedAt(s)

\* What Recent leaves: the times after the last one that is too old, a minute older.
LEMMA RecentIs ==
  ASSUME NEW a, a \in Times
  PROVE  \E old \in 0 .. Len(a) :
           /\ Recent(a) \in Times /\ Len(Recent(a)) = Len(a) - old
           /\ \A k \in 1 .. Len(a) - old : Recent(a)[k] = a[old + k] + 1 /\ a[old + k] < LoopWindow
           /\ old > 0 => a[old] >= LoopWindow
<1> DEFINE S == {0} \cup {i \in DOMAIN a : a[i] >= LoopWindow}
<1> DEFINE old == Max(S)
<1>1. Len(a) \in Nat /\ DOMAIN a = 1 .. Len(a) /\ \A i \in 1 .. Len(a) : a[i] \in Nat
  BY DEF Times
<1>2. S \in SUBSET Nat /\ S # {} /\ \A x \in S : x <= Len(a)
  BY <1>1
<1>3. old \in S /\ \A x \in S : x <= old
  <2> HIDE DEF S
  <2> QED BY <1>1, <1>2, MaxIs
<1>4. old \in 0 .. Len(a) /\ (old > 0 => a[old] >= LoopWindow)
  BY <1>1, <1>3
<1>5. Recent(a) = [i \in 1 .. Len(a) - old |-> a[old + i] + 1]
  BY DEF Recent
<1>6. \A k \in 1 .. Len(a) - old : old + k \in DOMAIN a /\ ~(old + k <= old)
  <2> HIDE DEF S, old
  <2> QED BY <1>1, <1>4
<1>7. \A k \in 1 .. Len(a) - old : ~(a[old + k] >= LoopWindow)
  BY <1>3, <1>6
<1>8. LoopWindow \in Nat
  BY SuperviseAssumption
<1> HIDE DEF S, old
<1>9. \A k \in 1 .. Len(a) - old : a[old + k] \in Nat /\ a[old + k] < LoopWindow
  BY <1>1, <1>6, <1>7, <1>8
<1>10. Len(a) - old \in Nat
  BY <1>1, <1>4
<1>11. Recent(a) \in Seq(Nat) /\ Len(Recent(a)) = Len(a) - old
  <2> DEFINE m == Len(a) - old
  <2>1. m \in Nat /\ Recent(a) = [i \in 1 .. m |-> a[old + i] + 1] /\ \A i \in 1 .. m : a[old + i] + 1 \in Nat
    BY <1>5, <1>9, <1>10
  <2> HIDE DEF m
  <2>2. Recent(a) \in Seq(Nat) /\ Len(Recent(a)) = m
    BY <2>1
  <2> QED BY <2>2 DEF m
<1> QED
  BY <1>4, <1>5, <1>9, <1>11 DEF Times

\* A minute later the starts and the exits in the window still go together.
LEMMA EndedTick ==
  ASSUME NEW st, st \in Times, NEW ex, ex \in Times, NEW open \in {0, 1}, Ended(st, ex, open)
  PROVE  Ended(Recent(st), Recent(ex), open)
<1> DEFINE n == Len(st)
           e == Len(ex)
<1>1. PICK a \in 0 .. n :
        /\ Recent(st) \in Times /\ Len(Recent(st)) = n - a
        /\ \A k \in 1 .. n - a : Recent(st)[k] = st[a + k] + 1 /\ st[a + k] < LoopWindow
  BY RecentIs
<1>2. PICK b \in 0 .. e :
        /\ Recent(ex) \in Times /\ Len(Recent(ex)) = e - b
        /\ \A k \in 1 .. e - b : Recent(ex)[k] = ex[b + k] + 1 /\ ex[b + k] < LoopWindow
        /\ b > 0 => ex[b] >= LoopWindow
  BY RecentIs
<1>3. n \in Nat /\ e \in Nat /\ (\A k \in 1 .. n : st[k] \in Nat) /\ (\A k \in 1 .. e : ex[k] \in Nat)
  BY DEF Times
<1>4. n <= e + open /\ \A k \in 1 .. n - open : st[n - open + 1 - k] >= ex[e + 1 - k]
  BY DEF Ended
<1>5. LoopWindow \in Nat
  BY SuperviseAssumption
<1> HIDE DEF n, e
<1>6. n - a - open <= e - b
  <2> SUFFICES ASSUME n - a - open > e - b PROVE FALSE
    BY <1>3
  <2> DEFINE k == e + 1 - b
  <2>1. k \in 1 .. n - a - open /\ b > 0 /\ k \in 1 .. n - open /\ e + 1 - k = b
    BY <1>3, <1>4
  <2> DEFINE j == n - a - open + 1 - k
  <2>2. j \in 1 .. n - a /\ a + j = n - open + 1 - k
    BY <1>3, <2>1
  <2> HIDE DEF k, j
  <2>3. st[n - open + 1 - k] < LoopWindow
    BY <1>1, <2>2
  <2>4. st[n - open + 1 - k] >= ex[b]
    BY <1>4, <2>1
  <2>5. n - open + 1 - k \in 1 .. n /\ b \in 1 .. e
    BY <1>3, <2>1
  <2> QED BY <1>2, <1>3, <1>5, <2>1, <2>3, <2>4, <2>5
<1>7. ASSUME NEW k \in 1 .. n - a - open
      PROVE  Recent(st)[n - a - open + 1 - k] >= Recent(ex)[e - b + 1 - k]
  <2> DEFINE j == n - a - open + 1 - k
             i == e - b + 1 - k
  <2>1. j \in 1 .. n - a /\ a + j = n - open + 1 - k /\ i \in 1 .. e - b /\ b + i = e + 1 - k
        /\ k \in 1 .. n - open
    BY <1>3, <1>6
  <2> HIDE DEF i, j
  <2>2. Recent(st)[j] = st[n - open + 1 - k] + 1 /\ Recent(ex)[i] = ex[e + 1 - k] + 1
    BY <1>1, <1>2, <2>1
  <2>3. st[n - open + 1 - k] >= ex[e + 1 - k]
    BY <1>4, <2>1
  <2>4. n - open + 1 - k \in 1 .. n /\ e + 1 - k \in 1 .. e
    BY <1>3, <2>1
  <2>5. Recent(st)[j] >= Recent(ex)[i]
    BY <1>3, <2>2, <2>3, <2>4
  <2> QED BY <2>5 DEF i, j
<1> QED
  BY <1>1, <1>2, <1>3, <1>6, <1>7 DEF Ended

\* The time that passes is taken from the rest, so a rest still outlasts the starts.
LEMMA OutlastedTick ==
  ASSUME NEW st, st \in Times, NEW left \in Nat, Outlasted(st, left),
         \A k \in 1 .. Len(st) : st[k] <= LoopWindow
  PROVE  Outlasted(Recent(st), IF left > 0 THEN left - 1 ELSE 0)
<1>1. PICK a \in 0 .. Len(st) :
        /\ Recent(st) \in Times /\ Len(Recent(st)) = Len(st) - a
        /\ \A k \in 1 .. Len(st) - a : Recent(st)[k] = st[a + k] + 1 /\ st[a + k] < LoopWindow
  BY RecentIs
<1>2. Len(st) \in Nat /\ LoopWindow \in Nat /\ \A k \in 1 .. Len(st) : st[k] \in Nat
  BY SuperviseAssumption DEF Times
<1>3. \A k \in 1 .. Len(st) - a : a + k \in 1 .. Len(st)
  BY <1>2
<1>4. \A k \in 1 .. Len(st) - a : st[a + k] + left > LoopWindow
  BY <1>3 DEF Outlasted
<1> DEFINE rest1 == IF left > 0 THEN left - 1 ELSE 0
<1>5. ASSUME NEW k \in 1 .. Len(st) - a
      PROVE  Recent(st)[k] + rest1 > LoopWindow
  <2>1. /\ Recent(st)[k] = st[a + k] + 1 /\ st[a + k] < LoopWindow
        /\ st[a + k] + left > LoopWindow /\ st[a + k] \in Nat
    BY <1>1, <1>2, <1>3, <1>4
  <2> QED BY <1>2, <2>1
<1> HIDE DEF rest1
<1>6. Outlasted(Recent(st), rest1)
  BY <1>1, <1>5 DEF Outlasted
<1> QED
  BY <1>6 DEF rest1

\* A minute keeps what bounds the starts.
LEMMA PacedTick ==
  ASSUME TypeAges, Paced, Tick, NEW s \in Sups
  PROVE  PacedAt(s)'
<1>1. /\ starts'[s] = Recent(starts[s]) /\ exits'[s] = Recent(exits[s])
      /\ rest'[s] = (IF rest[s] > 0 THEN rest[s] - 1 ELSE 0) /\ pc' = pc
  BY DEF Tick, steps
<1>2. PacedAt(s) /\ rest[s] \in Nat
  BY SuperviseAssumption DEF Paced, TypeAges
<1>3. starts[s] \in Times /\ exits[s] \in Times
  BY <1>2 DEF PacedAt
<1>4. LoopMax \in Nat /\ LoopWindow \in Nat
  BY SuperviseAssumption
<1>5. Recent(starts[s]) \in Times /\ Len(Recent(starts[s])) <= LoopMax
      /\ \A k \in 1 .. Len(Recent(starts[s])) : Recent(starts[s])[k] <= LoopWindow
  <2>1. PICK a \in 0 .. Len(starts[s]) :
          /\ Recent(starts[s]) \in Times /\ Len(Recent(starts[s])) = Len(starts[s]) - a
          /\ \A k \in 1 .. Len(starts[s]) - a :
               Recent(starts[s])[k] = starts[s][a + k] + 1 /\ starts[s][a + k] < LoopWindow
    BY <1>3, RecentIs
  <2>2. Len(starts[s]) \in Nat /\ \A k \in 1 .. Len(starts[s]) - a : starts[s][a + k] \in Nat
    BY <1>3 DEF Times
  <2>3. Len(starts[s]) <= LoopMax
    BY <1>2 DEF PacedAt
  <2>4. ASSUME NEW k \in 1 .. Len(Recent(starts[s]))
        PROVE  Recent(starts[s])[k] <= LoopWindow
    <3>1. k \in 1 .. Len(starts[s]) - a
      BY <2>1
    <3>2. Recent(starts[s])[k] = starts[s][a + k] + 1 /\ starts[s][a + k] < LoopWindow
          /\ starts[s][a + k] \in Nat
      BY <2>1, <2>2, <3>1
    <3> QED BY <1>4, <3>2
  <2>5. Len(Recent(starts[s])) <= LoopMax
    BY <1>4, <2>1, <2>2, <2>3
  <2> QED BY <2>1, <2>4, <2>5
<1>6. Recent(exits[s]) \in Times /\ Len(Recent(exits[s])) < LoopMax
  <2>1. PICK a \in 0 .. Len(exits[s]) :
          Recent(exits[s]) \in Times /\ Len(Recent(exits[s])) = Len(exits[s]) - a
    BY <1>3, RecentIs
  <2>2. Len(exits[s]) \in Nat /\ Len(exits[s]) < LoopMax
    BY <1>2, <1>3 DEF Times, PacedAt
  <2> QED BY <1>4, <2>1, <2>2
<1>7. Current(s) \in {0, 1} /\ Current(s)' = Current(s)
  BY <1>1 DEF Current
<1>8. ASSUME pc[s] \in Serves
      PROVE  \/ Ended(starts'[s], exits'[s], Current(s)')
             \/ pc'[s] = "idle" /\ Outlasted(starts'[s], rest'[s])
  <2>1. CASE Ended(starts[s], exits[s], Current(s))
    BY <1>1, <1>3, <1>7, <2>1, EndedTick
  <2>2. CASE pc[s] = "idle" /\ Outlasted(starts[s], rest[s])
    <3>1. \A k \in 1 .. Len(starts[s]) : starts[s][k] <= LoopWindow
      BY <1>2 DEF PacedAt
    <3> QED BY <1>1, <1>2, <1>3, <2>2, <3>1, OutlastedTick
  <2> QED BY <1>2, <1>8, <2>1, <2>2 DEF PacedAt
<1> QED
  BY <1>1, <1>5, <1>6, <1>8 DEF PacedAt

\* An exit of the daemon that is watched takes its place beside its start, or begins a rest.
LEMMA PacedExit ==
  ASSUME NEW s \in Sups, PacedAt(s), pc[s] = "watch", OnExit(s), pc'[s] = "idle",
         DOMAIN exits = Sups, DOMAIN rest = Sups
  PROVE  PacedAt(s)'
<1> DEFINE recent == Append(exits[s], 0)
<1>1. /\ starts'[s] = starts[s]
      /\ exits'[s] = IF Len(recent) >= LoopMax THEN <<>> ELSE recent
      /\ Len(recent) >= LoopMax => rest'[s] = HaltFor
  BY DEF OnExit
<1>2. starts[s] \in Times /\ exits[s] \in Times /\ Len(starts[s]) <= LoopMax
      /\ \A k \in 1 .. Len(starts[s]) : starts[s][k] <= LoopWindow
  BY DEF PacedAt
<1>3. Ended(starts[s], exits[s], 1)
  BY DEF PacedAt, Current, Serves
<1>4. LoopMax \in Nat /\ LoopMax > 1 /\ LoopWindow \in Nat /\ HaltFor \in Nat /\ HaltFor > LoopWindow
  BY SuperviseAssumption
<1>5. /\ Len(starts[s]) \in Nat /\ Len(exits[s]) \in Nat
      /\ \A k \in 1 .. Len(starts[s]) : starts[s][k] \in Nat
  BY <1>2 DEF Times
<1>6. recent \in Times /\ Len(recent) = Len(exits[s]) + 1 /\ recent[Len(exits[s]) + 1] = 0
      /\ \A k \in 1 .. Len(exits[s]) : recent[k] = exits[s][k]
  BY <1>2, <1>5 DEF Times
<1> HIDE DEF recent
<1>7. CASE Len(recent) >= LoopMax
  <2>1. exits'[s] = <<>> /\ rest'[s] = HaltFor
    BY <1>1, <1>7
  <2>2. Outlasted(starts[s], HaltFor)
    BY <1>4, <1>5 DEF Outlasted
  <2>3. exits'[s] \in Times /\ Len(exits'[s]) = 0
    BY <2>1 DEF Times
  <2> QED BY <1>1, <1>2, <1>4, <2>1, <2>2, <2>3 DEF PacedAt
<1>8. CASE Len(recent) < LoopMax
  <2>1. exits'[s] = recent
    BY <1>1, <1>4, <1>6, <1>5, <1>8
  <2>2. /\ Len(starts[s]) <= Len(exits[s]) + 1
        /\ \A k \in 1 .. Len(starts[s]) - 1 : starts[s][Len(starts[s]) - k] >= exits[s][Len(exits[s]) + 1 - k]
    BY <1>3, <1>5 DEF Ended
  <2>3. ASSUME NEW k \in 1 .. Len(starts[s])
        PROVE  starts[s][Len(starts[s]) + 1 - k] >= recent[Len(recent) + 1 - k]
    <3>1. CASE k = 1
      <4>1. Len(starts[s]) + 1 - k \in 1 .. Len(starts[s]) /\ Len(recent) + 1 - k = Len(exits[s]) + 1
        BY <1>5, <1>6, <3>1
      <4> QED BY <1>5, <1>6, <4>1
    <3>2. CASE k > 1
      <4> DEFINE j == k - 1
      <4>1. j \in 1 .. Len(starts[s]) - 1 /\ Len(starts[s]) - j = Len(starts[s]) + 1 - k
            /\ Len(recent) + 1 - k = Len(exits[s]) + 1 - j
            /\ Len(exits[s]) + 1 - j \in 1 .. Len(exits[s])
        BY <1>5, <1>6, <2>2, <3>2
      <4> HIDE DEF j
      <4> QED BY <1>6, <2>2, <4>1
    <3> QED BY <1>5, <3>1, <3>2
  <2>4. Ended(starts[s], recent, 0)
    BY <1>5, <1>6, <2>2, <2>3 DEF Ended
  <2>5. Current(s)' = 0
    BY DEF Current
  <2> QED BY <1>1, <1>2, <1>6, <1>8, <2>1, <2>4, <2>5 DEF PacedAt
<1> QED
  BY <1>4, <1>5, <1>6, <1>7, <1>8

\* A start finds the rest over: every earlier one is ended, and there are fewer than loopMax.
LEMMA PacedSpawn ==
  ASSUME NEW s \in Sups, PacedAt(s), pc[s] = "idle", rest[s] = 0,
         starts'[s] = Append(starts[s], 0), exits'[s] = exits[s], pc'[s] = "watch"
  PROVE  PacedAt(s)'
<1>1. starts[s] \in Times /\ exits[s] \in Times /\ Len(starts[s]) <= LoopMax
      /\ (\A k \in 1 .. Len(starts[s]) : starts[s][k] <= LoopWindow)
      /\ Len(exits[s]) < LoopMax
  BY DEF PacedAt
<1>2. LoopMax \in Nat /\ LoopWindow \in Nat
  BY SuperviseAssumption
<1>3. /\ Len(starts[s]) \in Nat /\ Len(exits[s]) \in Nat
      /\ \A k \in 1 .. Len(starts[s]) : starts[s][k] \in Nat
  BY <1>1 DEF Times
<1>4. Ended(starts[s], exits[s], 0)
  <2>1. CASE Ended(starts[s], exits[s], Current(s))
    BY <2>1 DEF Current
  <2>2. CASE Outlasted(starts[s], rest[s])
    <3>1. \A k \in 1 .. Len(starts[s]) : FALSE
      BY <1>1, <1>2, <1>3, <2>2 DEF Outlasted
    <3>2. Len(starts[s]) = 0
      BY <1>3, <3>1
    <3> QED BY <1>3, <3>2 DEF Ended
  <2> QED BY <2>1, <2>2 DEF PacedAt, Serves
<1> DEFINE new == Append(starts[s], 0)
<1>5. new \in Times /\ Len(new) = Len(starts[s]) + 1 /\ new[Len(starts[s]) + 1] = 0
      /\ \A k \in 1 .. Len(starts[s]) : new[k] = starts[s][k]
  BY <1>1, <1>3 DEF Times
<1> HIDE DEF new
<1>6. /\ Len(starts[s]) <= Len(exits[s])
      /\ \A k \in 1 .. Len(starts[s]) : starts[s][Len(starts[s]) + 1 - k] >= exits[s][Len(exits[s]) + 1 - k]
  BY <1>3, <1>4 DEF Ended
<1>7. ASSUME NEW k \in 1 .. Len(new) - 1
      PROVE  new[Len(new) - 1 + 1 - k] >= exits[s][Len(exits[s]) + 1 - k]
  <2>1. k \in 1 .. Len(starts[s]) /\ Len(new) - 1 + 1 - k = Len(starts[s]) + 1 - k
        /\ Len(starts[s]) + 1 - k \in 1 .. Len(starts[s])
    BY <1>3, <1>5
  <2> QED BY <1>5, <1>6, <2>1
<1>8. Ended(new, exits[s], 1)
  BY <1>3, <1>5, <1>6, <1>7 DEF Ended
<1>9. Len(new) <= LoopMax
  BY <1>1, <1>2, <1>3, <1>5, <1>6
<1>10. \A k \in 1 .. Len(new) : new[k] <= LoopWindow
  BY <1>1, <1>2, <1>3, <1>5
<1>11. Current(s)' = 1 /\ starts'[s] = new
  BY DEF Current, new
<1> QED
  BY <1>1, <1>5, <1>8, <1>9, <1>10, <1>11 DEF PacedAt

\* Nothing else starts a daemon, and no step but these serves with lists that do not go together.
LEMMA PacedSame ==
  ASSUME NEW s \in Sups, PacedAt(s), starts'[s] = starts[s], exits'[s] = exits[s], rest'[s] = rest[s],
         \/ pc'[s] = pc[s]
         \/ pc'[s] \notin Serves
         \/ pc[s] \in Serves \ {"idle", "watch"} /\ pc'[s] # "watch"
  PROVE  PacedAt(s)'
<1>1. pc'[s] \in Serves => Current(s)' = Current(s) /\ pc[s] \in Serves /\ (pc[s] = "idle" => pc'[s] = "idle")
  BY DEF Current, Serves
<1> QED
  BY <1>1 DEF PacedAt

\* Every step keeps what bounds the starts.
LEMMA PacedNext ==
  ASSUME TypeOK, TypeSteps, TypeAges, Paced, [Next]_vars
  PROVE  Paced'
<1>1. (starts = [s \in Sups |-> starts[s]] /\ exits = [s \in Sups |-> exits[s]])'
  BY DEF Paced, Next, Locking, Work, Supervising, Open, Write, Read, Remove, RelRead, RelRemove, GiveUp,
     FirstBeat, Boot, LoopTick, Beat, Exit, StartSup, Spawn, ChildExit, WatchTick, OnExit, StopSup, Crash,
     Stick, Freeze, Thaw, Reuse, AlienEnds, Tick, vars, sup
<1>2. DOMAIN starts = Sups /\ DOMAIN exits = Sups /\ DOMAIN rest = Sups /\ DOMAIN pc = Procs
  BY DEF Paced, TypeSteps, TypeAges
<1>3. Sups \subseteq Procs /\ Sups \cap Daemons = {} /\ Daemons \subseteq Procs
  BY SuperviseAssumption DEF Procs
<1>4. ASSUME NEW s \in Sups
      PROVE  PacedAt(s)'
  <2>1. PacedAt(s)
    BY DEF Paced
  <2>2. ASSUME NEW p \in Procs, Locking(p)
        PROVE  PacedAt(s)'
    <3>1. starts' = starts /\ exits' = exits /\ rest' = rest
      BY <2>2 DEF Locking, Open, Write, Read, Remove, RelRead, RelRemove, sup
    <3>2. \/ pc'[s] = pc[s]
          \/ pc'[s] \notin Serves
          \/ pc[s] \in Serves \ {"idle", "watch"} /\ pc'[s] # "watch"
      <4>1. CASE p # s
        <5>1. \E at : pc' = [pc EXCEPT ![p] = at]
          <6>1. CASE Open(p) \/ Write(p)
            BY <6>1 DEF Open, Write
          <6>2. CASE Read(p) \/ Remove(p)
            BY <6>2 DEF Read, Remove, GiveUp
          <6>3. CASE RelRead(p) \/ RelRemove(p)
            BY <6>3 DEF RelRead, RelRemove, GiveUp
          <6> QED BY <2>2, <6>1, <6>2, <6>3 DEF Locking
        <5> QED BY <1>2, <1>3, <4>1, <5>1
      <4>2. CASE p = s
        BY <1>2, <1>3, <2>2, <4>2 DEF Locking, Open, Write, Read, Remove, RelRead, RelRemove, GiveUp,
           Can, Serves, Got, Failed, TypeSteps, Kinds
      <4> QED BY <4>1, <4>2
    <3> QED BY <2>1, <3>1, <3>2, PacedSame
  <2>3. ASSUME NEW p \in Procs, Crash(p) \/ Freeze(p) \/ Thaw(p)
        PROVE  PacedAt(s)'
    <3>1. starts' = starts /\ exits' = exits /\ rest' = rest /\ (pc'[s] = pc[s] \/ pc'[s] = "off")
      BY <1>2, <1>3, <2>3 DEF Crash, Freeze, Thaw, sup, steps
    <3> QED BY <2>1, <3>1, PacedSame DEF Serves
  <2>4. ASSUME NEW d \in Daemons, Work(d) \/ Exit(d) \/ Stick(d) \/ Reuse(d) \/ AlienEnds(d)
        PROVE  PacedAt(s)'
    <3>1. starts' = starts /\ exits' = exits /\ rest' = rest
      BY <2>4 DEF Work, FirstBeat, Boot, LoopTick, Beat, Exit, Stick, Reuse, AlienEnds, sup
    <3>2. pc'[s] = pc[s]
      BY <1>2, <1>3, <2>4 DEF Work, FirstBeat, Boot, LoopTick, Beat, Exit, Stick, Reuse, AlienEnds, steps
    <3> QED BY <2>1, <3>1, <3>2, PacedSame
  <2>5. ASSUME NEW z \in Sups, StartSup(z)
        PROVE  PacedAt(s)'
    <3>1. CASE z = s
      <4>1. starts'[s] = <<>> /\ exits'[s] = <<>> /\ pc'[s] = "open"
        BY <1>2, <1>3, <2>5, <3>1 DEF StartSup
      <4>2. LoopMax \in Nat /\ LoopMax > 1
        BY SuperviseAssumption
      <4> QED BY <4>1, <4>2 DEF PacedAt, Times, Current, Ended
    <3>2. CASE z # s
      <4>1. starts'[s] = starts[s] /\ exits'[s] = exits[s] /\ rest'[s] = rest[s] /\ pc'[s] = pc[s]
        BY <1>2, <1>3, <2>5, <3>2 DEF StartSup
      <4> QED BY <2>1, <4>1, PacedSame
    <3> QED BY <3>1, <3>2
  <2>6. ASSUME NEW z \in Sups, Spawn(z)
        PROVE  PacedAt(s)'
    <3>1. CASE z = s
      <4>1. pc[s] = "idle" /\ rest[s] = 0 /\ starts'[s] = Append(starts[s], 0) /\ exits' = exits
            /\ pc'[s] = "watch"
        BY <1>2, <1>3, <2>6, <3>1 DEF Spawn, Can
      <4> QED BY <2>1, <4>1, PacedSpawn
    <3>2. CASE z # s
      <4>1. starts'[s] = starts[s] /\ exits' = exits /\ rest' = rest
        BY <1>2, <2>6, <3>2 DEF Spawn
      <4>2. PICK d \in FreePids : pc' = [pc EXCEPT ![d] = "open", ![z] = "watch"]
        BY <2>6 DEF Spawn
      <4>3. pc'[s] = pc[s]
        BY <1>2, <1>3, <3>2, <4>2 DEF FreePids
      <4> QED BY <2>1, <4>1, <4>3, PacedSame
    <3> QED BY <3>1, <3>2
  <2>7. ASSUME NEW z \in Sups, ChildExit(z) \/ WatchTick(z)
        PROVE  PacedAt(s)'
    <3>1. /\ pc[z] = "watch"
          /\ \/ OnExit(z) /\ pc'[z] = "idle" /\ (s # z => pc'[s] = pc[s])
             \/ UNCHANGED <<exits, rest, starts, pc>>
      <4>1. child[z] \in Daemons
        BY <1>3, <2>7 DEF TypeOK, ChildExit, WatchTick, Can
      <4> QED BY <1>2, <1>3, <2>7, <4>1 DEF ChildExit, WatchTick, Can, sup
    <3>2. CASE UNCHANGED <<exits, rest, starts, pc>>
      BY <2>1, <3>2, PacedSame
    <3>3. CASE OnExit(z) /\ pc'[z] = "idle" /\ z = s
      BY <1>2, <2>1, <3>1, <3>3, PacedExit
    <3>4. CASE OnExit(z) /\ z # s /\ pc'[s] = pc[s]
      <4>1. starts' = starts /\ exits'[s] = exits[s] /\ rest'[s] = rest[s]
        BY <1>2, <3>4 DEF OnExit
      <4> QED BY <2>1, <3>4, <4>1, PacedSame
    <3> QED BY <3>1, <3>2, <3>3, <3>4
  <2>8. ASSUME NEW z \in Sups, StopSup(z)
        PROVE  PacedAt(s)'
    <3>1. starts' = starts /\ exits' = exits /\ rest' = rest
          /\ (pc'[s] = pc[s] \/ pc'[s] = "rel" \/ pc'[s] = "off")
      BY <1>3, <2>8 DEF StopSup
    <3> QED BY <2>1, <3>1, PacedSame DEF Serves
  <2>9. CASE Tick
    BY <2>9, PacedTick
  <2>10. CASE UNCHANGED vars
    <3>1. UNCHANGED <<starts, exits, rest, pc>>
      BY <2>10 DEF vars, sup, steps
    <3> QED BY <2>1, <3>1, PacedSame
  <2> QED
    BY <2>2, <2>3, <2>4, <2>5, <2>6, <2>7, <2>8, <2>9, <2>10 DEF Next, Supervising
<1> QED
  BY <1>1, <1>4 DEF Paced

\* However often a daemon dies or is killed, no window of loopWindow sees its supervisor
\* start it more than loopMax times: the restart policy of onExit.
THEOREM StartsFew == Spec => []StartsBounded
<1>1. Init => Paced
  <2>1. LoopMax \in Nat /\ LoopMax > 1
    BY SuperviseAssumption
  <2>2. ASSUME Init, NEW s \in Sups
        PROVE  PacedAt(s)
    <3>1. starts[s] = <<>> /\ exits[s] = <<>> /\ pc[s] = "off"
      BY <2>2 DEF Init, Procs
    <3> QED BY <2>1, <3>1 DEF PacedAt, Times, Serves
  <2> QED BY <2>2 DEF Paced, Init
<1>2. SInv /\ Paced /\ [Next]_vars => Paced'
  BY PacedNext, TypeParts DEF SInv
<1>3. Paced => StartsBounded
  BY DEF Paced, PacedAt, StartsBounded
<1> QED
  BY <1>1, <1>2, <1>3, Invariance, PTL DEF Spec
=============================================================================
