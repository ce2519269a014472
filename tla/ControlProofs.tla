---------------------------- MODULE ControlProofs ----------------------------
(***************************************************************************)
(* Proofs about Control, for any sources, commands, clocks and bounds:     *)
(* types; a command takes effect once; a pause lasts; no target steps      *)
(* back.  All of them follow from the invariant IInv, one lemma a          *)
(* conjunct, one case an action.                                           *)
(***************************************************************************)
EXTENDS Control, TLAPS

\* What a message is made of.
LEMMA Shape ==
  ASSUME NEW m \in Messages
  PROVE  m \in [src : Sources \cup {NoSource}, n : Nat \ {0}]
BY ControlAssumption DEF Messages

\* What a waiting request asks for was published, and its clock is not ahead.
LEMMA Ask ==
  ASSUME TypeOK, NEW r \in reqs
  PROVE  /\ r.m \in Messages /\ r.m.n \in Nat \ {0}
         /\ r.at \in Nat /\ r.at <= now
         /\ r.m.src # NoSource => r.m.src \in Sources /\ r.m.n <= Len(sent[r.m.src])
         /\ r.m.src = NoSource => r.m.n \in Nonces /\ r.m = Cmd(r.m.n)
<1>1. r.m \in Messages /\ r.at \in 0 .. now /\ Published(r.m) /\ now \in Nat
  BY ControlAssumption DEF TypeOK, TypeNet
<1>2. r.m \in [src : Sources \cup {NoSource}, n : Nat \ {0}]
  BY <1>1, Shape
<1>3. Len(cmds) \in Nat
  BY DEF TypeOK, TypeNet
<1> QED
  BY <1>1, <1>2, <1>3 DEF Published, Nonces, Cmd

\* What the handler in the mutex works for.
LEMMA Hand ==
  ASSUME TypeOK
  PROVE  /\ applying.m \in [src : Sources \cup {NoSource}, n : Nat]
         /\ applying.step = "free" => applying = Free
         /\ applying.step = "seq" =>
              /\ applying.m.src \in Sources /\ applying.m.n \in Nat \ {0}
              /\ applying.m.n <= Len(sent[applying.m.src])
         /\ applying.step \in {"nonce", "guards"} =>
              /\ applying.m.n \in Nonces /\ applying.m.n \in 1 .. MaxCmds
              /\ applying.m = Cmd(applying.m.n)
<1>1. applying.m \in [src : Sources \cup {NoSource}, n : Nat]
  BY DEF TypeOK, TypeHands
<1>2. Free.step = "free"
  BY DEF Free
<1>3. applying.step = "free" => applying = Free
  BY <1>2 DEF TypeOK, TypeHands
<1>4. ASSUME applying.step = "seq"
      PROVE  /\ applying.m.src \in Sources /\ applying.m.n \in Nat \ {0}
             /\ applying.m.n <= Len(sent[applying.m.src])
  <2>1. applying.m \in Messages /\ applying.m.src # NoSource /\ Published(applying.m)
    BY <1>2, <1>4 DEF TypeOK, TypeHands
  <2> QED
    BY <2>1, Shape DEF Published
<1>5. ASSUME applying.step \in {"nonce", "guards"}
      PROVE  /\ applying.m.n \in Nonces /\ applying.m.n \in 1 .. MaxCmds
             /\ applying.m = Cmd(applying.m.n)
  <2>1. applying.m.src = NoSource /\ applying.m.n \in Nonces
    BY <1>2, <1>5 DEF TypeOK, TypeHands
  <2>2. Nonces \subseteq 1 .. MaxCmds
    BY ControlAssumption DEF TypeOK, TypeNet, Nonces
  <2> QED
    BY <1>1, <2>1, <2>2 DEF Cmd
<1> QED
  BY <1>1, <1>3, <1>4, <1>5

\* Nothing that was published or issued is taken back.
LEMMA Growth ==
  ASSUME TypeNet, [Next]_vars
  PROVE  /\ \A s \in Sources : Len(sent[s]) \in Nat /\ Len(sent[s]) <= Len(sent'[s])
         /\ Len(cmds) \in Nat /\ Len(cmds) <= Len(cmds') /\ Nonces \subseteq Nonces'
         /\ \A c \in Nonces : cmds'[c] = cmds[c]
         /\ \A m \in Messages : Published(m) => Published(m)'
<1>1. /\ \A s \in Sources : Len(sent[s]) \in Nat /\ sent[s] \in Seq(0 .. MaxNow)
      /\ Len(cmds) \in Nat /\ cmds \in Seq(Commands)
      /\ DOMAIN sent = Sources
  BY DEF TypeNet
<1>2. \/ UNCHANGED net
      \/ \E s \in Sources : Publish(s)
      \/ \E a \in Actions : Command(a)
  BY DEF Next, Handling, Watching, vars, net, Tick, Trade, Restart, Restored, Enter, Receive,
     SaveSeq,
     SaveNonce, ApplyDerisk, Reject, TakeTarget, TakeCommand, Plan, Check, Trip, Reset, SetBreaker
<1>3. /\ \A s \in Sources : Len(sent[s]) <= Len(sent'[s])
      /\ Len(cmds) <= Len(cmds') /\ \A c \in Nonces : cmds'[c] = cmds[c]
  <2>1. CASE UNCHANGED net
    BY <1>1, <2>1 DEF net
  <2>2. ASSUME NEW s \in Sources, Publish(s)
        PROVE  /\ \A x \in Sources : Len(sent[x]) <= Len(sent'[x])
               /\ Len(cmds) <= Len(cmds') /\ \A c \in Nonces : cmds'[c] = cmds[c]
    BY <1>1, <2>2 DEF Publish
  <2>3. ASSUME NEW a \in Actions, Command(a)
        PROVE  /\ \A x \in Sources : Len(sent[x]) <= Len(sent'[x])
               /\ Len(cmds) <= Len(cmds') /\ \A c \in Nonces : cmds'[c] = cmds[c]
    BY <1>1, <2>3 DEF Command, Nonces
  <2> QED
    BY <1>2, <2>1, <2>2, <2>3
<1>4. Len(cmds') \in Nat /\ \A s \in Sources : Len(sent'[s]) \in Nat
  <2>1. CASE UNCHANGED net
    BY <1>1, <2>1 DEF net
  <2>2. ASSUME NEW s \in Sources, Publish(s)
        PROVE  Len(cmds') \in Nat /\ \A x \in Sources : Len(sent'[x]) \in Nat
    BY <1>1, <2>2 DEF Publish
  <2>3. ASSUME NEW a \in Actions, Command(a)
        PROVE  Len(cmds') \in Nat /\ \A x \in Sources : Len(sent'[x]) \in Nat
    BY <1>1, <2>3 DEF Command
  <2> QED
    BY <1>2, <2>1, <2>2, <2>3
<1>5. \A m \in Messages : Published(m) => Published(m)'
  BY <1>1, <1>3, <1>4, Shape DEF Published
<1> QED
  BY <1>1, <1>3, <1>4, <1>5 DEF Nonces

\* What the network and the queue are is left alone but for requests that go.
LEMMA NetKept ==
  ASSUME TypeNet, UNCHANGED <<now, net>>, reqs' \subseteq reqs
  PROVE  TypeNet'
BY DEF TypeNet, net, Messages, Published

\* Messages are what was published, at instants up to now.
LEMMA TypeNetNext ==
  ASSUME TypeOK, [Next]_vars
  PROVE  TypeNet'
<1> USE DEF TypeOK
<1>1. CASE Tick
  <2>1. now' \in 0 .. MaxNow /\ 0 .. now \subseteq 0 .. now'
    BY <1>1, ControlAssumption DEF Tick, TypeNet
  <2>2. reqs' \subseteq [m : Messages, at : 0 .. now']
    BY <1>1, <2>1 DEF Tick, TypeNet, Messages
  <2> QED
    BY <1>1, <2>1, <2>2, Growth DEF Tick, TypeNet, net, Messages
<1>2. CASE Trade
  BY <1>2, NetKept DEF Trade, net
<1>3. CASE Restart
  BY <1>3, NetKept DEF Restart, Restored
<1>4. ASSUME NEW s \in Sources, Publish(s)
      PROVE  TypeNet'
  <2>1. sent' \in [Sources -> Seq(0 .. MaxNow)]
    BY <1>4 DEF Publish, TypeNet
  <2>2. \A r \in reqs : Published(r.m)'
    BY Growth DEF TypeNet
  <2> QED
    BY <1>4, <2>1, <2>2 DEF Publish, TypeNet
<1>5. ASSUME NEW s \in Sources, Enter(s)
      PROVE  TypeNet'
  BY <1>5, NetKept DEF Enter, net
<1>6. ASSUME NEW a \in Actions, Command(a)
      PROVE  TypeNet'
  <2>1. /\ cmds' \in Seq(Commands)
        /\ Len(cmds') = Len(cmds) + 1 /\ Len(cmds') <= MaxCmds
    BY <1>6, ControlAssumption DEF Command, TypeNet, Commands
  <2>2. \A r \in reqs : Published(r.m)'
    BY Growth DEF TypeNet
  <2> QED
    BY <1>6, <2>1, <2>2 DEF Command, TypeNet, Messages
<1>7. ASSUME NEW m \in Messages, Receive(m)
      PROVE  TypeNet'
  BY <1>7 DEF Receive, TypeNet, net, Published, Messages
<1>8. CASE SaveSeq
  BY <1>8, NetKept DEF SaveSeq, net
<1>9. CASE SaveNonce
  BY <1>9, NetKept DEF SaveNonce, net
<1>10. CASE ApplyDerisk
  BY <1>10, NetKept DEF ApplyDerisk, net
<1>11. ASSUME NEW r \in reqs, Reject(r)
      PROVE  TypeNet'
  BY <1>11, NetKept DEF Reject, net
<1>12. ASSUME NEW r \in reqs, TakeTarget(r)
      PROVE  TypeNet'
  BY <1>12, NetKept DEF TakeTarget, net
<1>13. ASSUME NEW r \in reqs, TakeCommand(r)
      PROVE  TypeNet'
  BY <1>13, NetKept DEF TakeCommand, net
<1>14. CASE Plan
  BY <1>14, NetKept DEF Plan, net
<1>15. CASE Check
  BY <1>15, NetKept DEF Check, net
<1>16. CASE Trip
  BY <1>16, NetKept DEF Trip, SetBreaker, net
<1>17. CASE Reset
  BY <1>17, NetKept DEF Reset, SetBreaker, net
<1>18. CASE UNCHANGED vars
  BY <1>18, NetKept DEF vars, net
<1> QED
  BY <1>1, <1>2, <1>3, <1>4, <1>5, <1>6, <1>7, <1>8, <1>9,
     <1>10, <1>11, <1>12, <1>13, <1>14, <1>15, <1>16, <1>17, <1>18
     DEF Next, Handling, Watching

\* A step that leaves memory and disk alone keeps their types.
LEMMA MemoryKept ==
  ASSUME TypeOK, [Next]_vars, UNCHANGED <<memory, disk>>
  PROVE  TypeMemory'
<1>1. \A s \in Sources : lastSeq[s] <= Len(sent'[s])
  BY Growth DEF TypeOK, TypeMemory, TypeNet
<1> QED
  BY <1>1, Growth DEF TypeOK, TypeMemory, memory, disk

\* A command changes flags into flags, and pauses, resumes or leaves it.
LEMMA EffectType ==
  ASSUME TypeOK, NEW c \in Nonces
  PROVE  /\ Effect(flags, c) \in GuardsType
         /\ [Effect(flags, c) EXCEPT !.reason = NoDay] \in GuardsType
         /\ cmds[c].action \in {"liquidate", "pause"} => Effect(flags, c).paused = TRUE
         /\ cmds[c].action = "resume" => Effect(flags, c).paused = FALSE
         /\ cmds[c].action = "block" => Effect(flags, c).paused = flags.paused
<1>1. flags \in GuardsType
  BY DEF TypeOK, TypeMemory
<1>2. /\ cmds[c].action \in {"liquidate", "pause", "block", "resume"}
      /\ Exp(cmds[c].ts) \in Nat
  <2>1. c \in 1 .. Len(cmds) /\ cmds \in Seq(Commands)
    BY DEF TypeOK, TypeNet, Nonces
  <2>2. cmds[c] \in Commands
    BY <2>1
  <2>3. cmds[c].action \in Actions /\ cmds[c].ts \in 0 .. MaxNow
    BY <2>2 DEF Commands
  <2>4. cmds[c].action \in {"liquidate", "pause", "block", "resume"}
    BY <2>3, ControlAssumption
  <2>5. Exp(cmds[c].ts) \in Nat
    BY <2>3, ControlAssumption DEF Exp
  <2> QED
    BY <2>4, <2>5
<1>3. /\ Effect(flags, c) \in GuardsType
      /\ cmds[c].action \in {"liquidate", "pause"} => Effect(flags, c).paused = TRUE
      /\ cmds[c].action = "resume" => Effect(flags, c).paused = FALSE
      /\ cmds[c].action = "block" => Effect(flags, c).paused = flags.paused
  <2>1. CASE cmds[c].action = "liquidate"
    BY <1>1, <2>1 DEF Effect, GuardsType
  <2>2. CASE cmds[c].action = "pause"
    BY <1>1, <2>2 DEF Effect, GuardsType
  <2>3. CASE cmds[c].action = "block"
    BY <1>1, <1>2, <2>3 DEF Effect, GuardsType
  <2>4. CASE cmds[c].action = "resume"
    BY <1>1, <2>4 DEF Effect, GuardsType
  <2> QED
    BY <1>2, <2>1, <2>2, <2>3, <2>4
<1> QED
  BY <1>3 DEF GuardsType, NoDay

\* Memory and disk keep their types.
LEMMA TypeMemoryNext ==
  ASSUME TypeOK, SeqsKept, [Next]_vars
  PROVE  TypeMemory'
<1> USE DEF TypeOK
<1>1. CASE Tick
  BY <1>1, MemoryKept DEF Tick
<1>2. CASE Trade
  BY <1>2, MemoryKept DEF Trade
<1>3. CASE Restart
  <2>1. \A s \in Sources : OneBack[s] \in Nat /\ OneBack[s] <= Len(sent[s])
    BY Growth DEF TypeMemory, TypeNet, SeqsKept, OneBack
  <2>2. OneBack \in [Sources -> Nat]
    BY <2>1 DEF OneBack
  <2>3. NoTarget \in [seq : Nat, entryOK : BOOLEAN]
    BY DEF NoTarget
  <2>4. Unexpired \subseteq Nonces
    BY DEF Unexpired, TypeMemory
  <2> QED
    BY <1>3, <2>1, <2>2, <2>3, <2>4 DEF Restart, Restored, TypeMemory, net, Nonces
<1>4. ASSUME NEW s \in Sources, Publish(s)
      PROVE  TypeMemory'
  BY <1>4, MemoryKept DEF Publish
<1>5. ASSUME NEW s \in Sources, Enter(s)
      PROVE  TypeMemory'
  BY <1>5, MemoryKept DEF Enter
<1>6. ASSUME NEW a \in Actions, Command(a)
      PROVE  TypeMemory'
  BY <1>6, MemoryKept DEF Command
<1>7. ASSUME NEW m \in Messages, Receive(m)
      PROVE  TypeMemory'
  BY <1>7, MemoryKept DEF Receive
<1>8. CASE SaveSeq
  <2>1. applying.m.src \in Sources /\ applying.m.n \in Nat
    BY <1>8, Hand DEF SaveSeq
  <2>2. seqs' \in [Sources -> Nat]
    BY <1>8, <2>1 DEF SaveSeq, TypeMemory
  <2> QED
    BY <1>8, <2>2 DEF SaveSeq, TypeMemory, memory, net, Nonces
<1>9. CASE SaveNonce
  <2>1. applying.m.n \in Nonces
    BY <1>9, Hand DEF SaveNonce
  <2> QED
    BY <1>9, <2>1 DEF SaveNonce, TypeMemory, memory, net, Nonces
<1>10. CASE ApplyDerisk
  <2>1. applying.m.n \in Nonces
    BY <1>10, Hand DEF ApplyDerisk
  <2>2. flags' \in GuardsType /\ guards' \in GuardsType
    BY <1>10, <2>1, EffectType DEF ApplyDerisk, Persist, TypeMemory
  <2> QED
    BY <1>10, <2>2 DEF ApplyDerisk, TypeMemory, net, Nonces
<1>11. ASSUME NEW r \in reqs, Reject(r)
      PROVE  TypeMemory'
  <2>1. nonces' \subseteq nonces
    BY <1>11 DEF Reject, Kept
  <2> QED
    BY <1>11, <2>1 DEF Reject, TypeMemory, disk, net, Nonces
<1>12. ASSUME NEW r \in reqs, TakeTarget(r)
      PROVE  TypeMemory'
  <2>1. r.m.src \in Sources /\ r.m.n \in Nat /\ r.m.n <= Len(sent[r.m.src])
    BY <1>12, Ask DEF TakeTarget
  <2>2. [seq |-> r.m.n, entryOK |-> ~Expired(r)] \in [seq : Nat, entryOK : BOOLEAN]
    BY <2>1 DEF Expired
  <2>3. lastSeq' \in [Sources -> Nat] /\ target' \in [Sources -> [seq : Nat, entryOK : BOOLEAN]]
    BY <1>12, <2>1, <2>2 DEF TakeTarget, TypeMemory
  <2>4. \A s \in Sources : lastSeq'[s] <= Len(sent[s])
    BY <1>12, <2>1 DEF TakeTarget, TypeMemory
  <2> QED
    BY <1>12, <2>3, <2>4 DEF TakeTarget, TypeMemory, disk, net, Nonces
<1>13. ASSUME NEW r \in reqs, TakeCommand(r)
      PROVE  TypeMemory'
  <2>1. nonces' \subseteq Nonces
    BY <1>13, Ask DEF TakeCommand, Kept, TypeMemory
  <2> QED
    BY <1>13, <2>1 DEF TakeCommand, TypeMemory, disk, net, Nonces
<1>14. CASE Plan
  BY <1>14, MemoryKept DEF Plan
<1>15. CASE Check
  BY <1>15, MemoryKept DEF Check
<1>16. CASE Trip
  <2>1. watch.day \in Int /\ NoDay \in Int /\ flags \in GuardsType /\ guards \in GuardsType
    BY DEF TypeHands, TypeMemory, NoDay
  <2>2. flags' \in GuardsType
    BY <1>16, <2>1 DEF Trip, SetBreaker, GuardsType
  <2>3. guards' = flags' \/ guards' = guards
    BY <1>16 DEF Trip, SetBreaker, Persist
  <2> QED
    BY <1>16, <2>1, <2>2, <2>3 DEF Trip, SetBreaker, TypeMemory, net, Nonces
<1>17. CASE Reset
  <2>1. watch.day \in Int /\ NoDay \in Int /\ flags \in GuardsType /\ guards \in GuardsType
    BY DEF TypeHands, TypeMemory, NoDay
  <2>2. flags' \in GuardsType
    BY <1>17, <2>1 DEF Reset, SetBreaker, GuardsType
  <2>3. guards' = flags' \/ guards' = guards
    BY <1>17 DEF Reset, SetBreaker, Persist
  <2> QED
    BY <1>17, <2>1, <2>2, <2>3 DEF Reset, SetBreaker, TypeMemory, net, Nonces
<1>18. CASE UNCHANGED vars
  BY <1>18, MemoryKept DEF vars
<1> QED
  BY <1>1, <1>2, <1>3, <1>4, <1>5, <1>6, <1>7, <1>8, <1>9,
     <1>10, <1>11, <1>12, <1>13, <1>14, <1>15, <1>16, <1>17, <1>18
     DEF Next, Handling, Watching

\* A step that moves neither handler nor watcher keeps their types.
LEMMA HandsKept ==
  ASSUME TypeOK, [Next]_vars, UNCHANGED <<applying, watch>>, entering' \subseteq Sources
  PROVE  TypeHands'
<1>1. applying.m \in Messages => (Published(applying.m) => Published(applying.m)')
  BY Growth DEF TypeOK
<1> QED
  BY <1>1, Growth DEF TypeOK, TypeHands, Messages, Published

\* The goroutines stand where they can.
LEMMA TypeHandsNext ==
  ASSUME TypeOK, [Next]_vars
  PROVE  TypeHands'
<1> USE DEF TypeOK
<1>1. CASE Tick
  BY <1>1, HandsKept DEF Tick, TypeHands
<1>2. CASE Trade
  BY <1>2, HandsKept DEF Trade, TypeHands
<1>3. CASE Restart
  BY <1>3 DEF Restart, Restored, TypeHands, Free, Asleep, NoDay
<1>4. ASSUME NEW s \in Sources, Publish(s)
      PROVE  TypeHands'
  BY <1>4, HandsKept DEF Publish, TypeHands
<1>5. ASSUME NEW s \in Sources, Enter(s)
      PROVE  TypeHands'
  BY <1>5, HandsKept DEF Enter, TypeHands
<1>6. ASSUME NEW a \in Actions, Command(a)
      PROVE  TypeHands'
  BY <1>6, HandsKept DEF Command, TypeHands
<1>7. ASSUME NEW m \in Messages, Receive(m)
      PROVE  TypeHands'
  BY <1>7, HandsKept DEF Receive, TypeHands
<1>8. CASE SaveSeq
  BY <1>8 DEF SaveSeq, TypeHands, Free
<1>9. CASE SaveNonce
  <2>1. applying.m.n \in Nonces /\ applying.m.src = NoSource
    BY <1>9, Hand DEF SaveNonce, Cmd
  <2>2. applying' = [step |-> "guards", m |-> applying.m]
    BY <1>9 DEF SaveNonce, TypeHands
  <2>3. UNCHANGED <<cmds, entering, watch>> /\ applying.m \in [src : Sources \cup {NoSource}, n : Nat]
    BY <1>9 DEF SaveNonce, TypeHands, net
  <2> QED
    BY <2>1, <2>2, <2>3 DEF TypeHands, Nonces
<1>10. CASE ApplyDerisk
  BY <1>10 DEF ApplyDerisk, TypeHands, Free
<1>11. ASSUME NEW r \in reqs, Reject(r)
      PROVE  TypeHands'
  BY <1>11, HandsKept DEF Reject, TypeHands
<1>12. ASSUME NEW r \in reqs, TakeTarget(r)
      PROVE  TypeHands'
  <2>1. r.m \in Messages /\ Published(r.m)
    BY Ask DEF TypeNet
  <2>2. applying' = [step |-> "seq", m |-> r.m] /\ r.m.src # NoSource /\ UNCHANGED <<net, entering, watch>>
    BY <1>12 DEF TakeTarget
  <2>3. Published(r.m)'
    BY <2>1, <2>2 DEF Published, net
  <2> QED
    BY <2>1, <2>2, <2>3, Shape DEF TypeHands
<1>13. ASSUME NEW r \in reqs, TakeCommand(r)
      PROVE  TypeHands'
  <2>1. r.m \in Messages /\ r.m.n \in Nonces
    BY <1>13, Ask DEF TakeCommand
  <2>2. applying' = [step |-> "nonce", m |-> r.m] /\ r.m.src = NoSource /\ UNCHANGED <<cmds, entering, watch>>
    BY <1>13 DEF TakeCommand, net
  <2> QED
    BY <2>1, <2>2, Shape DEF TypeHands, Nonces
<1>14. CASE Plan
  BY <1>14, HandsKept DEF Plan
<1>15. CASE Check
  <2>1. Today \in Int
    BY ControlAssumption DEF Today, TypeNet
  <2>2. UNCHANGED <<applying, entering, net>> /\ watch' \in [step : {"idle", "trip", "reset"}, day : Int]
    BY <1>15, <2>1 DEF Check
  <2> QED
    BY <2>2 DEF TypeHands, Published, net, Nonces, Messages
<1>16. CASE Trip
  BY <1>16 DEF Trip, SetBreaker, TypeHands, Published, net, Nonces, Messages
<1>17. CASE Reset
  BY <1>17 DEF Reset, SetBreaker, TypeHands, Published, net, Nonces, Messages
<1>18. CASE UNCHANGED vars
  BY <1>18, HandsKept DEF vars, TypeHands
<1> QED
  BY <1>1, <1>2, <1>3, <1>4, <1>5, <1>6, <1>7, <1>8, <1>9,
     <1>10, <1>11, <1>12, <1>13, <1>14, <1>15, <1>16, <1>17, <1>18
     DEF Next, Handling, Watching

\* The history's types.
LEMMA TypeHistoryNext ==
  ASSUME TypeOK, [Next]_vars
  PROVE  TypeHistory'
<1> USE DEF TypeOK
<1>1. CASE Tick
  BY <1>1 DEF Tick, TypeHistory, bounds, history, Works, Fails
<1>2. CASE Trade
  BY <1>2 DEF Trade, TypeHistory, bounds, history, Works, Fails
<1>3. CASE Restart
  <2>1. applying.step = "guards" => applying.m.n \in 1 .. MaxCmds
    BY Hand
  <2>2. saved \subseteq 1 .. MaxCmds
    BY Growth, ControlAssumption DEF TypeMemory, TypeNet, Nonces
  <2>3. guards.paused \in BOOLEAN
    BY DEF TypeMemory, GuardsType
  <2>4. held' \in BOOLEAN
    BY <1>3, <2>3 DEF Restart, Restored, TypeHistory
  <2>5. excused' \in [cmds : SUBSET (1 .. MaxCmds), guards : BOOLEAN]
    BY <1>3, <2>1, <2>2 DEF Restart, Restored, TypeHistory
  <2>6. crashes' \in 0 .. MaxCrashes
    BY <1>3, ControlAssumption DEF Restart, Restored, TypeHistory
  <2> QED
    BY <1>3, <2>4, <2>5, <2>6 DEF Restart, Restored, TypeHistory
<1>4. ASSUME NEW s \in Sources, Publish(s)
      PROVE  TypeHistory'
  BY <1>4 DEF Publish, TypeHistory, bounds, history, Works, Fails
<1>5. ASSUME NEW s \in Sources, Enter(s)
      PROVE  TypeHistory'
  BY <1>5 DEF Enter, TypeHistory, bounds, history, Works, Fails
<1>6. ASSUME NEW a \in Actions, Command(a)
      PROVE  TypeHistory'
  BY <1>6 DEF Command, TypeHistory, bounds, history, Works, Fails
<1>7. ASSUME NEW m \in Messages, Receive(m)
      PROVE  TypeHistory'
  BY <1>7 DEF Receive, TypeHistory, bounds, history, Works, Fails
<1>8. CASE SaveSeq
  BY <1>8, ControlAssumption DEF SaveSeq, TypeHistory, bounds, history, Works, Fails
<1>9. CASE SaveNonce
  <2>1. applying.m.n \in 1 .. MaxCmds
    BY <1>9, Hand DEF SaveNonce
  <2>2. excused' \in [cmds : SUBSET (1 .. MaxCmds), guards : BOOLEAN]
    BY <1>9, <2>1 DEF SaveNonce, TypeHistory
  <2>3. crashes' \in 0 .. MaxCrashes /\ errs' \in 0 .. MaxErrs
    BY <1>9, ControlAssumption DEF SaveNonce, TypeHistory, bounds, Works, Fails
  <2> QED
    BY <1>9, <2>2, <2>3 DEF SaveNonce, TypeHistory
<1>10. CASE ApplyDerisk
  <2>1. applying.m.n \in 1 .. MaxCmds
    BY <1>10, Hand DEF ApplyDerisk
  <2>2. held' \in BOOLEAN
    BY <1>10 DEF ApplyDerisk, TypeHistory
  <2>3. applied' \in [1 .. MaxCmds -> Nat]
    BY <1>10, <2>1 DEF ApplyDerisk, TypeHistory
  <2>4. excused' \in [cmds : SUBSET (1 .. MaxCmds), guards : BOOLEAN]
    BY <1>10 DEF ApplyDerisk, Persist, TypeHistory
  <2>5. crashes' \in 0 .. MaxCrashes /\ errs' \in 0 .. MaxErrs
    BY <1>10, ControlAssumption DEF ApplyDerisk, Persist, TypeHistory, bounds, Works, Fails
  <2> QED
    BY <1>10, <2>2, <2>3, <2>4, <2>5 DEF TypeHistory
<1>11. ASSUME NEW r \in reqs, Reject(r)
      PROVE  TypeHistory'
  <2>1. nonces \subseteq 1 .. MaxCmds
    BY Growth, ControlAssumption DEF TypeMemory, TypeNet, Nonces
  <2>2. excused' \in [cmds : SUBSET (1 .. MaxCmds), guards : BOOLEAN]
    BY <1>11, <2>1 DEF Reject, Forget, TypeHistory
  <2> QED
    BY <1>11, <2>2 DEF Reject, TypeHistory, bounds
<1>12. ASSUME NEW r \in reqs, TakeTarget(r)
      PROVE  TypeHistory'
  BY <1>12 DEF TakeTarget, TypeHistory, bounds, history, Works, Fails
<1>13. ASSUME NEW r \in reqs, TakeCommand(r)
      PROVE  TypeHistory'
  <2>1. nonces \subseteq 1 .. MaxCmds
    BY Growth, ControlAssumption DEF TypeMemory, TypeNet, Nonces
  <2>2. excused' \in [cmds : SUBSET (1 .. MaxCmds), guards : BOOLEAN]
    BY <1>13, <2>1 DEF TakeCommand, Forget, TypeHistory
  <2> QED
    BY <1>13, <2>2 DEF TakeCommand, TypeHistory, bounds
<1>14. CASE Plan
  BY <1>14 DEF Plan, TypeHistory, bounds, history, Works, Fails
<1>15. CASE Check
  BY <1>15 DEF Check, TypeHistory, bounds, history, Works, Fails
<1>16. CASE Trip
  <2>1. excused' \in [cmds : SUBSET (1 .. MaxCmds), guards : BOOLEAN]
    BY <1>16 DEF Trip, SetBreaker, Persist, TypeHistory
  <2> QED
    BY <1>16, <2>1, ControlAssumption DEF Trip, SetBreaker, Persist, TypeHistory, bounds, Works,
       Fails
<1>17. CASE Reset
  <2>1. excused' \in [cmds : SUBSET (1 .. MaxCmds), guards : BOOLEAN]
    BY <1>17 DEF Reset, SetBreaker, Persist, TypeHistory
  <2> QED
    BY <1>17, <2>1, ControlAssumption DEF Reset, SetBreaker, Persist, TypeHistory, bounds,
       Works, Fails
<1>18. CASE UNCHANGED vars
  BY <1>18 DEF vars, TypeHistory, bounds, history, Works, Fails
<1> QED
  BY <1>1, <1>2, <1>3, <1>4, <1>5, <1>6, <1>7, <1>8, <1>9,
     <1>10, <1>11, <1>12, <1>13, <1>14, <1>15, <1>16, <1>17, <1>18
     DEF Next, Handling, Watching

\* A step that touches no seq and puts no target in hand keeps SeqsKept.
LEMMA SeqsFrame ==
  ASSUME TypeOK, SeqsKept, UNCHANGED <<lastSeq, target, seqs>>,
         applying'.step = "seq" => applying' = applying
  PROVE  SeqsKept'
BY DEF SeqsKept

\* The seq of a target is saved right after it is taken.
LEMMA SeqsKeptNext ==
  ASSUME TypeOK, SeqsKept, [Next]_vars
  PROVE  SeqsKept'
<1> USE DEF TypeOK
<1>1. CASE Tick
  BY <1>1, SeqsFrame DEF Tick, memory, disk
<1>2. CASE Trade
  BY <1>2, SeqsFrame DEF Trade, memory, disk
<1>3. CASE Restart
  <2>1. applying'.step = "free"
    BY <1>3 DEF Restart, Restored, Free
  <2>2. \A s \in Sources : seqs[s] \in Nat /\ lastSeq'[s] = (IF seqs[s] > 0 THEN seqs[s] - 1 ELSE 0)
                           /\ target'[s].seq = 0 /\ seqs'[s] = seqs[s]
    BY <1>3 DEF Restart, Restored, OneBack, NoTarget, TypeMemory
  <2> QED
    BY <2>1, <2>2 DEF SeqsKept
<1>4. ASSUME NEW s \in Sources, Publish(s)
      PROVE  SeqsKept'
  BY <1>4, SeqsFrame DEF Publish, memory, disk
<1>5. ASSUME NEW s \in Sources, Enter(s)
      PROVE  SeqsKept'
  BY <1>5, SeqsFrame DEF Enter, memory, disk
<1>6. ASSUME NEW a \in Actions, Command(a)
      PROVE  SeqsKept'
  BY <1>6, SeqsFrame DEF Command, memory, disk
<1>7. ASSUME NEW m \in Messages, Receive(m)
      PROVE  SeqsKept'
  BY <1>7, SeqsFrame DEF Receive, memory, disk
<1>8. CASE SaveSeq
  <2> DEFINE s == applying.m.src  n == applying.m.n
  <2>1. s \in Sources /\ n \in Nat \ {0} /\ target[s].seq = n
    BY <1>8, Hand DEF SaveSeq, SeqsKept
  <2>2. applying'.step = "free" /\ UNCHANGED <<lastSeq, target>>
    BY <1>8 DEF SaveSeq, Free, memory
  <2>3. \A x \in Sources : seqs'[x] = seqs[x] \/ (x = s /\ seqs'[x] = n)
    BY <1>8, <2>1 DEF SaveSeq, TypeMemory
  <2>4. seqs \in [Sources -> Nat] /\ lastSeq \in [Sources -> Nat]
    BY DEF TypeMemory
  <2> QED
    BY <2>1, <2>2, <2>3, <2>4 DEF SeqsKept
<1>9. CASE SaveNonce
  <2>1. applying'.step = "guards"
    BY <1>9 DEF SaveNonce, TypeHands
  <2> QED
    BY <1>9, <2>1, SeqsFrame DEF SaveNonce, memory
<1>10. CASE ApplyDerisk
  BY <1>10, SeqsFrame DEF ApplyDerisk, Free
<1>11. ASSUME NEW r \in reqs, Reject(r)
      PROVE  SeqsKept'
  BY <1>11, SeqsFrame DEF Reject, memory, disk
<1>12. ASSUME NEW r \in reqs, TakeTarget(r)
      PROVE  SeqsKept'
  <2> DEFINE s == r.m.src  n == r.m.n
  <2>1. s \in Sources /\ n \in Nat \ {0} /\ n > lastSeq[s] /\ lastSeq[s] \in Nat /\ seqs[s] \in Nat
    BY <1>12, Ask DEF TakeTarget, Known, TypeMemory
  <2>2. seqs[s] <= lastSeq[s] + 1
    <3>1. target[s].seq \in Nat
      BY <2>1 DEF TypeMemory
    <3> QED
      BY <2>1, <3>1 DEF SeqsKept
  <2>3. /\ lastSeq'[s] = n /\ target'[s].seq = n /\ seqs' = seqs
        /\ applying'.m = r.m
        /\ \A x \in Sources \ {s} : lastSeq'[x] = lastSeq[x] /\ target'[x] = target[x]
    BY <1>12, <2>1 DEF TakeTarget, TypeMemory, disk
  <2> QED
    BY <2>1, <2>2, <2>3 DEF SeqsKept
<1>13. ASSUME NEW r \in reqs, TakeCommand(r)
      PROVE  SeqsKept'
  BY <1>13, SeqsFrame DEF TakeCommand, disk
<1>14. CASE Plan
  BY <1>14, SeqsFrame DEF Plan, memory, disk
<1>15. CASE Check
  BY <1>15, SeqsFrame DEF Check, memory, disk
<1>16. CASE Trip
  BY <1>16, SeqsFrame DEF Trip, SetBreaker
<1>17. CASE Reset
  BY <1>17, SeqsFrame DEF Reset, SetBreaker
<1>18. CASE UNCHANGED vars
  BY <1>18, SeqsFrame DEF vars, memory, disk
<1> QED
  BY <1>1, <1>2, <1>3, <1>4, <1>5, <1>6, <1>7, <1>8, <1>9,
     <1>10, <1>11, <1>12, <1>13, <1>14, <1>15, <1>16, <1>17, <1>18
     DEF Next, Handling, Watching

\* A step that touches no pause and writes no guards row keeps PauseKept.
LEMMA PauseFrame ==
  ASSUME PauseKept, flags'.paused = flags.paused, guards' = guards, held' = held,
         excused'.guards = excused.guards
  PROVE  PauseKept'
BY DEF PauseKept

\* Every writer of the guards row writes all that is known.
LEMMA PauseKeptNext ==
  ASSUME TypeOK, PauseKept, [Next]_vars
  PROVE  PauseKept'
<1> USE DEF TypeOK
<1>1. CASE Tick
  BY <1>1, PauseFrame DEF Tick, memory, disk, history
<1>2. CASE Trade
  BY <1>2, PauseFrame DEF Trade, memory, disk, history
<1>3. CASE Restart
  <2>1. flags' = guards /\ guards' = guards /\ held' = (IF excused.guards THEN guards.paused ELSE held)
    BY <1>3 DEF Restart, Restored
  <2>2. excused'.guards = FALSE /\ guards.paused \in BOOLEAN /\ held \in BOOLEAN
    BY <1>3 DEF Restart, Restored, TypeMemory, GuardsType, TypeHistory
  <2>3. CASE excused.guards
    BY <2>1, <2>2, <2>3 DEF PauseKept
  <2>4. CASE ~excused.guards
    BY <2>1, <2>2, <2>4 DEF PauseKept
  <2> QED
    BY <2>3, <2>4
<1>4. ASSUME NEW s \in Sources, Publish(s)
      PROVE  PauseKept'
  BY <1>4, PauseFrame DEF Publish, memory, disk, history
<1>5. ASSUME NEW s \in Sources, Enter(s)
      PROVE  PauseKept'
  BY <1>5, PauseFrame DEF Enter, memory, disk, history
<1>6. ASSUME NEW a \in Actions, Command(a)
      PROVE  PauseKept'
  BY <1>6, PauseFrame DEF Command, memory, disk, history
<1>7. ASSUME NEW m \in Messages, Receive(m)
      PROVE  PauseKept'
  BY <1>7, PauseFrame DEF Receive, memory, disk, history
<1>8. CASE SaveSeq
  BY <1>8, PauseFrame DEF SaveSeq, memory, history
<1>9. CASE SaveNonce
  <2>1. excused'.guards = excused.guards
    BY <1>9 DEF SaveNonce, TypeHistory
  <2> QED
    BY <1>9, <2>1, PauseFrame DEF SaveNonce, memory
<1>10. CASE ApplyDerisk
  <2> DEFINE c == applying.m.n
  <2>1. c \in Nonces
    BY <1>10, Hand DEF ApplyDerisk
  <2>2. cmds[c].action \in {"liquidate", "pause", "block", "resume"}
    <3>1. cmds[c] \in Commands
      BY <2>1 DEF TypeNet, Nonces
    <3> QED
      BY <3>1, ControlAssumption DEF Commands
  <2>3. flags' = Effect(flags, c) /\ flags' \in GuardsType
    BY <1>10, <2>1, EffectType DEF ApplyDerisk
  <2>4. flags'.paused <=> held'
    <3>1. CASE cmds[c].action \in {"liquidate", "pause"}
      BY <1>10, <2>1, <2>3, <3>1, EffectType DEF ApplyDerisk
    <3>2. CASE cmds[c].action = "resume"
      BY <1>10, <2>1, <2>3, <3>2, EffectType DEF ApplyDerisk
    <3>3. CASE cmds[c].action = "block"
      BY <1>10, <2>1, <2>3, <3>3, EffectType DEF ApplyDerisk, PauseKept
    <3> QED
      BY <2>2, <3>1, <3>2, <3>3
  <2>5. ~excused'.guards => guards' = [Effect(flags, c) EXCEPT !.reason = NoDay]
    BY <1>10 DEF ApplyDerisk, Persist, TypeHistory
  <2>6. [Effect(flags, c) EXCEPT !.reason = NoDay].paused = flags'.paused
    BY <2>3 DEF GuardsType
  <2> QED
    BY <2>4, <2>5, <2>6 DEF PauseKept
<1>11. ASSUME NEW r \in reqs, Reject(r)
      PROVE  PauseKept'
  <2>1. excused'.guards = excused.guards
    BY <1>11 DEF Reject, Forget, TypeHistory
  <2> QED
    BY <1>11, <2>1, PauseFrame DEF Reject, disk
<1>12. ASSUME NEW r \in reqs, TakeTarget(r)
      PROVE  PauseKept'
  BY <1>12, PauseFrame DEF TakeTarget, memory, disk, history
<1>13. ASSUME NEW r \in reqs, TakeCommand(r)
      PROVE  PauseKept'
  <2>1. excused'.guards = excused.guards
    BY <1>13 DEF TakeCommand, Forget, TypeHistory
  <2> QED
    BY <1>13, <2>1, PauseFrame DEF TakeCommand, disk
<1>14. CASE Plan
  BY <1>14, PauseFrame DEF Plan, memory, disk, history
<1>15. CASE Check
  BY <1>15, PauseFrame DEF Check, memory, disk, history
<1>16. CASE Trip
  <2>1. flags'.paused = flags.paused /\ held' = held
    BY <1>16 DEF Trip, SetBreaker, TypeMemory, GuardsType
  <2>2. ~excused'.guards => guards' = flags'
    BY <1>16 DEF Trip, SetBreaker, Persist, TypeHistory
  <2> QED
    BY <2>1, <2>2 DEF PauseKept
<1>17. CASE Reset
  <2>1. flags'.paused = flags.paused /\ held' = held
    BY <1>17 DEF Reset, SetBreaker, TypeMemory, GuardsType
  <2>2. ~excused'.guards => guards' = flags'
    BY <1>17 DEF Reset, SetBreaker, Persist, TypeHistory
  <2> QED
    BY <2>1, <2>2 DEF PauseKept
<1>18. CASE UNCHANGED vars
  BY <1>18, PauseFrame DEF vars, memory, disk, history
<1> QED
  BY <1>1, <1>2, <1>3, <1>4, <1>5, <1>6, <1>7, <1>8, <1>9,
     <1>10, <1>11, <1>12, <1>13, <1>14, <1>15, <1>16, <1>17, <1>18
     DEF Next, Handling, Watching

\* What a command is made of.
LEMMA Issued ==
  ASSUME TypeOK, NEW c \in Nonces
  PROVE  /\ c \in Nat \ {0} /\ c \in 1 .. MaxCmds
         /\ Exp(cmds[c].ts) \in Nat /\ TsOf(Cmd(c)) = cmds[c].ts
<1>1. c \in 1 .. Len(cmds) /\ cmds \in Seq(Commands) /\ Len(cmds) <= MaxCmds
  BY DEF TypeOK, TypeNet, Nonces
<1>2. cmds[c] \in Commands
  BY <1>1
<1>3. cmds[c].ts \in 0 .. MaxNow
  BY <1>2 DEF Commands
<1>4. Exp(cmds[c].ts) \in Nat
  BY <1>3, ControlAssumption DEF Exp
<1>5. c \in Nat \ {0} /\ c \in 1 .. MaxCmds
  BY <1>1, ControlAssumption
<1> QED
  BY <1>4, <1>5 DEF TsOf, Cmd

\* With the mutex free, or a target in hand, no command is in hand.
LEMMA NoneInHand ==
  ASSUME TypeOK, applying.step \in {"free", "seq"}, NEW c \in Nonces
  PROVE  ~InHand(c)
BY Hand, Issued, ControlAssumption DEF InHand, Cmd, Free

\* The nonces are as they were, and whoever came to ask for one asked now.
LEMMA NoncesFrame ==
  ASSUME TypeOK, NoncesKept, UNCHANGED <<cmds, nonces, saved, applied>>,
         excused'.cmds = excused.cmds, now' \in Nat, now <= now',
         \A c \in Nonces : InHand(c) \/ InHand(c)' => applying' = applying,
         \A q \in reqs' : q \in reqs \/ q.at = now
  PROVE  NoncesKept'
<1>1. Nonces' = Nonces
  BY DEF Nonces
<1> SUFFICES ASSUME NEW c \in Nonces, c \notin excused.cmds
             PROVE  Remembers(c)'
  BY <1>1 DEF NoncesKept
<1>2. Remembers(c) /\ (InHand(c)' <=> InHand(c)) /\ (InHand(c) => applying' = applying)
  BY DEF NoncesKept, InHand
<1>3. Exp(cmds[c].ts) \in Nat /\ TsOf(Cmd(c)) = cmds[c].ts /\ TsOf(Cmd(c))' = cmds[c].ts /\ now \in Nat
  BY Issued, ControlAssumption DEF TypeOK, TypeNet, TsOf, Cmd
<1>4. \A q \in reqs : q.m = Cmd(c) => (Expired(q)' <=> Expired(q))
  BY <1>3 DEF Expired, Exp
<1>5. ASSUME applied[c] = 1, c \notin nonces
      PROVE  now' > Exp(cmds[c].ts) /\ \A q \in reqs' : q.m = Cmd(c) => Expired(q)'
  <2>1. now > Exp(cmds[c].ts) /\ \A q \in reqs : q.m = Cmd(c) => Expired(q)
    BY <1>2, <1>5 DEF Remembers
  <2>2. \A q \in reqs' : q.m = Cmd(c) /\ q.at = now => Expired(q)'
    BY <1>3, <2>1 DEF Expired, Exp
  <2> QED
    BY <1>3, <1>4, <2>1, <2>2
<1> QED
  BY <1>2, <1>5 DEF Remembers, Cmd, Exp

\* What a request lets go of was applied, and nobody can ask for it in time.
LEMMA LetGo ==
  ASSUME TypeOK, NoncesKept, NEW r \in reqs, Unlocked, Forget(r),
         NEW c \in Nonces, c \notin excused'.cmds, c \in nonces, c \notin Kept(r)
  PROVE  /\ c \notin excused.cmds /\ applied[c] = 1
         /\ now > Exp(cmds[c].ts) /\ \A q \in reqs : q.m = Cmd(c) => Expired(q)
<1>1. excused \in [cmds : SUBSET (1 .. MaxCmds), guards : BOOLEAN]
  BY DEF TypeOK, TypeHistory
<1>2. excused'.cmds = excused.cmds \cup
        {d \in nonces \ Kept(r) : \E q \in reqs : q.m = Cmd(d) /\ ~Expired(q)}
  BY <1>1 DEF Forget, Cmd
<1>3. c \notin excused.cmds /\ \A q \in reqs : q.m = Cmd(c) => Expired(q)
  BY <1>2
<1>4. applied[c] = 1
  BY <1>3, NoneInHand DEF NoncesKept, Remembers, Unlocked
<1>5. now > Exp(cmds[c].ts)
  BY Ask, Issued, ControlAssumption DEF Kept, TypeOK, TypeNet
<1> QED
  BY <1>3, <1>4, <1>5

\* A request that forgets on the way keeps what is true of every other command.
LEMMA Forgets ==
  ASSUME TypeOK, NoncesKept, NEW r \in reqs, Unlocked, Forget(r), UNCHANGED <<now, net, saved, applied>>,
         NEW c \in Nonces, c \notin excused'.cmds, ~InHand(c)', c \in nonces' <=> c \in Kept(r),
         reqs' \subseteq reqs
  PROVE  Remembers(c)'
<1>1. c \notin excused.cmds /\ Remembers(c) /\ ~InHand(c)
  BY NoneInHand DEF Forget, NoncesKept, Unlocked, TypeOK, TypeHistory
<1>2. Kept(r) \subseteq nonces /\ UNCHANGED cmds
  BY DEF Kept, net
<1>3. \A q \in reqs : q.m = Cmd(c) => (Expired(q)' <=> Expired(q))
  BY DEF Expired, Exp, TsOf, net
<1>4. ASSUME applied[c] = 1, c \notin Kept(r)
      PROVE  now > Exp(cmds[c].ts) /\ \A q \in reqs : q.m = Cmd(c) => Expired(q)
  BY <1>1, <1>4, LetGo DEF Remembers
<1> QED
  BY <1>1, <1>2, <1>3, <1>4 DEF Remembers, Cmd, Exp

\* A command's nonce outlives everything that may still deliver it.
LEMMA NoncesKeptNext ==
  ASSUME TypeOK, NoncesKept, [Next]_vars
  PROVE  NoncesKept'
<1> USE DEF TypeOK
<1>1. CASE Tick
  BY <1>1, NoncesFrame, ControlAssumption DEF Tick, net, memory, disk, history, InHand, TypeNet
<1>2. CASE Trade
  BY <1>2, NoncesFrame, ControlAssumption DEF Trade, net, memory, disk, history, InHand, TypeNet
<1>3. CASE Restart
  <2>1. /\ nonces' = Unexpired /\ saved' = Unexpired /\ UNCHANGED <<now, cmds, applied>>
        /\ reqs' = {} /\ applying' = Free /\ Nonces' = Nonces
    BY <1>3 DEF Restart, Restored, net, Nonces
  <2>2. excused'.cmds = excused.cmds \cup {c \in saved : Exp(cmds[c].ts) = now}
          \cup (IF applying.step = "guards" THEN {applying.m.n} ELSE {})
    BY <1>3 DEF Restart, Restored
  <2> SUFFICES ASSUME NEW c \in Nonces, c \notin excused'.cmds
               PROVE  Remembers(c)'
    BY <2>1 DEF NoncesKept
  <2>3. Remembers(c) /\ ~InHand(c)' /\ (c \in saved => Exp(cmds[c].ts) # now)
    BY <2>1, <2>2, Issued DEF NoncesKept, InHand, Cmd, Free
  <2>4. InHand(c) => applying.step # "guards"
    BY <2>2 DEF InHand, Cmd
  <2>5. applied[c] = 1 => c \in saved \/ now > Exp(cmds[c].ts)
    BY <2>3 DEF Remembers
  <2>6. c \in Unexpired <=> c \in saved /\ Exp(cmds[c].ts) > now
    BY DEF Unexpired
  <2>7. Exp(cmds[c].ts) \in Nat /\ now \in Nat
    BY Issued, ControlAssumption DEF TypeNet
  <2> QED
    BY <2>1, <2>3, <2>4, <2>5, <2>6, <2>7 DEF Remembers, Exp
<1>4. ASSUME NEW s \in Sources, Publish(s)
      PROVE  NoncesKept'
  BY <1>4, NoncesFrame, ControlAssumption DEF Publish, net, memory, disk, history, InHand,
     TypeNet
<1>5. ASSUME NEW s \in Sources, Enter(s)
      PROVE  NoncesKept'
  BY <1>5, NoncesFrame, ControlAssumption DEF Enter, net, memory, disk, history, InHand, TypeNet
<1>6. ASSUME NEW a \in Actions, Command(a)
      PROVE  NoncesKept'
  <2>1. /\ UNCHANGED <<now, nonces, saved, applied, excused, applying, reqs>>
        /\ Nonces' = Nonces \cup {Len(cmds) + 1} /\ Len(cmds) \in Nat /\ Len(cmds') = Len(cmds) + 1
        /\ Len(cmds) < MaxCmds /\ \A c \in Nonces : cmds'[c] = cmds[c]
    BY <1>6 DEF Command, memory, disk, history, Nonces, TypeNet
  <2>2. ASSUME NEW c \in Nonces, c \notin excused.cmds
        PROVE  Remembers(c)'
    <3>1. Remembers(c) /\ TsOf(Cmd(c))' = cmds[c].ts /\ TsOf(Cmd(c)) = cmds[c].ts
      BY <2>1, <2>2 DEF NoncesKept, TsOf, Cmd
    <3>2. \A q \in reqs : q.m = Cmd(c) => (Expired(q)' <=> Expired(q))
      BY <3>1 DEF Expired, Exp
    <3> QED
      BY <2>1, <3>1, <3>2 DEF Remembers, InHand, Cmd, Exp
  <2>3. ASSUME NEW c \in {Len(cmds) + 1}
        PROVE  Remembers(c)'
    <3>1. c \notin Nonces /\ c \in 1 .. MaxCmds /\ applied[c] = 0
      BY <2>1, ControlAssumption DEF NoncesKept, Nonces
    <3>2. ~InHand(c)
      BY <3>1, Hand, ControlAssumption, <2>1 DEF InHand, Cmd, Free, TypeHands
    <3>3. c \notin nonces /\ c \notin saved
      BY <3>1 DEF TypeMemory
    <3> QED
      BY <2>1, <3>1, <3>2, <3>3 DEF Remembers, InHand, Cmd
  <2> QED
    BY <2>1, <2>2, <2>3, ControlAssumption DEF NoncesKept
<1>7. ASSUME NEW m \in Messages, Receive(m)
      PROVE  NoncesKept'
  BY <1>7, NoncesFrame, ControlAssumption DEF Receive, net, memory, disk, history, InHand,
     TypeNet
<1>8. CASE SaveSeq
  <2>1. \A c \in Nonces : ~InHand(c) /\ ~InHand(c)'
    BY <1>8, NoneInHand, Issued DEF SaveSeq, InHand, Cmd, Free
  <2> QED
    BY <1>8, <2>1, NoncesFrame, ControlAssumption DEF SaveSeq, net, memory, history, TypeNet
<1>9. CASE SaveNonce
  <2> DEFINE d == applying.m.n
  <2>1. d \in Nonces /\ applying.m = Cmd(d) /\ applying.step = "nonce"
    BY <1>9, Hand DEF SaveNonce
  <2>2. /\ UNCHANGED <<now, cmds, nonces, applied, reqs>> /\ Nonces' = Nonces
        /\ applying'.m = applying.m /\ applying'.step = "guards"
    BY <1>9 DEF SaveNonce, net, memory, TypeHands, Nonces
  <2>3. /\ saved' \subseteq saved \cup {d} /\ saved \subseteq saved' /\ excused.cmds \subseteq excused'.cmds
        /\ d \in saved' \/ d \in excused'.cmds
    BY <1>9 DEF SaveNonce, TypeHistory
  <2> SUFFICES ASSUME NEW c \in Nonces, c \notin excused'.cmds
               PROVE  Remembers(c)'
    BY <2>2 DEF NoncesKept
  <2>4. Remembers(c) /\ (InHand(c) <=> c = d) /\ (InHand(c)' <=> c = d)
    BY <2>1, <2>2, <2>3 DEF NoncesKept, InHand, Cmd
  <2>5. \A q \in reqs : q.m = Cmd(c) => (Expired(q)' <=> Expired(q))
    BY <2>2 DEF Expired, Exp, TsOf, Cmd
  <2> QED
    BY <2>1, <2>2, <2>3, <2>4, <2>5 DEF Remembers, Cmd, Exp
<1>10. CASE ApplyDerisk
  <2> DEFINE d == applying.m.n
  <2>1. d \in Nonces /\ d \in 1 .. MaxCmds /\ applying.m = Cmd(d) /\ applying.step = "guards"
    BY <1>10, Hand DEF ApplyDerisk
  <2>2. /\ UNCHANGED <<now, cmds, nonces, saved, reqs>> /\ Nonces' = Nonces /\ applying' = Free
        /\ \A c \in 1 .. MaxCmds : applied'[c] = (IF c = d THEN applied[c] + 1 ELSE applied[c])
    BY <1>10, <2>1 DEF ApplyDerisk, net, Nonces, TypeHistory
  <2>3. excused'.cmds = excused.cmds
    BY <1>10 DEF ApplyDerisk, Persist, TypeHistory
  <2>4. \A c \in 1 .. MaxCmds : c > Len(cmds') => applied'[c] = 0
    BY <2>1, <2>2 DEF NoncesKept, Nonces
  <2> SUFFICES ASSUME NEW c \in Nonces, c \notin excused.cmds
               PROVE  Remembers(c)'
    BY <2>2, <2>3, <2>4 DEF NoncesKept
  <2>5. Remembers(c) /\ (InHand(c) <=> c = d) /\ ~InHand(c)' /\ c \in 1 .. MaxCmds
    BY <2>1, <2>2, Issued DEF NoncesKept, InHand, Cmd, Free
  <2>6. \A q \in reqs : q.m = Cmd(c) => (Expired(q)' <=> Expired(q))
    BY <2>2 DEF Expired, Exp, TsOf, Cmd
  <2> QED
    BY <2>1, <2>2, <2>5, <2>6 DEF Remembers, Cmd, Exp
<1>11. ASSUME NEW r \in reqs, Reject(r)
      PROVE  NoncesKept'
  <2>1. \A c \in Nonces : ~InHand(c) /\ ~InHand(c)'
    BY <1>11, NoneInHand DEF Reject, Unlocked, InHand, Cmd
  <2>2. CASE UNCHANGED <<nonces, excused>>
    BY <1>11, <2>1, <2>2, NoncesFrame, ControlAssumption DEF Reject, net, disk, TypeNet
  <2>3. CASE nonces' = Kept(r) /\ Forget(r)
    <3>1. Nonces' = Nonces /\ UNCHANGED <<now, net, saved, applied>> /\ reqs' \subseteq reqs /\ Unlocked
      BY <1>11 DEF Reject, net, disk, Nonces
    <3> QED
      BY <2>1, <2>3, <3>1, Forgets DEF NoncesKept, net
  <2> QED
    BY <1>11, <2>2, <2>3 DEF Reject
<1>12. ASSUME NEW r \in reqs, TakeTarget(r)
      PROVE  NoncesKept'
  <2>1. \A c \in Nonces : ~InHand(c) /\ ~InHand(c)'
    BY <1>12, NoneInHand DEF TakeTarget, Unlocked, InHand, Cmd
  <2> QED
    BY <1>12, <2>1, NoncesFrame, ControlAssumption DEF TakeTarget, net, disk, history, TypeNet
<1>13. ASSUME NEW r \in reqs, TakeCommand(r)
      PROVE  NoncesKept'
  <2> DEFINE d == r.m.n
  <2>1. d \in Nonces /\ r.m = Cmd(d) /\ r.m.src = NoSource /\ ~Expired(r) /\ d \notin Kept(r) /\ Unlocked
    BY <1>13, Ask DEF TakeCommand
  <2>2. /\ UNCHANGED <<now, net, saved, applied>> /\ Nonces' = Nonces /\ reqs' \subseteq reqs /\ Forget(r)
        /\ applying' = [step |-> "nonce", m |-> r.m] /\ nonces' = Kept(r) \cup {d}
    BY <1>13 DEF TakeCommand, net, disk, Nonces
  <2>3. d \notin nonces
    BY <2>1, Issued, Ask, ControlAssumption DEF Kept, Expired, TypeNet, TsOf, Cmd
  <2> SUFFICES ASSUME NEW c \in Nonces, c \notin excused'.cmds
               PROVE  Remembers(c)'
    BY <2>2 DEF NoncesKept, net
  <2>4. CASE c = d
    <3>1. c \notin excused.cmds /\ Remembers(c) /\ ~InHand(c)
      BY <2>1, <2>2, NoneInHand DEF Forget, NoncesKept, Unlocked, TypeHistory
    <3>2. applied[c] = 0
      BY <2>1, <2>3, <2>4, <3>1 DEF Remembers
    <3>3. c \notin saved
      BY <3>1, <3>2 DEF Remembers
    <3>4. InHand(c)'
      BY <2>1, <2>2, <2>4 DEF InHand, Cmd
    <3> QED
      BY <2>2, <2>4, <3>2, <3>3, <3>4 DEF Remembers
  <2>5. CASE c # d
    <3>1. ~InHand(c)'
      BY <2>1, <2>2, <2>5 DEF InHand, Cmd
    <3>2. c \in nonces' <=> c \in Kept(r)
      BY <2>2, <2>5
    <3> QED
      BY <2>1, <2>2, <3>1, <3>2, Forgets
  <2> QED
    BY <2>4, <2>5
<1>14. CASE Plan
  BY <1>14, NoncesFrame, ControlAssumption DEF Plan, net, memory, disk, history, InHand, TypeNet
<1>15. CASE Check
  BY <1>15, NoncesFrame, ControlAssumption DEF Check, net, memory, disk, history, InHand,
     TypeNet
<1>16. CASE Trip
  <2>1. excused'.cmds = excused.cmds
    BY <1>16 DEF Trip, SetBreaker, Persist, TypeHistory
  <2> QED
    BY <1>16, <2>1, NoncesFrame, ControlAssumption DEF Trip, SetBreaker, net, InHand, TypeNet
<1>17. CASE Reset
  <2>1. excused'.cmds = excused.cmds
    BY <1>17 DEF Reset, SetBreaker, Persist, TypeHistory
  <2> QED
    BY <1>17, <2>1, NoncesFrame, ControlAssumption DEF Reset, SetBreaker, net, InHand, TypeNet
<1>18. CASE UNCHANGED vars
  BY <1>18, NoncesFrame, ControlAssumption DEF vars, net, memory, disk, history, InHand, TypeNet
<1> QED
  BY <1>1, <1>2, <1>3, <1>4, <1>5, <1>6, <1>7, <1>8, <1>9,
     <1>10, <1>11, <1>12, <1>13, <1>14, <1>15, <1>16, <1>17, <1>18
     DEF Next, Handling, Watching

\* The initial state.
LEMMA InitIInv == Init => IInv
<1> SUFFICES ASSUME Init
             PROVE  IInv
  OBVIOUS
<1>1. TypeNet
  BY ControlAssumption DEF Init, TypeNet, Commands
<1>2. NoGuards \in GuardsType /\ NoTarget \in [seq : Nat, entryOK : BOOLEAN]
  BY DEF NoGuards, NoTarget, GuardsType, NoDay
<1>3. TypeMemory
  BY <1>2 DEF Init, TypeMemory, Nonces
<1>4. TypeHands
  BY DEF Init, TypeHands, Free, Asleep, NoDay
<1>5. TypeHistory
  <2>1. crashes \in 0 .. MaxCrashes /\ errs \in 0 .. MaxErrs
    BY ControlAssumption DEF Init
  <2>2. excused \in [cmds : SUBSET (1 .. MaxCmds), guards : BOOLEAN]
    BY DEF Init
  <2> QED
    BY <2>1, <2>2 DEF Init, TypeHistory
<1>6. SeqsKept /\ PauseKept
  BY DEF Init, SeqsKept, PauseKept, NoTarget, NoGuards, Free
<1>7. NoncesKept
  BY DEF Init, NoncesKept, Nonces
<1> QED
  BY <1>1, <1>3, <1>4, <1>5, <1>6, <1>7 DEF IInv, TypeOK

\* Every step keeps the invariant.
LEMMA NextIInv == IInv /\ [Next]_vars => IInv'
<1> SUFFICES ASSUME IInv, [Next]_vars
             PROVE  IInv'
  OBVIOUS
<1>1. TypeNet' /\ TypeMemory' /\ TypeHands' /\ TypeHistory'
  BY TypeNetNext, TypeMemoryNext, TypeHandsNext, TypeHistoryNext DEF IInv
<1>2. SeqsKept' /\ PauseKept' /\ NoncesKept'
  BY SeqsKeptNext, PauseKeptNext, NoncesKeptNext DEF IInv
<1> QED
  BY <1>1, <1>2 DEF IInv, TypeOK

\* The invariant holds in every state the system reaches.
THEOREM Invariance == Spec => []IInv
  BY InitIInv, NextIInv, PTL DEF Spec

\* Every variable keeps its type.
THEOREM TypeCorrect == Spec => []TypeOK
<1>1. IInv => TypeOK
  BY DEF IInv
<1> QED
  BY <1>1, Invariance, PTL

\* A command takes effect once, however often, late and over however many
\* restarts it is delivered, save for the commands that `excused` names.
THEOREM AppliedOnce == Spec => []DeriskOnce
<1>1. IInv => DeriskOnce
  BY Issued DEF IInv, NoncesKept, Remembers, DeriskOnce, InHand, Cmd
<1> QED
  BY <1>1, Invariance, PTL

\* A pause lasts until a resume, whoever writes the guards row and whenever the
\* process is started again, unless that very write failed.
THEOREM PauseLasts == Spec => []PauseSticks
<1>1. IInv => PauseSticks
  BY DEF IInv, PauseKept, PauseSticks
<1> QED
  BY <1>1, Invariance, PTL

\* Targets never step back behind what was stored, for any sources.
THEOREM NeverOlder == Spec => []NoStepBack
<1>1. IInv => NoStepBack
  BY DEF IInv, SeqsKept, NoStepBack
<1> QED
  BY <1>1, Invariance, PTL

\* After a restart the last target of a source can come again.
THEOREM LastComesAgain == Spec => []RetainedTaken
<1>1. IInv => RetainedTaken
  BY DEF IInv, SeqsKept, RetainedTaken, TypeOK, TypeMemory
<1> QED
  BY <1>1, Invariance, PTL

=============================================================================
