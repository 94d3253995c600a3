--------------------------- MODULE BoxPoolProofs ----------------------------
(***************************************************************************)
(* What BoxPool guarantees for every number of coroutines and boxes and    *)
(* every bound on reuses, crashes and failures.                            *)
(***************************************************************************)
EXTENDS BoxPool, FiniteSetTheorems, TLAPS

\* The shape of a command.
LEMMA CommandType ==
  ASSUME NEW c \in Commands
  PROVE  /\ c.op \in {"init", "cleanup"} /\ c.by \in Isolator
         /\ c.box \in Box /\ c.epoch \in 0..MaxCrashes
BY DEF Commands

\* Commands with the same fields are the same command.
LEMMA CommandEq ==
  ASSUME NEW c \in Commands, NEW d \in Commands,
         c.op = d.op, c.by = d.by, c.box = d.box, c.epoch = d.epoch
  PROVE  c = d
BY DEF Commands

\* The coroutine of a command awaits no other one.
LEMMA OneCommand ==
  ASSUME PoolInv, NEW c \in cmds, NEW d \in cmds,
         c.epoch = epoch, d.epoch = epoch, c.by = d.by
  PROVE  c = d
BY CommandEq DEF PoolInv, TypeOK, Awaited

\* A command just started is a command.
LEMMA CmdType ==
  ASSUME TypeOK, NEW op \in {"init", "cleanup"}, NEW i \in Isolator, NEW b \in Box
  PROVE  /\ Cmd(op, i, b) \in Commands
         /\ Cmd(op, i, b).op = op /\ Cmd(op, i, b).by = i
         /\ Cmd(op, i, b).box = b /\ Cmd(op, i, b).epoch = epoch
BY DEF Cmd, Commands, TypeOK

\* The initial states satisfy the invariant.
LEMMA InitInv == Init => PoolInv
BY PoolAssumption
DEF Init, PoolInv, TypeOK, Awaited, HoldersPresent, BoxExclusive, CleanupsSafe,
    Holds, Holding, Ended

\* Starting isolate --init on an id, with nothing of i's own in flight.
LEMMA StartInitStep ==
  ASSUME PoolInv, NEW i \in Isolator, NEW b \in Box, NEW left \in SUBSET Box,
         pc[i] = "new" \/ (pc[i] = "init" /\ reply[i] = "exists"),
         StartInit(i, b, left), UNCHANGED <<dirs, epoch, faults, reuses>>
  PROVE  PoolInv'
<1> DEFINE n == Cmd("init", i, b)
<1>0. TypeOK /\ Awaited /\ HoldersPresent /\ BoxExclusive /\ CleanupsSafe
  BY DEF PoolInv
<1>1. n \in Commands /\ n.op = "init" /\ n.by = i /\ n.box = b /\ n.epoch = epoch
  BY <1>0, CmdType
<1>2. cmds' = cmds \cup {n}
  BY DEF StartInit
<1> HIDE DEF n
<1>3. TypeOK'
  BY <1>0, <1>1, <1>2 DEF TypeOK, StartInit
<1>4. \A j \in Isolator : Holding(j)' <=> Holding(j)
  BY <1>0 DEF TypeOK, StartInit, Holding
<1>5. \A j \in Isolator : Holding(j) => box'[j] = box[j]
  BY <1>0 DEF TypeOK, StartInit, Holding
<1>6. Awaited'
  BY <1>0, <1>1, <1>2, CommandType DEF TypeOK, StartInit, Awaited
<1>7. HoldersPresent'
  BY <1>0, <1>4, <1>5 DEF HoldersPresent
<1>8. BoxExclusive'
  BY <1>0, <1>4, <1>5 DEF BoxExclusive, Holds
<1>9. CleanupsSafe'
  BY <1>0, <1>1, <1>2, <1>4, <1>5 DEF CleanupsSafe, Holds
<1> QED BY <1>3, <1>6, <1>7, <1>8, <1>9 DEF PoolInv

\* A step of i that starts no command and changes nothing but pc[i]: what i
\* holds afterwards it held before, and no awaited command is left behind.
LEMMA LocalStep ==
  ASSUME PoolInv, NEW i \in Isolator, TypeOK',
         \A j \in Isolator \ {i} : pc'[j] = pc[j],
         UNCHANGED <<dirs, box, reply, cmds, epoch>>,
         Holding(i)' => Holding(i),
         pc[i] \in {"init", "cleanup"} => reply[i] # "none"
  PROVE  PoolInv'
<1>0. TypeOK /\ Awaited /\ HoldersPresent /\ BoxExclusive /\ CleanupsSafe
  BY DEF PoolInv
<1>1. \A j \in Isolator : Holding(j)' => Holding(j)
  BY DEF Holding
<1>2. Awaited'
  BY <1>0, CommandType DEF TypeOK, Awaited
<1>3. HoldersPresent' /\ BoxExclusive' /\ CleanupsSafe'
  BY <1>0, <1>1 DEF HoldersPresent, BoxExclusive, CleanupsSafe, Holds
<1> QED BY <1>2, <1>3 DEF PoolInv

\* Popping an id or giving up.
LEMMA ProbeStep ==
  ASSUME PoolInv, NEW i \in Isolator, NEW ids \in SUBSET Box,
         pc[i] = "new" \/ (pc[i] = "init" /\ reply[i] = "exists"),
         Probe(i, ids), UNCHANGED <<dirs, epoch, faults, reuses>>
  PROVE  PoolInv'
<1>1. CASE \E b \in ids : StartInit(i, b, ids \ {b})
  <2>1. PICK b \in ids : StartInit(i, b, ids \ {b})
    BY <1>1
  <2> QED BY <2>1, StartInitStep
<1>2. CASE GiveUp(i)
  <2>1. TypeOK'
    BY <1>2 DEF PoolInv, TypeOK, GiveUp, Ended
  <2>2. ~ Holding(i)'
    BY <1>2 DEF PoolInv, TypeOK, GiveUp, Holding
  <2>3. \A j \in Isolator \ {i} : pc'[j] = pc[j]
    BY <1>2 DEF PoolInv, TypeOK, GiveUp
  <2> QED BY <1>2, <2>1, <2>2, <2>3, LocalStep DEF GiveUp
<1> QED BY <1>1, <1>2 DEF Probe

\* The start of isolate --cleanup by the owner of a box.
LEMMA ExitStep ==
  ASSUME PoolInv, NEW i \in Isolator, Exit(i)
  PROVE  PoolInv'
<1> DEFINE n == Cmd("cleanup", i, box[i])
<1>0. TypeOK /\ Awaited /\ HoldersPresent /\ BoxExclusive /\ CleanupsSafe
  BY DEF PoolInv
<1>1. Holding(i) /\ box[i] \in dirs /\ box[i] \in Box
  BY <1>0 DEF Exit, Holding, HoldersPresent, TypeOK
<1>2. n \in Commands /\ n.op = "cleanup" /\ n.by = i /\ n.box = box[i] /\ n.epoch = epoch
  BY <1>0, <1>1, CmdType
<1>3. cmds' = cmds \cup {n}
  BY DEF Exit
<1> HIDE DEF n
<1>4. \A c \in cmds : c.op = "cleanup" => c.box # box[i]
  <2> SUFFICES ASSUME NEW c \in cmds, c.op = "cleanup", c.box = box[i] PROVE FALSE
    OBVIOUS
  <2>1. c.by = i /\ c.epoch = epoch
    BY <1>0, <1>1 DEF CleanupsSafe, Holds
  <2> QED BY <1>0, <2>1 DEF Awaited, Exit
<1>5. TypeOK'
  BY <1>0, <1>2, <1>3 DEF TypeOK, Exit
<1>6. \A j \in Isolator : Holding(j)' <=> Holding(j)
  BY <1>0 DEF TypeOK, Exit, Holding
<1>7. Awaited'
  BY <1>0, <1>2, <1>3, CommandType DEF TypeOK, Exit, Awaited
<1>8. HoldersPresent' /\ BoxExclusive'
  BY <1>0, <1>6 DEF HoldersPresent, BoxExclusive, Holds, Exit
<1>9. CleanupsSafe'
  <2>1. box' = box /\ dirs' = dirs /\ epoch' = epoch
    BY DEF Exit
  <2>2. \A j \in Isolator : Holds(j, box[i]) => j = i
    BY <1>0, <1>1 DEF BoxExclusive, Holds
  <2> QED BY <1>0, <1>1, <1>2, <1>3, <1>4, <1>6, <2>1, <2>2 DEF CleanupsSafe, Holds
<1> QED BY <1>5, <1>7, <1>8, <1>9 DEF PoolInv

\* isolate --init, awaited or orphan, succeeding or failing.
LEMMA RunInitStep ==
  ASSUME PoolInv, NEW c \in cmds, RunInit(c)
  PROVE  PoolInv'
<1>0. TypeOK /\ Awaited /\ HoldersPresent /\ BoxExclusive /\ CleanupsSafe
  BY DEF PoolInv
<1>1. /\ c.op = "init" /\ c.by \in Isolator /\ c.box \in Box /\ c.epoch \in 0..MaxCrashes
      /\ cmds' = cmds \ {c} /\ UNCHANGED <<pc, avail, box, epoch, reuses>>
      /\ dirs \subseteq dirs' /\ dirs' \subseteq dirs \cup {c.box}
      /\ faults' \in {faults, faults + 1} /\ (faults' # faults => faults < MaxFaults)
  BY <1>0, CommandType DEF TypeOK, RunInit, Finish
<1>2. PICK r \in {"ok", "exists", "error"} :
        Deliver(c, r) /\ (r = "ok" => c.box \notin dirs /\ c.box \in dirs')
  BY DEF RunInit, Finish
<1>3. TypeOK'
  BY <1>0, <1>1, <1>2, PoolAssumption DEF TypeOK, Deliver
<1>4. Awaited'
  <2> SUFFICES ASSUME NEW d \in cmds', d.epoch = epoch
               PROVE  pc[d.by] = d.op /\ box[d.by] = d.box /\ reply'[d.by] = "none"
    BY <1>0, <1>1 DEF Awaited
  <2>1. c.epoch = epoch => d.by # c.by
    BY <1>1, OneCommand
  <2> QED BY <1>0, <1>1, <1>2, <2>1, CommandType DEF TypeOK, Awaited, Deliver
<1>5. \A j \in Isolator : Holding(j)' =>
        \/ Holding(j)
        \/ j = c.by /\ c.epoch = epoch /\ r = "ok" /\ box[j] = c.box
  BY <1>0, <1>1, <1>2 DEF TypeOK, Awaited, Deliver, Holding
<1>6. HoldersPresent'
  BY <1>0, <1>1, <1>2, <1>5 DEF HoldersPresent
<1>7. BoxExclusive'
  BY <1>0, <1>1, <1>2, <1>5 DEF BoxExclusive, HoldersPresent, Holds
<1>8. CleanupsSafe'
  <2> SUFFICES ASSUME NEW k \in cmds', k.op = "cleanup"
               PROVE  /\ k.box \in dirs'
                      /\ \A j \in Isolator : Holds(j, k.box)' => k.by = j /\ k.epoch = epoch
                      /\ \A d \in cmds' : d.op = "cleanup" /\ d.box = k.box => d = k
    BY <1>1 DEF CleanupsSafe
  <2>1. k \in cmds /\ k.box \in dirs
    BY <1>0, <1>1 DEF CleanupsSafe
  <2>2. ASSUME NEW j \in Isolator, Holds(j, k.box)' PROVE Holds(j, k.box)
    BY <1>1, <1>2, <1>5, <2>1, <2>2 DEF Holds
  <2> QED BY <1>0, <1>1, <2>1, <2>2 DEF CleanupsSafe
<1> QED BY <1>3, <1>4, <1>6, <1>7, <1>8 DEF PoolInv

\* isolate --cleanup, awaited or orphan, succeeding or failing.
LEMMA RunCleanupStep ==
  ASSUME PoolInv, NEW c \in cmds, RunCleanup(c)
  PROVE  PoolInv'
<1>0. TypeOK /\ Awaited /\ HoldersPresent /\ BoxExclusive /\ CleanupsSafe
  BY DEF PoolInv
<1>1. /\ c.op = "cleanup" /\ c.by \in Isolator /\ c.box \in Box /\ c.epoch \in 0..MaxCrashes
      /\ cmds' = cmds \ {c} /\ UNCHANGED <<pc, avail, box, epoch, reuses>>
      /\ dirs' \subseteq dirs /\ dirs \ {c.box} \subseteq dirs'
      /\ faults' \in {faults, faults + 1} /\ (faults' # faults => faults < MaxFaults)
  BY <1>0, CommandType DEF TypeOK, RunCleanup, Finish
<1>2. PICK r \in {"ok", "error"} : Deliver(c, r)
  BY DEF RunCleanup, Finish
<1>3. TypeOK'
  BY <1>0, <1>1, <1>2, PoolAssumption DEF TypeOK, Deliver
<1>4. Awaited'
  <2> SUFFICES ASSUME NEW d \in cmds', d.epoch = epoch
               PROVE  pc[d.by] = d.op /\ box[d.by] = d.box /\ reply'[d.by] = "none"
    BY <1>0, <1>1 DEF Awaited
  <2>1. c.epoch = epoch => d.by # c.by
    BY <1>1, OneCommand
  <2> QED BY <1>0, <1>1, <1>2, <2>1, CommandType DEF TypeOK, Awaited, Deliver
<1>5. \A j \in Isolator : Holding(j)' => Holding(j) /\ box[j] # c.box
  BY <1>0, <1>1, <1>2 DEF TypeOK, Awaited, CleanupsSafe, Deliver, Holding, Holds
<1>6. HoldersPresent' /\ BoxExclusive'
  BY <1>0, <1>1, <1>5 DEF HoldersPresent, BoxExclusive, Holds
<1>7. CleanupsSafe'
  BY <1>0, <1>1, <1>5 DEF CleanupsSafe, Holds
<1> QED BY <1>3, <1>4, <1>6, <1>7 DEF PoolInv

\* A crash: nobody holds a box any more and every command is an orphan.
LEMMA CrashStep ==
  ASSUME PoolInv, Crash
  PROVE  PoolInv'
<1>0. TypeOK /\ Awaited /\ HoldersPresent /\ BoxExclusive /\ CleanupsSafe
  BY DEF PoolInv
<1>1. TypeOK'
  BY <1>0, PoolAssumption DEF TypeOK, Crash
<1>2. \A j \in Isolator : ~ Holding(j)'
  BY DEF Crash, Holding
<1>3. Awaited'
  BY <1>0, CommandType, PoolAssumption DEF TypeOK, Awaited, Crash
<1>4. HoldersPresent' /\ BoxExclusive' /\ CleanupsSafe'
  BY <1>0, <1>2 DEF HoldersPresent, BoxExclusive, CleanupsSafe, Holds, Crash
<1> QED BY <1>1, <1>3, <1>4 DEF PoolInv

\* Every step preserves the invariant.
LEMMA NextInv == PoolInv /\ [Next]_vars => PoolInv'
<1> SUFFICES ASSUME PoolInv, [Next]_vars PROVE PoolInv'
  OBVIOUS
<1>0. TypeOK
  BY DEF PoolInv
<1>1. ASSUME NEW i \in Isolator, Enter(i) PROVE PoolInv'
  BY <1>1, ProbeStep DEF Enter
<1>2. ASSUME NEW i \in Isolator, InitDone(i) PROVE PoolInv'
  <2>1. CASE reply[i] = "exists"
    BY <1>0, <1>2, <2>1, ProbeStep DEF InitDone, TypeOK
  <2>2. CASE reply[i] # "exists"
    <3>1. TypeOK'
      BY <1>0, <1>2, <2>2 DEF InitDone, TypeOK, Ended
    <3>2. Holding(i)' => Holding(i)
      BY <1>0, <1>2, <2>2 DEF InitDone, TypeOK, Holding
    <3>3. \A j \in Isolator \ {i} : pc'[j] = pc[j]
      BY <1>0, <1>2, <2>2 DEF InitDone, TypeOK
    <3> QED BY <1>2, <2>2, <3>1, <3>2, <3>3, LocalStep DEF InitDone
  <2> QED BY <2>1, <2>2
<1>3. ASSUME NEW i \in Isolator, Exit(i) PROVE PoolInv'
  BY <1>3, ExitStep
<1>4. ASSUME NEW i \in Isolator, ExitRaises(i) \/ CleanupDone(i) \/ Again(i) PROVE PoolInv'
  <2>1. TypeOK'
    BY <1>0, <1>4, PoolAssumption DEF ExitRaises, CleanupDone, Again, TypeOK, Ended
  <2>2. ~ Holding(i)' /\ (pc[i] \in {"init", "cleanup"} => reply[i] # "none")
    BY <1>0, <1>4 DEF ExitRaises, CleanupDone, Again, TypeOK, Ended, Holding
  <2>3. \A j \in Isolator \ {i} : pc'[j] = pc[j]
    BY <1>0, <1>4 DEF ExitRaises, CleanupDone, Again, TypeOK
  <2>4. UNCHANGED <<dirs, box, reply, cmds, epoch>>
    BY <1>4 DEF ExitRaises, CleanupDone, Again
  <2> QED BY <2>1, <2>2, <2>3, <2>4, LocalStep
<1>5. ASSUME NEW c \in cmds, RunInit(c) \/ RunCleanup(c) PROVE PoolInv'
  BY <1>5, RunInitStep, RunCleanupStep
<1>6. CASE Crash
  BY <1>6, CrashStep
<1>7. CASE UNCHANGED vars
  BY <1>7 DEF vars, PoolInv, TypeOK, Awaited, HoldersPresent, BoxExclusive, CleanupsSafe,
              Holds, Holding, Commands, Ended
<1> QED BY <1>1, <1>2, <1>3, <1>4, <1>5, <1>6, <1>7 DEF Next

\* The inductive invariant holds in every reachable state.
THEOREM PoolInvariant == Spec => []PoolInv
BY InitInv, NextInv, PTL DEF Spec

\* The state of the pool keeps its types.
THEOREM PoolTypes == Spec => []TypeOK
<1>1. PoolInv => TypeOK
  BY DEF PoolInv
<1> QED BY <1>1, PoolInvariant, PTL

\* No two programs share a sandbox, whatever the interleaving and the crashes.
THEOREM PoolExclusive == Spec => []BoxExclusive
<1>1. PoolInv => BoxExclusive
  BY DEF PoolInv
<1> QED BY <1>1, PoolInvariant, PTL

\* A program that runs has its box, orphan cleanups notwithstanding.
THEOREM PoolPresent == Spec => []BoxPresent
<1>1. PoolInv => BoxPresent
  BY DEF PoolInv, HoldersPresent, Holding, BoxPresent
<1> QED BY <1>1, PoolInvariant, PTL

-----------------------------------------------------------------------------
(* JustEnoughBoxes: an id that a coroutine dropped was taken by another one,
   and without reuse a coroutine takes one id only.                        *)

Claimed(j, b) ==
  /\ box[j] = b
  /\ \/ pc[j] \in {"body", "cleanup", "done", "failed"}
     \/ pc[j] = "init" /\ reply[j] \in {"ok", "error"}

\* The ids i dropped: not those left, nor the one being tried.
Dropped(i) == {b \in Box \ avail[i] :
                 pc[i] = "init" => box[i] # b \/ reply[i] = "exists"}

OneShot == reuses = 0 /\ epoch = 0

ClaimInv ==
  OneShot =>
    /\ \A b \in dirs : \E j \in Isolator : Claimed(j, b)
    /\ \A i \in Isolator : pc[i] \in {"init", "exhausted"} =>
         \A b \in Dropped(i) : \E j \in Isolator \ {i} : Claimed(j, b)
    /\ \A i \in Isolator : pc[i] = "exhausted" => avail[i] = {}

\* The counters only grow.
LEMMA OneShotBefore ==
  ASSUME PoolInv, [Next]_vars, OneShot'
  PROVE  OneShot
BY PoolAssumption DEF PoolInv, TypeOK, OneShot, Next, Enter, InitDone, Exit, ExitRaises,
   CleanupDone, Again, RunInit, RunCleanup, Finish, Crash, vars

\* Popping an id keeps the claims.
LEMMA ProbeClaims ==
  ASSUME PoolInv, ClaimInv, OneShot, NEW i \in Isolator, NEW ids \in SUBSET Box,
         pc[i] = "new" \/ (pc[i] = "init" /\ reply[i] = "exists"),
         \A b \in Box \ ids : \E j \in Isolator \ {i} : Claimed(j, b),
         Probe(i, ids), UNCHANGED <<dirs, epoch, faults, reuses>>
  PROVE  ClaimInv'
<1>0. TypeOK
  BY DEF PoolInv
<1>1. ASSUME NEW b \in ids, StartInit(i, b, ids \ {b}) PROVE ClaimInv'
  <2>1. \A j \in Isolator, a \in Box : Claimed(j, a) => j # i /\ Claimed(j, a)'
    BY <1>0, <1>1 DEF TypeOK, StartInit, Claimed
  <2>2. Dropped(i)' \subseteq Box \ ids
    BY <1>0, <1>1 DEF TypeOK, StartInit, Dropped
  <2>3. \A j \in Isolator \ {i} : Dropped(j)' = Dropped(j) /\ pc'[j] = pc[j] /\ avail'[j] = avail[j]
    BY <1>0, <1>1 DEF TypeOK, StartInit, Dropped
  <2>4. pc'[i] = "init"
    BY <1>0, <1>1 DEF TypeOK, StartInit
  <2>5. dirs' = dirs /\ dirs \subseteq Box
    BY <1>0 DEF TypeOK
  <2>6. \A j \in Isolator : Dropped(j) \subseteq Box
    BY DEF Dropped
  <2> QED BY <2>1, <2>2, <2>3, <2>4, <2>5, <2>6 DEF ClaimInv
<1>2. ASSUME ids = {}, GiveUp(i) PROVE ClaimInv'
  <2>1. \A j \in Isolator, a \in Box : Claimed(j, a) => j # i /\ Claimed(j, a)'
    BY <1>0, <1>2 DEF TypeOK, GiveUp, Claimed
  <2>2. \A j \in Isolator \ {i} : Dropped(j)' = Dropped(j) /\ pc'[j] = pc[j] /\ avail'[j] = avail[j]
    BY <1>0, <1>2 DEF TypeOK, GiveUp, Dropped
  <2>3. avail'[i] = {} /\ dirs' = dirs /\ dirs \subseteq Box
    BY <1>0, <1>2 DEF TypeOK, GiveUp
  <2>4. \A j \in Isolator : Dropped(j) \subseteq Box /\ Dropped(j)' \subseteq Box
    BY DEF Dropped
  <2> QED BY <1>2, <2>1, <2>2, <2>3, <2>4 DEF ClaimInv
<1> QED BY <1>1, <1>2 DEF Probe

\* The claims survive every step.
LEMMA NextClaims == PoolInv /\ ClaimInv /\ [Next]_vars => ClaimInv'
<1> SUFFICES ASSUME PoolInv, ClaimInv, [Next]_vars, OneShot' PROVE ClaimInv'
  BY DEF ClaimInv
<1>0. TypeOK /\ Awaited /\ OneShot
  BY OneShotBefore DEF PoolInv
<1>1. ASSUME NEW i \in Isolator, Enter(i) PROVE ClaimInv'
  <2>1. \A b \in Box \ (Box \ dirs) : \E j \in Isolator \ {i} : Claimed(j, b)
    BY <1>0, <1>1 DEF ClaimInv, Claimed, Enter
  <2> QED BY <1>0, <1>1, <2>1, ProbeClaims DEF Enter
<1>2. ASSUME NEW i \in Isolator, InitDone(i), reply[i] = "exists" PROVE ClaimInv'
  <2>1. \A b \in Box \ avail[i] : \E j \in Isolator \ {i} : Claimed(j, b)
    BY <1>0, <1>2 DEF ClaimInv, Dropped, InitDone
  <2> QED BY <1>0, <1>2, <2>1, ProbeClaims DEF InitDone, TypeOK
\* Steps of i after its box was answered: what was claimed stays claimed.
<1>3. ASSUME NEW i \in Isolator, pc'[i] \notin {"init", "exhausted"},
             \A j \in Isolator : Claimed(j, box[j]) => Claimed(j, box[j])',
             \A j \in Isolator \ {i} : pc'[j] = pc[j] /\ reply'[j] = reply[j],
             UNCHANGED <<dirs, avail, box>>
      PROVE  ClaimInv'
  <2>1. \A j \in Isolator, b \in Box : Claimed(j, b) => Claimed(j, b)'
    BY <1>3 DEF Claimed
  <2>2. \A j \in Isolator \ {i} : Dropped(j)' = Dropped(j)
    BY <1>3 DEF Dropped
  <2>3. \A j \in Isolator : Dropped(j) \subseteq Box
    BY DEF Dropped
  <2> QED BY <1>0, <1>3, <2>1, <2>2, <2>3 DEF ClaimInv, TypeOK
<1>4. ASSUME NEW i \in Isolator, InitDone(i), reply[i] # "exists" PROVE ClaimInv'
  <2>1. \A j \in Isolator : Claimed(j, box[j]) => Claimed(j, box[j])'
    BY <1>0, <1>4 DEF TypeOK, InitDone, Claimed
  <2> QED BY <1>0, <1>3, <1>4, <2>1 DEF TypeOK, InitDone
<1>5. ASSUME NEW i \in Isolator, Exit(i) \/ ExitRaises(i) \/ CleanupDone(i) PROVE ClaimInv'
  <2>1. \A j \in Isolator : Claimed(j, box[j]) => Claimed(j, box[j])'
    BY <1>0, <1>5 DEF TypeOK, Exit, ExitRaises, CleanupDone, Claimed
  <2> QED BY <1>0, <1>3, <1>5, <2>1 DEF TypeOK, Exit, ExitRaises, CleanupDone
<1>6. ASSUME NEW c \in cmds, RunInit(c) \/ RunCleanup(c) PROVE ClaimInv'
  <2>1. /\ c \in Commands /\ c.by \in Isolator /\ c.epoch = epoch
        /\ pc[c.by] = c.op /\ box[c.by] = c.box /\ reply[c.by] = "none"
    BY <1>0, <1>6, CommandType, PoolAssumption DEF TypeOK, Awaited, OneShot
  <2>2. PICK r \in {"ok", "exists", "error"} :
          /\ reply' = [reply EXCEPT ![c.by] = r]
          /\ r = "exists" => c.op = "init" /\ c.box \in dirs
    BY <1>6, <2>1 DEF RunInit, RunCleanup, Finish, Deliver
  <2>3. UNCHANGED <<pc, avail, box>> /\ dirs' \subseteq Box
    BY <1>0, <1>6, <2>1, CommandType DEF RunInit, RunCleanup, Finish, TypeOK
  <2>4. \A j \in Isolator, b \in Box : Claimed(j, b) => Claimed(j, b)'
    BY <1>0, <2>1, <2>2, <2>3 DEF TypeOK, Claimed
  <2>5. \A b \in dirs' \ dirs : r # "exists" /\ b = c.box /\ c.op = "init"
    BY <1>6, <2>1, <2>2 DEF RunInit, RunCleanup, Finish, Deliver, TypeOK
  <2>6. \A b \in dirs' : \E j \in Isolator : Claimed(j, b)'
    <3> TAKE b \in dirs'
    <3>1. CASE b \in dirs
      BY <1>0, <3>1, <2>4 DEF ClaimInv, TypeOK
    <3>2. CASE b \notin dirs
      <4>1. Claimed(c.by, b)'
        BY <1>0, <2>1, <2>2, <2>3, <2>5, <3>2 DEF Claimed, TypeOK
      <4> QED BY <2>1, <4>1
    <3> QED BY <3>1, <3>2
  <2>7. \A i \in Isolator : Dropped(i)' \subseteq
           Dropped(i) \cup IF i = c.by /\ r = "exists" THEN {c.box} ELSE {}
    BY <1>0, <2>1, <2>2, <2>3 DEF Dropped, TypeOK
  <2>8. r = "exists" => \E j \in Isolator \ {c.by} : Claimed(j, c.box)
    BY <1>0, <2>1, <2>2 DEF ClaimInv, Claimed
  <2>9. \A i \in Isolator : Dropped(i) \subseteq Box /\ c.box \in Box
    BY <2>1, CommandType DEF Dropped
  <2> QED BY <1>0, <2>3, <2>4, <2>6, <2>7, <2>8, <2>9 DEF ClaimInv
<1>7. ASSUME UNCHANGED vars PROVE ClaimInv'
  BY <1>7 DEF vars, ClaimInv, OneShot, Claimed, Dropped
<1>8. ~ Crash /\ \A i \in Isolator : ~ Again(i)
  BY <1>0, PoolAssumption DEF Crash, Again, OneShot
<1> QED BY <1>1, <1>2, <1>4, <1>5, <1>6, <1>7, <1>8 DEF Next

\* A coroutine that found no box saw each box taken by another coroutine.
LEMMA ClaimsEnough == PoolInv /\ ClaimInv => JustEnoughBoxes
<1> SUFFICES ASSUME PoolInv, ClaimInv, OneShot, Cardinality(Isolator) <= Cardinality(Box),
                    NEW i \in Isolator, pc[i] = "exhausted"
             PROVE  FALSE
  BY DEF JustEnoughBoxes, OneShot
<1> DEFINE f == [b \in Box |-> CHOOSE j \in Isolator \ {i} : Claimed(j, b)]
<1>1. \A b \in Box : \E j \in Isolator \ {i} : Claimed(j, b)
  BY DEF ClaimInv, Dropped
<1>2. f \in [Box -> Isolator \ {i}] /\ \A b \in Box : Claimed(f[b], b)
  BY <1>1
<1>3. \A a, b \in Box : f[a] = f[b] => a = b
  BY <1>2 DEF Claimed
<1>4. /\ IsFiniteSet(Isolator \ {i}) /\ Cardinality(Isolator \ {i}) = Cardinality(Isolator) - 1
      /\ IsFiniteSet(Box)
  BY PoolAssumption, FS_RemoveElement
<1>5. Cardinality(Isolator) \in Nat /\ Cardinality(Box) \in Nat
  BY PoolAssumption, FS_CardinalityType
<1>6. Cardinality(Isolator \ {i}) < Cardinality(Box)
  BY <1>4, <1>5
<1> HIDE DEF f
<1> QED BY <1>2, <1>3, <1>4, <1>6, FS_PigeonHole

\* With as many boxes as coroutines, and one Isolator each, nobody is refused.
THEOREM PoolEnough == Spec => []JustEnoughBoxes
<1>1. Init => ClaimInv
  BY DEF Init, ClaimInv
<1>2. Spec => [](PoolInv /\ ClaimInv)
  BY <1>1, InitInv, NextInv, NextClaims, PTL DEF Spec
<1> QED BY <1>2, ClaimsEnough, PTL

-----------------------------------------------------------------------------
(* The pool implements BoxLease. *)

leases == [b \in Box |-> LeaseOf(b)]

\* The lease of a held box is its holder, and nobody else's lease is a coroutine.
LEMMA LeaseHeld ==
  ASSUME PoolInv, NEW b \in Box
  PROVE  /\ b \notin dirs => LeaseOf(b) = Free
         /\ \A i \in Isolator : Holds(i, b) <=> LeaseOf(b) = i
         /\ b \in dirs /\ (\A i \in Isolator : ~ Holds(i, b)) => LeaseOf(b) = Lost
<1>1. \A i \in Isolator : Holds(i, b) => b \in dirs
  BY DEF PoolInv, HoldersPresent, Holds
<1>2. \A i, j \in Isolator : Holds(i, b) /\ Holds(j, b) => i = j
  BY DEF PoolInv, BoxExclusive
<1> QED BY <1>1, <1>2, PoolAssumption DEF LeaseOf

\* A step that makes no holder and removes no directory: owners may be lost.
LEMMA LosingStep ==
  ASSUME PoolInv, dirs \subseteq dirs',
         \A i \in Isolator, b \in Box : Holds(i, b)' => Holds(i, b)
  PROVE  [Lease!Next]_leases
<1> DEFINE S == {b \in Box : b \in dirs' /\ \A i \in Isolator : ~ Holds(i, b)'}
<1>1. ASSUME NEW b \in Box
      PROVE  LeaseOf(b)' = IF b \in S THEN Lost ELSE LeaseOf(b)
  <2>1. CASE b \notin dirs'
    BY <2>1, LeaseHeld DEF LeaseOf
  <2>2. CASE b \in dirs' /\ \E i \in Isolator : Holds(i, b)'
    <3>1. PICK i \in Isolator : Holds(i, b)' /\ Holds(i, b)
      BY <2>2
    <3>2. LeaseOf(b) = i /\ \A j \in Isolator : Holds(j, b)' => j = i
      BY <3>1, LeaseHeld DEF PoolInv, BoxExclusive
    <3>3. LeaseOf(b)' = i
      BY <2>2, <3>1, <3>2 DEF LeaseOf
    <3> QED BY <2>2, <3>2, <3>3
  <2>3. CASE b \in S
    BY <2>3 DEF LeaseOf
  <2> QED BY <2>1, <2>2, <2>3
<1>2. S \in SUBSET Box /\ leases' = [b \in Box |-> IF b \in S THEN Lost ELSE leases[b]]
  BY <1>1 DEF leases
<1>3. Lease!Lose(S)
  BY <1>2 DEF Lease!Lose, leases
<1> QED BY <1>2, <1>3 DEF Lease!Next

\* A step that removes directory b and leaves the other boxes to their owners.
LEMMA RemovingStep ==
  ASSUME PoolInv, PoolInv', NEW b \in Box, b \in dirs, dirs' = dirs \ {b},
         \A i \in Isolator, a \in Box \ {b} : Holds(i, a)' <=> Holds(i, a)
  PROVE  Lease!Next
<1>1. \A a \in Box \ {b} : LeaseOf(a)' = LeaseOf(a)
  <2> TAKE a \in Box \ {b}
  <2>1. CASE a \notin dirs
    BY <2>1 DEF LeaseOf
  <2>2. CASE a \in dirs
    BY <2>2 DEF LeaseOf
  <2> QED BY <2>1, <2>2
<1>2. LeaseOf(b)' = Free
  BY DEF LeaseOf
<1>3. LeaseOf(b) # Free
  BY PoolAssumption DEF LeaseOf
<1>4. [a \in Box |-> LeaseOf(a)'] = [[a \in Box |-> LeaseOf(a)] EXCEPT ![b] = Free]
  BY <1>1, <1>2
<1>5. Lease!Remove(b)
  BY <1>3, <1>4 DEF Lease!Remove
<1> QED BY <1>5 DEF Lease!Next, leases

\* isolate --init makes its coroutine the holder of a directory that is new.
LEMMA AcquiringStep ==
  ASSUME PoolInv, PoolInv', NEW c \in cmds, RunInit(c), c.epoch = epoch, c.box \notin dirs,
         reply'[c.by] = "ok"
  PROVE  Lease!Next
<1>1. /\ c.by \in Isolator /\ c.box \in Box /\ pc[c.by] = "init" /\ box[c.by] = c.box
      /\ reply[c.by] = "none" /\ c.op = "init"
  BY CommandType DEF PoolInv, TypeOK, Awaited, RunInit
<1>2. /\ dirs' = dirs \cup {c.box} /\ UNCHANGED <<pc, box>>
      /\ reply' = [reply EXCEPT ![c.by] = "ok"]
  BY <1>1 DEF RunInit, Finish, Deliver, PoolInv, TypeOK
<1>3. \A i \in Isolator, b \in Box :
        Holds(i, b)' <=> Holds(i, b) \/ (i = c.by /\ b = c.box)
  BY <1>1, <1>2 DEF Holds, Holding, PoolInv, TypeOK
<1>4. \A b \in Box \ {c.box} : LeaseOf(b)' = LeaseOf(b)
  <2> TAKE b \in Box \ {c.box}
  <2>1. (b \in dirs') = (b \in dirs) /\ \A i \in Isolator : Holds(i, b)' <=> Holds(i, b)
    BY <1>2, <1>3
  <2> QED BY <2>1 DEF LeaseOf
<1>5. LeaseOf(c.box)' = c.by
  <2>1. Holds(c.by, c.box)' /\ \A j \in Isolator : Holds(j, c.box)' => j = c.by
    BY <1>1, <1>3 DEF PoolInv, BoxExclusive
  <2> QED BY <1>1, <1>2, <2>1 DEF LeaseOf
<1>6. LeaseOf(c.box) = Free
  BY DEF LeaseOf
<1>7. \A b \in Box : LeaseOf(b) # c.by
  BY <1>1, LeaseHeld DEF Holds, Holding
<1>8. Lease!Acquire(c.by, c.box)
  BY <1>1, <1>4, <1>5, <1>6, <1>7 DEF Lease!Acquire, leases
<1> QED BY <1>1, <1>8 DEF Lease!Next

\* Every step of the pool is a step of BoxLease or changes no lease.
LEMMA LeaseStep == PoolInv /\ PoolInv' /\ [Next]_vars => [Lease!Next]_leases
<1> SUFFICES ASSUME PoolInv, PoolInv', [Next]_vars PROVE [Lease!Next]_leases
  OBVIOUS
<1>0. TypeOK /\ Awaited /\ CleanupsSafe
  BY DEF PoolInv
<1>1. ASSUME NEW i \in Isolator,
             Enter(i) \/ InitDone(i) \/ Exit(i) \/ ExitRaises(i) \/ CleanupDone(i) \/ Again(i)
      PROVE  [Lease!Next]_leases
  <2>1. dirs' = dirs /\ \A j \in Isolator : Holding(j)' => Holding(j) /\ box'[j] = box[j]
    BY <1>0, <1>1 DEF TypeOK, Enter, InitDone, Exit, ExitRaises, CleanupDone, Again,
       Probe, StartInit, GiveUp, Holding, Ended
  <2> QED BY <2>1, LosingStep DEF Holds
<1>2. ASSUME NEW c \in cmds, RunInit(c) PROVE [Lease!Next]_leases
  <2>1. CASE c.epoch = epoch /\ c.box \notin dirs /\ reply'[c.by] = "ok"
    BY <1>2, <2>1, AcquiringStep
  <2>2. CASE ~ (c.epoch = epoch /\ c.box \notin dirs /\ reply'[c.by] = "ok")
    <3>1. dirs \subseteq dirs' /\ UNCHANGED <<pc, box>>
      BY <1>2 DEF RunInit, Finish
    <3>2. \A j \in Isolator : Holding(j)' => Holding(j)
      BY <1>0, <1>2, <2>2, <3>1, CommandType DEF TypeOK, Awaited, RunInit, Finish, Deliver, Holding
    <3> QED BY <3>1, <3>2, LosingStep DEF Holds
  <2> QED BY <2>1, <2>2
<1>3. ASSUME NEW c \in cmds, RunCleanup(c) PROVE [Lease!Next]_leases
  <2>1. UNCHANGED <<pc, box>> /\ (dirs' = dirs \/ dirs' = dirs \ {c.box})
    BY <1>3 DEF RunCleanup, Finish
  <2>2. /\ c.box \in dirs /\ c.box \in Box /\ c.by \in Isolator
        /\ c.epoch = epoch => box[c.by] = c.box
    BY <1>0, <1>3, CommandType DEF CleanupsSafe, Awaited, TypeOK, RunCleanup
  <2>3. \A j \in Isolator \ {c.by} : reply'[j] = reply[j]
    BY <1>0, <1>3 DEF TypeOK, RunCleanup, Finish, Deliver
  <2>4. c.epoch # epoch => reply' = reply
    BY <1>3 DEF RunCleanup, Finish, Deliver
  <2>5. CASE dirs' = dirs
    <3>1. \A j \in Isolator : Holding(j)' => Holding(j)
      BY <1>0, <1>3, <2>1, <2>2 DEF TypeOK, Awaited, RunCleanup, Finish, Deliver, Holding
    <3> QED BY <2>1, <2>5, <3>1, LosingStep DEF Holds
  <2>6. CASE dirs' = dirs \ {c.box}
    <3>1. \A j \in Isolator, a \in Box \ {c.box} : Holds(j, a)' <=> Holds(j, a)
      BY <2>1, <2>2, <2>3, <2>4 DEF Holds, Holding
    <3> QED BY <2>2, <2>6, <3>1, RemovingStep
  <2> QED BY <2>1, <2>5, <2>6
<1>4. ASSUME Crash PROVE [Lease!Next]_leases
  <2>1. dirs' = dirs /\ \A j \in Isolator : ~ Holding(j)'
    BY <1>4 DEF Crash, Holding
  <2> QED BY <2>1, LosingStep DEF Holds
<1>5. ASSUME UNCHANGED vars PROVE [Lease!Next]_leases
  <2>1. dirs' = dirs /\ \A j \in Isolator : Holding(j)' => Holding(j)
    BY <1>5 DEF vars, Holding
  <2> QED BY <1>5, <2>1, LosingStep DEF Holds, vars
<1> QED BY <1>1, <1>2, <1>3, <1>4, <1>5 DEF Next

\* The pool implements the abstract leases.
THEOREM PoolImplementsLease == Spec => LeaseSpec
<1>1. Init => Lease!Init
  BY DEF Init, Lease!Init, LeaseOf
<1>2. PoolInv /\ PoolInv' /\ [Next]_vars => [Lease!Next]_([b \in Box |-> LeaseOf(b)])
  BY LeaseStep DEF leases
<1> QED BY <1>1, <1>2, PoolInvariant, PTL DEF Spec, LeaseSpec, Lease!Spec

-----------------------------------------------------------------------------
(* LeakBounded: an orphan initialisation may still make a directory that    *)
(* nobody will remove, so it counts as one that leaked.                     *)

Leaked == dirs \ Held

Orphans == {c \in cmds : c.op = "init" /\ c.epoch < epoch}

LeakInv ==
  /\ IsFiniteSet(cmds)
  /\ Cardinality(Leaked) + Cardinality(Orphans) <= faults + epoch * Cardinality(Isolator)

\* A step that loses a box pays with a failure or with an orphan.
LEMMA LossIsPaid ==
  ASSUME NEW L, NEW O, IsFiniteSet(L), IsFiniteSet(O), NEW M, NEW P, NEW b, NEW c,
         NEW f \in Nat, NEW g \in Nat, NEW k \in Nat,
         Cardinality(L) + Cardinality(O) <= f + k,
         \/ M \subseteq L /\ P \subseteq O /\ f <= g
         \/ M \subseteq L \cup {b} /\ P \subseteq O /\ f + 1 <= g
         \/ M \subseteq L \cup {b} /\ P \subseteq O \ {c} /\ c \in O /\ f <= g
  PROVE  Cardinality(M) + Cardinality(P) <= g + k
<1>1. /\ IsFiniteSet(L \cup {b}) /\ Cardinality(L \cup {b}) <= Cardinality(L) + 1
      /\ IsFiniteSet(O \ {c}) /\ (c \in O => Cardinality(O \ {c}) = Cardinality(O) - 1)
      /\ Cardinality(L) \in Nat /\ Cardinality(O) \in Nat
  BY FS_AddElement, FS_RemoveElement, FS_CardinalityType
<1>2. M \subseteq L => Cardinality(M) <= Cardinality(L) /\ Cardinality(M) \in Nat
  BY FS_Subset, FS_CardinalityType
<1>3. M \subseteq L \cup {b}
        => Cardinality(M) <= Cardinality(L \cup {b}) /\ Cardinality(M) \in Nat
  BY <1>1, FS_Subset, FS_CardinalityType
<1>4. P \subseteq O => Cardinality(P) <= Cardinality(O) /\ Cardinality(P) \in Nat
  BY FS_Subset, FS_CardinalityType
<1>5. P \subseteq O \ {c} => Cardinality(P) <= Cardinality(O \ {c}) /\ Cardinality(P) \in Nat
  BY <1>1, FS_Subset, FS_CardinalityType
<1>6. Cardinality(L \cup {b}) \in Nat
  BY <1>1, FS_CardinalityType
<1>7. CASE M \subseteq L /\ P \subseteq O /\ f <= g
  BY <1>1, <1>2, <1>4, <1>7
<1>8. CASE M \subseteq L \cup {b} /\ P \subseteq O /\ f + 1 <= g
  BY <1>1, <1>3, <1>4, <1>6, <1>8
<1>9. CASE M \subseteq L \cup {b} /\ P \subseteq O \ {c} /\ c \in O /\ f <= g
  BY <1>1, <1>3, <1>5, <1>6, <1>9
<1> QED BY <1>7, <1>8, <1>9

\* The sets counted are finite.
LEMMA CountedFinite ==
  ASSUME PoolInv, IsFiniteSet(cmds)
  PROVE  /\ IsFiniteSet(Leaked) /\ IsFiniteSet(Orphans) /\ IsFiniteSet(Held)
         /\ epoch \in Nat /\ faults \in Nat /\ Cardinality(Isolator) \in Nat
         /\ epoch * Cardinality(Isolator) \in Nat
<1>1. IsFiniteSet(Leaked)
  <2>1. Leaked \in SUBSET Box
    BY DEF Leaked, PoolInv, TypeOK
  <2> QED BY <2>1, PoolAssumption, FS_Subset
<1>2. IsFiniteSet(Orphans)
  <2>1. Orphans \in SUBSET cmds
    BY DEF Orphans
  <2> QED BY <2>1, FS_Subset
<1>3. IsFiniteSet(Held)
  <2>1. Held \in SUBSET Box
    BY DEF Held
  <2> QED BY <2>1, PoolAssumption, FS_Subset
<1>4. epoch \in Nat /\ faults \in Nat
  BY PoolAssumption DEF PoolInv, TypeOK
<1>5. Cardinality(Isolator) \in Nat
  BY PoolAssumption, FS_CardinalityType
<1> QED BY <1>1, <1>2, <1>3, <1>4, <1>5

\* A step of the present server process, seen from the counts.
LEMMA PaidStep ==
  ASSUME PoolInv, LeakInv, PoolInv', IsFiniteSet(cmds'), epoch' = epoch, NEW b, NEW c,
         \/ Leaked' \subseteq Leaked /\ Orphans' \subseteq Orphans /\ faults <= faults'
         \/ Leaked' \subseteq Leaked \cup {b} /\ Orphans' \subseteq Orphans /\ faults' = faults + 1
         \/ /\ Leaked' \subseteq Leaked \cup {b} /\ Orphans' \subseteq Orphans \ {c}
            /\ c \in Orphans /\ faults <= faults'
  PROVE  LeakInv'
<1> DEFINE k == epoch * Cardinality(Isolator)
<1>1. /\ IsFiniteSet(Leaked) /\ IsFiniteSet(Orphans) /\ epoch \in Nat /\ faults \in Nat /\ k \in Nat
  BY CountedFinite DEF LeakInv
<1>2. faults' \in Nat
  BY PoolAssumption DEF PoolInv, TypeOK
<1>3. Cardinality(Leaked) + Cardinality(Orphans) <= faults + k
  BY DEF LeakInv
<1>4. (epoch * Cardinality(Isolator))' = k
  OBVIOUS
<1> HIDE DEF k
<1>5. \/ Leaked' \subseteq Leaked /\ Orphans' \subseteq Orphans /\ faults <= faults'
      \/ Leaked' \subseteq Leaked \cup {b} /\ Orphans' \subseteq Orphans /\ faults + 1 <= faults'
      \/ /\ Leaked' \subseteq Leaked \cup {b} /\ Orphans' \subseteq Orphans \ {c}
         /\ c \in Orphans /\ faults <= faults'
  BY <1>1, <1>2
<1>6. Cardinality(Leaked') + Cardinality(Orphans') <= faults' + k
  BY <1>1, <1>2, <1>3, <1>5, LossIsPaid
<1> QED BY <1>4, <1>6 DEF LeakInv

\* A step of a coroutine moves no directory and starts no orphan; it loses
\* the box it held only by a failure.
LEMMA CoroutineLeak ==
  ASSUME PoolInv, LeakInv, PoolInv', NEW i \in Isolator,
         Enter(i) \/ InitDone(i) \/ Exit(i) \/ ExitRaises(i) \/ CleanupDone(i) \/ Again(i)
  PROVE  LeakInv'
<1>0. TypeOK
  BY DEF PoolInv
<1>1. dirs' = dirs /\ epoch' = epoch
  BY DEF Enter, InitDone, Exit, ExitRaises, CleanupDone, Again
<1>2. PICK n : n.epoch = epoch /\ (cmds' = cmds \/ cmds' = cmds \cup {n})
  <2>1. \A op, b : Cmd(op, i, b).epoch = epoch
    BY DEF Cmd
  <2> QED BY <2>1 DEF Enter, InitDone, Exit, ExitRaises, CleanupDone, Again, Probe, StartInit, GiveUp
<1>3. IsFiniteSet(cmds')
  BY <1>2, FS_AddElement DEF LeakInv
<1>4. Orphans' \subseteq Orphans
  <2>1. epoch \in Nat
    BY <1>0 DEF TypeOK
  <2> QED BY <1>1, <1>2, <2>1 DEF Orphans
<1>5. CASE ~ ExitRaises(i)
  <2>1. \A j \in Isolator : Holding(j) => Holding(j)' /\ box'[j] = box[j]
    BY <1>0, <1>5 DEF TypeOK, Enter, InitDone, Exit, CleanupDone, Again, Probe, StartInit, GiveUp,
       Holding, Ended
  <2>2. faults' = faults
    BY <1>5 DEF Enter, InitDone, Exit, CleanupDone, Again
  <2>3. Leaked' \subseteq Leaked
    BY <1>1, <2>1 DEF Leaked, Held, Holds
  <2>4. faults \in Nat
    BY <1>0, PoolAssumption DEF TypeOK
  <2> QED BY <1>1, <1>3, <1>4, <2>2, <2>3, <2>4, PaidStep
<1>6. CASE ExitRaises(i)
  <2>1. \A j \in Isolator \ {i} : Holding(j) => Holding(j)' /\ box'[j] = box[j]
    BY <1>0, <1>6 DEF TypeOK, ExitRaises, Holding
  <2>2. Leaked' \subseteq Leaked \cup {box[i]}
    BY <1>1, <2>1 DEF Leaked, Held, Holds
  <2>3. faults' = faults + 1
    BY <1>6 DEF ExitRaises
  <2> QED BY <1>1, <1>3, <1>4, <2>2, <2>3, PaidStep
<1> QED BY <1>5, <1>6

\* A command of isolate: a failure loses the box it is about at most, and an
\* orphan one is gone once it has made its directory.
LEMMA CommandLeak ==
  ASSUME PoolInv, LeakInv, PoolInv', NEW c \in cmds, RunInit(c) \/ RunCleanup(c)
  PROVE  LeakInv'
<1>0. TypeOK /\ Awaited /\ CleanupsSafe
  BY DEF PoolInv
<1>1. /\ UNCHANGED <<pc, box, epoch>> /\ cmds' = cmds \ {c}
      /\ dirs' \subseteq dirs \cup {c.box}
      /\ faults' = faults \/ faults' = faults + 1
  BY DEF RunInit, RunCleanup, Finish
<1>2. /\ c \in Commands /\ c.box \in Box /\ c.by \in Isolator /\ epoch \in Nat /\ faults \in Nat
      /\ c.epoch \in Nat
  BY <1>0, CommandType, PoolAssumption DEF TypeOK
<1>3. /\ c.epoch <= epoch
      /\ c.epoch = epoch => pc[c.by] = c.op /\ box[c.by] = c.box /\ reply[c.by] = "none"
  BY <1>0 DEF Awaited
<1>4. IsFiniteSet(cmds') /\ Orphans' = Orphans \ {c}
  BY <1>1, FS_RemoveElement DEF LeakInv, Orphans
<1>5. \A j \in Isolator : j # c.by \/ c.epoch # epoch => reply'[j] = reply[j]
  BY <1>0 DEF RunInit, RunCleanup, Finish, Deliver, TypeOK
<1>6. Leaked' \subseteq Leaked \cup {c.box}
  <2>1. \A j \in Isolator, b \in Box \ {c.box} : Holds(j, b) => Holds(j, b)'
    BY <1>1, <1>3, <1>5 DEF Holds, Holding
  <2> QED BY <1>1, <2>1 DEF Leaked, Held
<1>7. CASE faults' = faults + 1
  BY <1>1, <1>4, <1>6, <1>7, PaidStep
<1>8. CASE faults' = faults /\ c \in Orphans
  BY <1>1, <1>2, <1>4, <1>6, <1>8, PaidStep
<1>9. CASE faults' = faults /\ c \notin Orphans
  <2>1. c.op = "init" => c.epoch = epoch
    BY <1>2, <1>3, <1>9 DEF Orphans
  <2>2. c.box \notin Leaked' \ Leaked
    <3>1. CASE RunCleanup(c)
      <4>1. dirs' = dirs \ {c.box}
        BY <1>2, <1>9, <3>1 DEF RunCleanup, Finish
      <4> QED BY <4>1 DEF Leaked
    <3>2. CASE RunInit(c) /\ c.box \in dirs
      <4>1. ~ Holds(c.by, c.box)
        BY <1>3, <2>1, <3>2 DEF RunInit, Holds, Holding
      <4>2. \A j \in Isolator : Holds(j, c.box) => Holds(j, c.box)'
        BY <1>1, <1>5, <4>1 DEF Holds, Holding
      <4> QED BY <3>2, <4>2 DEF Leaked, Held
    <3>3. CASE RunInit(c) /\ c.box \notin dirs
      <4>1. reply' = [reply EXCEPT ![c.by] = "ok"]
        BY <1>2, <1>9, <2>1, <3>3 DEF RunInit, Finish, Deliver
      <4>2. Holds(c.by, c.box)'
        BY <1>0, <1>1, <1>2, <1>3, <2>1, <3>3, <4>1 DEF RunInit, TypeOK, Holds, Holding
      <4> QED BY <1>2, <4>2 DEF Leaked, Held
    <3> QED BY <3>1, <3>2, <3>3
  <2>3. Leaked' \subseteq Leaked
    BY <1>6, <2>2
  <2> QED BY <1>1, <1>2, <1>4, <1>9, <2>3, PaidStep
<1> QED BY <1>1, <1>7, <1>8, <1>9

\* At a crash a coroutine loses the box it holds, or leaves an initialisation
\* behind, but never both.
LEMMA CrashLeak ==
  ASSUME PoolInv, LeakInv, PoolInv', Crash
  PROVE  LeakInv'
<1> DEFINE current == {c \in cmds : c.op = "init" /\ c.epoch = epoch}
           owner == [b \in Held |-> CHOOSE i \in Isolator : Holds(i, b)]
           starter == [c \in current |-> c.by]
           holders == {i \in Isolator : Holding(i)}
           starters == Isolator \ holders
           k == Cardinality(Isolator)
<1>0. TypeOK /\ Awaited /\ HoldersPresent /\ BoxExclusive
  BY DEF PoolInv
<1>1. /\ IsFiniteSet(Leaked) /\ IsFiniteSet(Orphans) /\ IsFiniteSet(Held)
      /\ epoch \in Nat /\ faults \in Nat /\ k \in Nat
      /\ IsFiniteSet(cmds)
  BY CountedFinite DEF LeakInv
<1>2. Cardinality(Held) <= Cardinality(holders)
  <2>1. \A b \in Held : owner[b] \in Isolator /\ Holds(owner[b], b)
    BY DEF Held
  <2>2. owner \in [Held -> holders]
    BY <2>1 DEF Holds
  <2>3. \A a, b \in Held : owner[a] = owner[b] => a = b
    BY <2>1 DEF Holds
  <2>4. IsFiniteSet(holders)
    <3>1. holders \in SUBSET Isolator
      OBVIOUS
    <3> QED BY <3>1, PoolAssumption, FS_Subset
  <2> HIDE DEF owner, holders
  <2>5. owner \in Injection(Held, holders)
    BY <2>2, <2>3 DEF Injection, IsInjective
  <2> QED BY <2>4, <2>5, FS_Injection
<1>3. IsFiniteSet(current) /\ Cardinality(current) <= Cardinality(starters)
  <2>1. current \in SUBSET cmds
    OBVIOUS
  <2>2. \A c \in current : c.by \in Isolator /\ pc[c.by] = "init" /\ reply[c.by] = "none"
    BY <1>0, CommandType DEF TypeOK, Awaited
  <2>3. starter \in [current -> starters]
    BY <2>2 DEF Holding
  <2>4. \A c, d \in current : starter[c] = starter[d] => c = d
    BY OneCommand
  <2>5. IsFiniteSet(starters)
    BY PoolAssumption, FS_Difference
  <2> HIDE DEF starter, starters, current
  <2>6. starter \in Injection(current, starters)
    BY <2>3, <2>4 DEF Injection, IsInjective
  <2> QED BY <1>1, <2>1, <2>5, <2>6, FS_Injection, FS_Subset
<1>4. Cardinality(holders) + Cardinality(starters) = k
  <2>1. holders \in SUBSET Isolator /\ Isolator \cap holders = holders
    OBVIOUS
  <2>2. /\ IsFiniteSet(holders) /\ Cardinality(holders) \in Nat
    BY <2>1, PoolAssumption, FS_Subset, FS_CardinalityType
  <2>3. Cardinality(starters) = k - Cardinality(Isolator \cap holders)
    BY PoolAssumption, FS_Difference
  <2> HIDE DEF holders, starters, k
  <2> QED BY <1>1, <2>1, <2>2, <2>3
<1>5. Leaked' = Leaked \cup Held /\ Leaked \cap Held = {}
  <2>1. Held' = {}
    BY DEF Crash, Held, Holds, Holding
  <2>2. Held \subseteq dirs
    BY <1>0 DEF Held, Holds, HoldersPresent
  <2>3. dirs' = dirs
    BY DEF Crash
  <2> QED BY <2>1, <2>2, <2>3 DEF Leaked
<1>6. Orphans' = Orphans \cup current /\ Orphans \cap current = {}
  <2>1. cmds' = cmds /\ epoch' = epoch + 1
    BY DEF Crash
  <2>2. \A c \in cmds : c.epoch <= epoch /\ c.epoch \in Nat
    BY <1>0, CommandType DEF TypeOK, Awaited
  <2>3. \A c \in cmds : c.epoch < epoch + 1
    BY <1>1, <2>2
  <2>4. \A c \in cmds : (c.epoch < epoch \/ c.epoch = epoch) /\ ~ (c.epoch < epoch /\ c.epoch = epoch)
    BY <1>1, <2>2
  <2>5. Orphans' = {c \in cmds : c.op = "init" /\ c.epoch < epoch + 1}
    BY <2>1 DEF Orphans
  <2> QED BY <2>3, <2>4, <2>5 DEF Orphans
<1>7. Cardinality(Leaked') = Cardinality(Leaked) + Cardinality(Held)
  <2>1. Cardinality(Leaked \cap Held) = 0
    BY <1>5, FS_EmptySet
  <2>2. Cardinality(Leaked) \in Nat /\ Cardinality(Held) \in Nat
    BY <1>1, FS_CardinalityType
  <2>3. Cardinality(Leaked \cup Held)
          = Cardinality(Leaked) + Cardinality(Held) - Cardinality(Leaked \cap Held)
    BY <1>1, FS_Union, Zenon
  <2>4. Cardinality(Leaked') = Cardinality(Leaked \cup Held)
    BY <1>5
  <2> QED BY <2>1, <2>2, <2>3, <2>4
<1> HIDE DEF current
<1>8. Cardinality(Orphans') = Cardinality(Orphans) + Cardinality(current)
  <2>1. Cardinality(Orphans \cap current) = 0
    BY <1>6, FS_EmptySet
  <2>2. Cardinality(Orphans) \in Nat /\ Cardinality(current) \in Nat
    BY <1>1, <1>3, FS_CardinalityType
  <2>3. Cardinality(Orphans \cup current)
          = Cardinality(Orphans) + Cardinality(current) - Cardinality(Orphans \cap current)
    BY <1>1, <1>3, FS_Union, Zenon
  <2>4. Cardinality(Orphans') = Cardinality(Orphans \cup current)
    BY <1>6
  <2> QED BY <2>1, <2>2, <2>3, <2>4
<1>9. /\ Cardinality(Leaked) \in Nat /\ Cardinality(Held) \in Nat
      /\ Cardinality(Orphans) \in Nat /\ Cardinality(current) \in Nat
      /\ Cardinality(holders) \in Nat /\ Cardinality(starters) \in Nat
  <2>1. holders \in SUBSET Isolator /\ starters \in SUBSET Isolator
    OBVIOUS
  <2>2. IsFiniteSet(holders) /\ IsFiniteSet(starters)
    BY <2>1, PoolAssumption, FS_Subset
  <2> QED BY <1>1, <1>3, <2>2, FS_CardinalityType
<1> HIDE DEF holders, starters
<1>10. (epoch + 1) * k = epoch * k + k /\ epoch * k \in Nat
  <2> HIDE DEF k
  <2> QED BY <1>1
<1>11. Cardinality(Leaked) + Cardinality(Orphans) <= faults + epoch * k
  BY DEF LeakInv
<1>12. Cardinality(Leaked') + Cardinality(Orphans') <= faults + (epoch + 1) * k
  <2> DEFINE ek == epoch * k
  <2> HIDE DEF k
  <2>1. (epoch + 1) * k = ek + k /\ ek \in Nat
    BY <1>10
  <2>2. Cardinality(Leaked) + Cardinality(Orphans) <= faults + ek
    BY <1>11
  <2> HIDE DEF ek
  <2> QED BY <1>1, <1>2, <1>3, <1>4, <1>7, <1>8, <1>9, <2>1, <2>2
<1>13. faults' = faults /\ epoch' = epoch + 1 /\ cmds' = cmds
  BY DEF Crash
<1> QED BY <1>1, <1>12, <1>13 DEF LeakInv

(* isolate.py:145-149, 178-213, 225-229: the boxes lost to the pool are paid
   for, one failure each or one coroutine of a server that crashed. *)
THEOREM PoolLeaks == Spec => []LeakBounded
<1>1. Init => LeakInv
  BY PoolAssumption, FS_EmptySet, FS_CardinalityType DEF Init, LeakInv, Leaked, Orphans
<1>2. PoolInv /\ LeakInv /\ PoolInv' /\ [Next]_vars => LeakInv'
  <2> SUFFICES ASSUME PoolInv, LeakInv, PoolInv', [Next]_vars PROVE LeakInv'
    OBVIOUS
  <2>1. CASE UNCHANGED vars
    BY <2>1 DEF vars, LeakInv, Leaked, Held, Holds, Holding, Orphans
  <2> QED BY <2>1, CoroutineLeak, CommandLeak, CrashLeak DEF Next
<1>3. PoolInv /\ LeakInv => LeakBounded
  <2> SUFFICES ASSUME PoolInv, LeakInv PROVE LeakBounded
    OBVIOUS
  <2>1. /\ Cardinality(Leaked) \in Nat /\ Cardinality(Orphans) \in Nat
        /\ faults + epoch * Cardinality(Isolator) \in Nat
    BY CountedFinite, FS_CardinalityType DEF LeakInv
  <2>2. Cardinality(Leaked) <= faults + epoch * Cardinality(Isolator)
    BY <2>1 DEF LeakInv
  <2> QED BY <2>2 DEF LeakBounded, Leaked
<1> QED BY <1>1, <1>2, <1>3, PoolInvariant, PTL DEF Spec
=============================================================================
