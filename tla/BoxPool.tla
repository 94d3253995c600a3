------------------------------ MODULE BoxPool -------------------------------
(***************************************************************************)
(* The allocation of isolate boxes by camisole.isolate.Isolator.           *)
(*                                                                         *)
(* No lock and no table protects the pool.  Each `async with Isolator(..)` *)
(* lists the box directories once, then tries `isolate --init` on the ids  *)
(* that were absent from that listing, one subprocess at a time, until one *)
(* succeeds.  Mutual exclusion rests on isolate itself, which refuses to   *)
(* initialise a box that exists.  The coroutines interleave at every       *)
(* await, and a subprocess outlives a server that crashed.                 *)
(***************************************************************************)
EXTENDS Naturals, FiniteSets

CONSTANTS
  Isolator,      \* the coroutines that may be inside `async with Isolator`
  Box,           \* range(max_boxes)
  NoBox,         \* self.box_id before __aenter__
  Free, Lost,    \* what BoxLease calls a box without an owner
  MaxReuses,     \* bounds how often a coroutine enters another Isolator
  MaxCrashes,    \* bounds the crashes of the server
  MaxFaults      \* bounds the failures of isolate and of the meta parser

ASSUME PoolAssumption ==
  /\ IsFiniteSet(Isolator) /\ IsFiniteSet(Box) /\ NoBox \notin Box
  /\ Free \notin Isolator /\ Lost \notin Isolator /\ Free # Lost
  /\ MaxReuses \in Nat /\ MaxCrashes \in Nat /\ MaxFaults \in Nat

VARIABLES
  dirs,          \* the directories under box_root
  pc,            \* where each coroutine is
  avail,         \* the local variable of __aenter__
  box,           \* self.box_id
  reply,         \* what the awaited subprocess returned, "none" while it runs
  cmds,          \* the isolate subprocesses that have not acted yet
  epoch,         \* how many times the server crashed
  faults,        \* how many failures were injected
  reuses         \* how many fresh Isolators were entered after a first one

vars == <<dirs, pc, avail, box, reply, cmds, epoch, faults, reuses>>

Ended == {"done", "exhausted", "failed"}

Cmd(op, i, b) == [op |-> op, by |-> i, box |-> b, epoch |-> epoch]

Commands == [op : {"init", "cleanup"}, by : Isolator, box : Box, epoch : 0..MaxCrashes]

-----------------------------------------------------------------------------
Init ==
  /\ dirs = {} /\ cmds = {}
  /\ pc = [i \in Isolator |-> "new"]
  /\ avail = [i \in Isolator |-> {}]
  /\ box = [i \in Isolator |-> NoBox]
  /\ reply = [i \in Isolator |-> "none"]
  /\ epoch = 0 /\ faults = 0 /\ reuses = 0

\* `isolate --init` is started on a popped id; the await lets the others run.
StartInit(i, b, left) ==
  /\ pc' = [pc EXCEPT ![i] = "init"]
  /\ avail' = [avail EXCEPT ![i] = left]
  /\ box' = [box EXCEPT ![i] = b]
  /\ reply' = [reply EXCEPT ![i] = "none"]
  /\ cmds' = cmds \cup {Cmd("init", i, b)}

\* The loop's else branch raises "No isolate box ID available."
GiveUp(i) ==
  /\ pc' = [pc EXCEPT ![i] = "exhausted"]
  /\ avail' = [avail EXCEPT ![i] = {}]
  /\ UNCHANGED <<box, reply, cmds>>

ProbeForgetsPop(i, ids) ==
  \/ \E b \in ids : StartInit(i, b, ids)
  \/ ids = {} /\ GiveUp(i)

\* One turn of the loop.
Probe(i, ids) ==
  \/ \E b \in ids : StartInit(i, b, ids \ {b})
  \/ ids = {} /\ GiveUp(i)

EnterOutOfRange(i) ==
  /\ pc[i] = "new"
  /\ Probe(i, (Box \cup {NoBox}) \ dirs)
  /\ UNCHANGED <<dirs, epoch, faults, reuses>>

EnterOffByOne(i) ==
  /\ pc[i] = "new"
  /\ \E last \in Box : Probe(i, Box \ (dirs \cup {last}))
  /\ UNCHANGED <<dirs, epoch, faults, reuses>>

\* __aenter__ lists box_root: the only time it looks.
Enter(i) ==
  /\ pc[i] = "new"
  /\ Probe(i, Box \ dirs)
  /\ UNCHANGED <<dirs, epoch, faults, reuses>>

InitDoneIgnoresExists(i) ==
  /\ pc[i] = "init" /\ reply[i] \in {"ok", "exists"}
  /\ pc' = [pc EXCEPT ![i] = "body"]
  /\ UNCHANGED <<dirs, avail, box, reply, cmds, epoch, faults, reuses>>

InitDoneIgnoresError(i) ==
  /\ pc[i] = "init" /\ reply[i] \in {"ok", "error"}
  /\ pc' = [pc EXCEPT ![i] = "body"]
  /\ UNCHANGED <<dirs, avail, box, reply, cmds, epoch, faults, reuses>>

\* __aenter__ after the await: retry on "already exists", raise on any other code.
InitDone(i) ==
  /\ pc[i] = "init"
  /\ \/ /\ reply[i] = "ok"
        /\ pc' = [pc EXCEPT ![i] = "body"]
        /\ UNCHANGED <<avail, box, reply, cmds>>
     \/ /\ reply[i] = "exists"
        /\ Probe(i, avail[i])
     \/ /\ reply[i] = "error"
        /\ pc' = [pc EXCEPT ![i] = "failed"]
        /\ UNCHANGED <<avail, box, reply, cmds>>
  /\ UNCHANGED <<dirs, epoch, faults, reuses>>

ExitSkipsCleanup(i) ==
  /\ pc[i] = "body"
  /\ pc' = [pc EXCEPT ![i] = "done"]
  /\ UNCHANGED <<dirs, avail, box, reply, cmds, epoch, faults, reuses>>

\* __aexit__ up to the start of `isolate --cleanup`.
Exit(i) ==
  /\ pc[i] = "body"
  /\ pc' = [pc EXCEPT ![i] = "cleanup"]
  /\ reply' = [reply EXCEPT ![i] = "none"]
  /\ cmds' = cmds \cup {Cmd("cleanup", i, box[i])}
  /\ UNCHANGED <<dirs, avail, box, epoch, faults, reuses>>

\* __aexit__ parses the meta file first: an unknown key or status raises and
\* `isolate --cleanup` is never started.
ExitRaises(i) ==
  /\ pc[i] = "body" /\ faults < MaxFaults
  /\ pc' = [pc EXCEPT ![i] = "failed"]
  /\ faults' = faults + 1
  /\ UNCHANGED <<dirs, avail, box, reply, cmds, epoch, reuses>>

\* __aexit__ after the await: a nonzero code raises.
CleanupDone(i) ==
  /\ pc[i] = "cleanup" /\ reply[i] # "none"
  /\ pc' = [pc EXCEPT ![i] = IF reply[i] = "ok" THEN "done" ELSE "failed"]
  /\ UNCHANGED <<dirs, avail, box, reply, cmds, epoch, faults, reuses>>

\* The coroutine enters a fresh Isolator: the next test or the next request.
Again(i) ==
  /\ pc[i] \in Ended /\ reuses < MaxReuses
  /\ pc' = [pc EXCEPT ![i] = "new"]
  /\ reuses' = reuses + 1
  /\ UNCHANGED <<dirs, avail, box, reply, cmds, epoch, faults>>

-----------------------------------------------------------------------------
(* isolate itself, as the code uses it.  Making and removing a directory is
   atomic; a command whose coroutine died with the server still acts.      *)

Deliver(c, r) ==
  reply' = IF c.epoch = epoch THEN [reply EXCEPT ![c.by] = r] ELSE reply

\* The command acts on the directories, becoming ds, and answers r.
Finish(c, ds, r) ==
  /\ dirs' = ds
  /\ Deliver(c, r)
  /\ cmds' = cmds \ {c}
  /\ UNCHANGED <<pc, avail, box, epoch, reuses>>

RunInit(c) ==
  /\ c.op = "init"
  /\ \/ /\ IF c.box \in dirs THEN Finish(c, dirs, "exists")
                             ELSE Finish(c, dirs \cup {c.box}, "ok")
        /\ UNCHANGED faults
     \/ /\ c.box \notin dirs /\ faults < MaxFaults
        /\ \E ds \in {dirs, dirs \cup {c.box}} : Finish(c, ds, "error")
        /\ faults' = faults + 1

RunCleanup(c) ==
  /\ c.op = "cleanup"
  /\ \/ /\ Finish(c, dirs \ {c.box}, "ok")
        /\ UNCHANGED faults
     \/ /\ faults < MaxFaults
        /\ \E ds \in {dirs, dirs \ {c.box}} : Finish(c, ds, "error")
        /\ faults' = faults + 1

\* The server is killed and restarted.  The directories and the running
\* isolate processes survive; every Isolator object is gone.
Crash ==
  /\ epoch < MaxCrashes
  /\ epoch' = epoch + 1
  /\ pc' = [i \in Isolator |-> "new"]
  /\ avail' = [i \in Isolator |-> {}]
  /\ box' = [i \in Isolator |-> NoBox]
  /\ reply' = [i \in Isolator |-> "none"]
  /\ UNCHANGED <<dirs, cmds, faults, reuses>>

-----------------------------------------------------------------------------
Next ==
  \/ \E i \in Isolator : \/ Enter(i) \/ InitDone(i) \/ Exit(i) \/ ExitRaises(i)
                         \/ CleanupDone(i) \/ Again(i)
  \/ \E c \in cmds : RunInit(c) \/ RunCleanup(c)
  \/ Crash

\* The event loop runs every ready coroutine and isolate's own commands end.
\* Nothing makes the sandboxed program end: Exit has no fairness.
Fairness ==
  /\ \A i \in Isolator : /\ WF_vars(Enter(i)) /\ WF_vars(InitDone(i))
                         /\ WF_vars(CleanupDone(i))
  /\ WF_vars(\E c \in cmds : RunInit(c) \/ RunCleanup(c))

Spec == Init /\ [][Next]_vars
FairSpec == Spec /\ Fairness

-----------------------------------------------------------------------------
(* The type invariant of the pool. *)
TypeOK ==
  /\ dirs \in SUBSET Box
  /\ pc \in [Isolator -> {"new", "init", "body", "cleanup"} \cup Ended]
  /\ avail \in [Isolator -> SUBSET Box]
  /\ box \in [Isolator -> Box \cup {NoBox}]
  /\ reply \in [Isolator -> {"none", "ok", "exists", "error"}]
  /\ cmds \in SUBSET Commands
  /\ epoch \in 0..MaxCrashes /\ faults \in 0..MaxFaults /\ reuses \in 0..MaxReuses

\* i owns its box: it made the directory and has not removed it.
Holding(i) == \/ pc[i] = "init" /\ reply[i] = "ok"
              \/ pc[i] = "body"
              \/ pc[i] = "cleanup" /\ reply[i] = "none"

Holds(i, b) == Holding(i) /\ box[i] = b

Held == {b \in Box : \E i \in Isolator : Holds(i, b)}

(* No two programs ever share a sandbox (isolate.py:134-149): whatever the
   interleaving of the listings, the initialisations and the cleanups, also
   those left over from before a crash, a box has at most one owner. *)
BoxExclusive ==
  \A i, j \in Isolator, b \in Box : Holds(i, b) /\ Holds(j, b) => i = j

(* While a program runs in its box the box exists (isolate.py:154-158): no
   cleanup, not even one that an earlier server process started, removes a
   box under its present owner. *)
BoxPresent == \A i \in Isolator : pc[i] = "body" => box[i] \in dirs

\* A command of this server process is one that its coroutine awaits.
Awaited == \A c \in cmds : /\ c.epoch <= epoch
                           /\ c.epoch = epoch => /\ pc[c.by] = c.op
                                                 /\ box[c.by] = c.box
                                                 /\ reply[c.by] = "none"

HoldersPresent == \A i \in Isolator : Holding(i) => box[i] \in dirs

\* A cleanup, also an orphan one, concerns a directory that exists, that no
\* other cleanup concerns and that only its own coroutine may hold.
CleanupsSafe ==
  \A c \in cmds : c.op = "cleanup" =>
    /\ c.box \in dirs
    /\ \A i \in Isolator : Holds(i, c.box) => c.by = i /\ c.epoch = epoch
    /\ \A d \in cmds : d.op = "cleanup" /\ d.box = c.box => d = c

(* The inductive invariant behind BoxExclusive and BoxPresent. *)
PoolInv == TypeOK /\ Awaited /\ HoldersPresent /\ BoxExclusive /\ CleanupsSafe

(* Boxes are lost to the pool only by failures (isolate.py:145-149, 178-213,
   225-229): each failure of isolate or of the meta parser costs one box at
   most, a crash of the server one for each coroutine at most. *)
LeakBounded ==
  Cardinality(dirs \ Held) <= faults + epoch * Cardinality(Isolator)

(* tests/test_exhaust_boxes.py:18-24 (test_just_enough_boxes): when there
   are as many boxes as coroutines and each enters one Isolator, nobody is
   told that no box is available, however the attempts collide. *)
JustEnoughBoxes ==
  (reuses = 0 /\ epoch = 0 /\ Cardinality(Isolator) <= Cardinality(Box))
    => \A i \in Isolator : pc[i] # "exhausted"

(* __aenter__ always comes to an end, with a box or with an exception
   (isolate.py:134-152): the loop cannot chase the other coroutines forever. *)
EnterTerminates == \A i \in Isolator : pc[i] = "init" ~> pc[i] # "init"

(* What the message of isolate.py:152 says: "No isolate box ID available." is
   raised only when every box exists.  The listing may be stale by then. *)
ExhaustionMeansFull ==
  [][\A i \in Isolator :
       pc[i] # "exhausted" /\ pc'[i] = "exhausted" => dirs = Box]_vars

-----------------------------------------------------------------------------
(* Refinement: a box is leased to its owner; a directory without an owner is
   lost. *)
LeaseOf(b) ==
  IF b \notin dirs THEN Free
  ELSE IF \E i \in Isolator : Holds(i, b) THEN CHOOSE i \in Isolator : Holds(i, b)
  ELSE Lost

Lease == INSTANCE BoxLease WITH lease <- [b \in Box |-> LeaseOf(b)]

(* The pool implements the leases of BoxLease: a box goes from one owner to
   the next only through its removal, and a lost box is given to nobody. *)
LeaseSpec == Lease!Spec
=============================================================================
