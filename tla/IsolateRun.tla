----------------------------- MODULE IsolateRun -----------------------------
(***************************************************************************)
(* What a run in a box leaves: isolate's exit code and meta file, and what *)
(* Isolator.run and Isolator.__aexit__ (camisole.isolate) make of them.    *)
(***************************************************************************)
EXTENDS Integers

\* How a run may end.  A limit of the control group may also strike a child of
\* a program that then exits with 0 ("child_memory").  "kill" is isolate itself
\* killed, "none" a run that was never started.
Ending == {"exit0", "exit1", "exit2", "crash", "term", "time", "memory", "child_memory",
           "internal", "kill", "none"}

\* isolate's own exit code.
Retcode(e) == CASE e \in {"exit0", "child_memory"} -> 0
                [] e = "internal" -> 2
                [] e = "kill" -> -9
                [] OTHER -> 1

\* The keys isolate writes.
Written(e) == CASE e = "exit0" -> [exitcode |-> 0]
              [] e = "exit1" -> [status |-> "RE", exitcode |-> 1]
              [] e = "exit2" -> [status |-> "RE", exitcode |-> 2]
              [] e \in {"crash", "term"} -> [status |-> "SG", exitsig |-> 15]
              [] e = "time" -> [status |-> "TO"]
              [] e = "memory" -> [status |-> "SG", exitsig |-> 9, cg_oom_killed |-> 1]
              [] e = "child_memory" -> [exitcode |-> 0, cg_oom_killed |-> 1]
              [] e = "internal" -> [status |-> "XX"]
              [] OTHER -> [key \in {} |-> 0]

meta_defaults == [status |-> "OK", exitcode |-> 0, exitsig |-> 0, cg_oom_killed |-> 0]

Filled(e) == LET m == Written(e)
           IN  [key \in DOMAIN meta_defaults |-> IF key \in DOMAIN m THEN m[key]
                                                                     ELSE meta_defaults[key]]

verbose_status == [OK |-> "OK", RE |-> "RUNTIME_ERROR", TO |-> "TIMED_OUT", SG |-> "SIGNALED",
                   XX |-> "INTERNAL_ERROR"]

MetaIgnoresOOM(e) == [Filled(e) EXCEPT !.status = verbose_status[@]]

\* self.meta: defaults for the missing keys, and the control group has the last word.
Meta(e) ==
  [Filled(e) EXCEPT !.status = IF Filled(e).cg_oom_killed # 0 THEN "OUT_OF_MEMORY"
                                                          ELSE verbose_status[@]]

\* run() raises IsolateInternalError; an isolate that was killed is no such error.
RunRaises(e) == Retcode(e) >= 2
=============================================================================
