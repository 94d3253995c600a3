-------------------------- MODULE InteractiveTest ---------------------------
(***************************************************************************)
(* One interactive test (_run_interactive_test_via_proxy of                *)
(* camisole.models): the proxy runs the two programs, each wrapped in      *)
(* `isolate --run`; when both boxes are left, the verdict of the proxy is  *)
(* normalised with what isolate wrote in the two meta files.               *)
(***************************************************************************)
EXTENDS InteractiveProxy

ASSUME WrappedAssumption == Wrapped

\* The meta object of a box after __aexit__: that of a program that never ran, or
\* whose isolate was killed, is all defaults.
meta(p) == Meta(os[p])

MetaStatus(p) == meta(p).status

\* _extract_exit_from_meta; the message of a runtime error has the same number.
MetaExit(p) == meta(p).exitcode

Trusted(p) == MetaStatus(p) \in {"OK", "RUNTIME_ERROR"}

\* judge_exit_code once the meta file is preferred to the wrapper's own code.
JudgeExit == IF Trusted("judge") THEN MetaExit("judge") ELSE exitcode["judge"]

Violated == verdict = "FIREWALL_VIOLATION"

\* The first cascade: the hard failures isolate reports.
HardVerdict ==
  LET timedOut(p) == MetaStatus(p) = "TIMED_OUT"
      outOfMemory == \E p \in Process : MetaStatus(p) = "OUT_OF_MEMORY"
  IN  IF Violated THEN verdict
      ELSE IF timedOut("user") THEN "USER_TIMEOUT"
      ELSE IF timedOut("judge") THEN "JUDGE_TIMEOUT"
      ELSE IF outOfMemory THEN "RESOURCE_LIMIT_EXCEEDED"
      ELSE verdict

JudgeCrashed == MetaStatus("judge") = "SIGNALED" \/ exitcode["judge"] < 0

FinalVerdictTrustsMeta ==
  IF Violated THEN HardVerdict
  ELSE IF MetaExit("judge") = FaultCode THEN "FAULT"
  ELSE IF MetaExit("judge") = 0 THEN "PASS"
  ELSE HardVerdict

FinalVerdictTrustsWrapper ==
  IF Violated THEN HardVerdict
  ELSE IF JudgeExit = FaultCode THEN "FAULT"
  ELSE IF JudgeExit = 0 /\ MetaStatus("judge") = "OK" THEN "PASS"
  ELSE IF JudgeExit \notin {0, None} THEN "FAULT"
  ELSE HardVerdict

\* The second cascade: what the judge's exit code decides.
FinalVerdict ==
  IF Violated THEN HardVerdict
  ELSE IF JudgeExit = FaultCode THEN "FAULT"
  ELSE IF JudgeExit = 0 /\ MetaStatus("judge") = "OK" THEN "PASS"
  ELSE IF HardVerdict = "JUDGE_RUNTIME_ERROR" /\ JudgeExit \notin {0, None} /\ ~ JudgeCrashed
         THEN "FAULT"
  ELSE HardVerdict

-----------------------------------------------------------------------------
Over == phase = "done"

(* models.py:846-956: the many places a code can come from never turn a judge
   that failed into one that accepted: a judge that ran, and that isolate was
   not killed under, passes the test only by exiting with 0. *)
PassNeedsExit0 ==
  (Over /\ FinalVerdict = "PASS" /\ os["judge"] \notin {"none", "kill"})
    => os["judge"] = "exit0"

(* models.py:897-963: FAULT is the verdict of a judge that exited with an error
   (or of an internal error of isolate, whose 2 is taken for that).  A judge that
   was stopped, crashed or never ran is given it only if the fault code is one
   that isolate has for such an end: the exit code of its own process, or the
   0 that stands for a missing code in the meta file. *)
FaultNotFromCrash ==
  (Over /\ FinalVerdict = "FAULT")
    => \/ os["judge"] \in {"exit1", "exit2", "internal"}
       \/ FaultCode \in {Retcode(os["judge"]), MetaExit("judge")}

(* models.py:953-954 "A judge that exits successfully defines the test result":
   only such a judge makes the test pass. *)
PassIsJudgesWord == (Over /\ FinalVerdict = "PASS") => os["judge"] = "exit0"
=============================================================================
