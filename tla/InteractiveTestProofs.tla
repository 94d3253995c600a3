------------------------ MODULE InteractiveTestProofs ------------------------
(***************************************************************************)
(* What the verdict of an interactive test says of the judge, for every    *)
(* execution of the proxy and every way in which isolate ends a program.   *)
(***************************************************************************)
EXTENDS InteractiveTest, InteractiveProxyProofs

\* The tuples of variables that the actions leave unchanged.
USE DEF procVars, noted, ioVars, result, rest

\* A judge whose code was taken has ended with it, and the verdicts that rest
\* on the code of the judge rest on that one.
Judged ==
  /\ verdict = "PASS" => Dead("judge") /\ Code("judge") = 0
  /\ verdict = "FAULT" => Dead("judge") /\ Code("judge") = FaultCode
  /\ exitcode["judge"] # None => Dead("judge") /\ exitcode["judge"] = Code("judge")

LEMMA CodeKept ==
  ASSUME TypeOK, Lives, [Next]_vars, Dead("judge")
  PROVE  Dead("judge")' /\ Code("judge")' = Code("judge")
  BY DeadStays, Others DEF Dead, Code

\* Only run() gives a verdict.
LEMMA OnlyRunJudges ==
  ASSUME [Next]_vars
  PROVE  Run \/ UNCHANGED <<verdict, exitcode>>
  <1>1. ASSUME NEW p \in Process,
               \/ Write(p) \/ Absorb(p) \/ CloseStdout(p) \/ Notice(p) \/ StdinBroken(p)
               \/ (\E how \in Causes : Die(p, how))
               \/ WaitForData(p) \/ Read(p) \/ ReadEOF(p) \/ PollExpires(p) \/ PollTimeout(p)
               \/ OnReaderDone(p) \/ Cleanup(p)
        PROVE  UNCHANGED <<verdict, exitcode>>
    BY <1>1, ReadFrame DEF Write, Absorb, CloseStdout, Notice, StdinBroken, Die, WaitForData, ReadEOF,
       PollExpires, PollTimeout, OnReaderDone, Cleanup, CleanupClose, CleanupExited, CleanupKill
  <1>2. JudgeExited \/ OnJudgeExit \/ UNCHANGED vars => UNCHANGED <<verdict, exitcode>>
    BY DEF JudgeExited, OnJudgeExit, vars
  <1> QED BY <1>1, <1>2, Steps

LEMMA JudgedStep ==
  ASSUME TypeOK, Lives, Caused, Judged, [Next]_vars
  PROVE  Judged'
  <1>1. CASE UNCHANGED <<verdict, exitcode>>
    BY <1>1, CodeKept DEF Judged
  <1>2. CASE SpawnUser \/ SpawnJudge
    <2>1. UNCHANGED exitcode /\ (verdict' = verdict \/ verdict' = "PROXY_COMMUNICATION_ERROR")
      BY <1>2 DEF SpawnUser, SpawnJudge, Spawn, Spawned, Fail
    <2> QED BY <2>1, CodeKept DEF Judged
  <1>3. CASE Finish
    <2>1. /\ UNCHANGED os /\ verdict' = BuildResult /\ exitcode'["judge"] = Code("judge")
          /\ seen["judge"]
      BY <1>3, Others DEF Finish, Caused
    <2>2. Dead("judge") /\ Dead("judge")' /\ Code("judge")' = Code("judge")
      BY <2>1, CodeKept, Others DEF Lives
    <2>3. /\ BuildResult = "PASS" => Code("judge") = 0
          /\ BuildResult = "FAULT" => Code("judge") = FaultCode
      BY DEF BuildResult
    <2> QED BY <2>1, <2>2, <2>3 DEF Judged
  <1>4. CASE HandleTimeout
    <2>1. /\ UNCHANGED os /\ verdict' \in {"USER_TIMEOUT", "JUDGE_TIMEOUT"}
          /\ exitcode'["judge"] = IF seen["judge"] THEN Code("judge") ELSE None
      BY <1>4, Others DEF HandleTimeout
    <2>2. seen["judge"] => Dead("judge")
      BY Others DEF Lives
    <2> QED BY <2>1, <2>2, CodeKept DEF Judged
  <1>5. CASE SendUserStdin \/ StartForwarding \/ FireTimeout
    <2>1. UNCHANGED <<verdict, exitcode>>
      BY <1>5 DEF SendUserStdin, StartForwarding, FireTimeout
    <2> QED BY <1>1, <2>1
  <1> QED BY <1>1, <1>2, <1>3, <1>4, <1>5, OnlyRunJudges DEF Run

TestInv == ProxyInv /\ Judged

(* The invariant of an interactive test: that of the proxy, and what its
   verdict and its codes say of the judge. *)
THEOREM TestInvariant == Spec => []TestInv
  <1>1. Init => TestInv
    <2> SUFFICES ASSUME Init PROVE Judged
      BY InvInit DEF TestInv
    <2>1. verdict = "none" /\ exitcode["judge"] = None
      BY Others DEF Init, All
    <2> QED BY <2>1 DEF Judged
  <1>2. TestInv /\ [Next]_vars => TestInv'
    BY InvStep, JudgedStep DEF TestInv, ProxyInv
  <1> QED BY <1>1, <1>2, PTL DEF Spec

-----------------------------------------------------------------------------
(* The verdict. *)

\* What isolate says of a program that ended.
LEMMA MetaOf ==
  ASSUME NEW e \in Causes \cup {"none"}
  PROVE  /\ e \in {"exit0", "kill", "none"} => Meta(e).status = "OK" /\ Meta(e).exitcode = 0
         /\ e = "exit1" => Meta(e).status = "RUNTIME_ERROR" /\ Meta(e).exitcode = 1
         /\ e = "exit2" => Meta(e).status = "RUNTIME_ERROR" /\ Meta(e).exitcode = 2
         /\ e \in {"crash", "term"} => Meta(e).status = "SIGNALED"
         /\ e = "time" => Meta(e).status = "TIMED_OUT"
         /\ e \in {"memory", "child_memory"} => Meta(e).status = "OUT_OF_MEMORY"
         /\ e = "internal" => Meta(e).status = "INTERNAL_ERROR"
  <1>1. CASE e = "exit0"
    BY <1>1 DEF Meta, Filled, Written, meta_defaults, verbose_status
  <1>2. CASE e = "kill"
    BY <1>2 DEF Meta, Filled, Written, meta_defaults, verbose_status
  <1>3. CASE e = "exit1"
    BY <1>3 DEF Meta, Filled, Written, meta_defaults, verbose_status
  <1>4. CASE e = "exit2"
    BY <1>4 DEF Meta, Filled, Written, meta_defaults, verbose_status
  <1>5. CASE e = "crash"
    BY <1>5 DEF Meta, Filled, Written, meta_defaults, verbose_status
  <1>6. CASE e = "term"
    BY <1>6 DEF Meta, Filled, Written, meta_defaults, verbose_status
  <1>7. CASE e = "time"
    BY <1>7 DEF Meta, Filled, Written, meta_defaults, verbose_status
  <1>8. CASE e = "memory"
    BY <1>8 DEF Meta, Filled, Written, meta_defaults, verbose_status
  <1>9. CASE e = "child_memory"
    BY <1>9 DEF Meta, Filled, Written, meta_defaults, verbose_status
  <1>10. CASE e = "internal"
    BY <1>10 DEF Meta, Filled, Written, meta_defaults, verbose_status
  <1>11. CASE e = "none"
    BY <1>11 DEF Meta, Filled, Written, meta_defaults, verbose_status
  <1> QED BY <1>1, <1>2, <1>3, <1>4, <1>5, <1>6, <1>7, <1>8, <1>9, <1>10, <1>11
          DEF Causes, SandboxCauses

LEMMA CodeOf ==
  ASSUME NEW p \in Process, Dead(p)
  PROVE  /\ os[p] \in {"exit0", "child_memory"} <=> Code(p) = 0
         /\ os[p] = "internal" <=> Code(p) = 2
         /\ os[p] \notin {"exit0", "child_memory", "internal", "kill"} => Code(p) = 1
         /\ Code(p) \in {-9, 0, 1, 2}
  BY WrappedAssumption DEF Dead, Code, Retcode, Causes, SandboxCauses

LEMMA JudgeEnded ==
  ASSUME ProxyInv, Over, os["judge"] # "none"
  PROVE  Dead("judge")
  BY Others DEF ProxyInv, CleanedUp, NoOrphans, TypeOK, Over, Dead

LEMMA Passes ==
  ASSUME TestInv, Over, FinalVerdict = "PASS", os["judge"] \notin {"none", "kill"}
  PROVE  os["judge"] = "exit0"
  <1> DEFINE e == os["judge"]
  <1>1. e \in Causes /\ Dead("judge") /\ Judged
    BY JudgeEnded DEF TestInv, Dead
  <1>2. CASE MetaStatus("judge") = "OK"
    BY <1>1, <1>2, MetaOf DEF MetaStatus, meta, Causes, SandboxCauses
  <1>3. CASE HardVerdict = "PASS"
    <2>1. verdict = "PASS" /\ MetaStatus("judge") # "OUT_OF_MEMORY"
      BY <1>3, Others DEF HardVerdict, Violated
    <2>2. e \in {"exit0", "child_memory"}
      BY <1>1, <2>1, CodeOf, Others DEF Judged
    <2> QED BY <1>1, <2>1, <2>2, MetaOf DEF MetaStatus, meta
  <1> QED BY <1>2, <1>3 DEF FinalVerdict

LEMMA Faults ==
  ASSUME TestInv, Over, FinalVerdict = "FAULT"
  PROVE  \/ os["judge"] \in {"exit1", "exit2", "internal"}
         \/ FaultCode \in {Retcode(os["judge"]), MetaExit("judge")}
  <1> DEFINE e == os["judge"]
  <1>1. /\ Judged /\ FaultCode # None /\ FaultCode \in Nat /\ ~ Violated
        /\ e \in Causes \cup {"none"}
    <2>1. ~ Violated
      BY DEF FinalVerdict, HardVerdict, Violated
    <2>2. e = "none" \/ Dead("judge")
      BY JudgeEnded DEF TestInv
    <2> QED BY <2>1, <2>2, ProxyAssumption DEF TestInv, Dead
  <1>2. SUFFICES ASSUME JudgeExit # FaultCode \/ ~ Trusted("judge")
                 PROVE  \/ e \in {"exit1", "exit2", "internal"}
                        \/ FaultCode = Retcode(e)
    BY DEF JudgeExit
  <1>3. CASE e \in {"exit0", "kill", "none"}
    <2>1. MetaStatus("judge") = "OK" /\ MetaExit("judge") = 0
      BY <1>1, <1>3, MetaOf DEF MetaStatus, MetaExit, meta
    <2>2. JudgeExit = 0 /\ Trusted("judge")
      BY <2>1 DEF JudgeExit, Trusted
    <2> QED BY <1>1, <1>2, <2>1, <2>2 DEF FinalVerdict
  <1>4. CASE e \in {"crash", "term", "time", "memory", "child_memory"}
    <2>1. Dead("judge") /\ Code("judge") = Retcode(e)
      BY <1>4, WrappedAssumption DEF Dead, Causes, SandboxCauses, Code
    <2>2. exitcode["judge"] # None => exitcode["judge"] = Retcode(e)
      BY <1>1, <2>1 DEF Judged
    <2>3. JudgeExit = exitcode["judge"] /\ (MetaStatus("judge") = "SIGNALED" => JudgeCrashed)
          /\ MetaStatus("judge") \in {"SIGNALED", "TIMED_OUT", "OUT_OF_MEMORY"}
      BY <1>1, <1>4, MetaOf DEF MetaStatus, meta, JudgeExit, Trusted, JudgeCrashed
    <2>4. JudgeExit = FaultCode => FaultCode = Retcode(e)
      BY <1>1, <2>2, <2>3
    <2>5. verdict = "FAULT" => FaultCode = Retcode(e)
      BY <1>1, <2>1 DEF Judged
    <2>6. HardVerdict = "FAULT" => verdict = "FAULT"
      BY <1>1 DEF HardVerdict
    <2>7. MetaStatus("judge") \in {"TIMED_OUT", "OUT_OF_MEMORY"}
            => HardVerdict \notin {"FAULT", "JUDGE_RUNTIME_ERROR"}
      BY <1>1, Others DEF HardVerdict
    <2> QED BY <1>1, <2>3, <2>4, <2>5, <2>6, <2>7 DEF FinalVerdict
  <1> QED BY <1>1, <1>3, <1>4 DEF Causes, SandboxCauses

(* models.py:846-956: whichever of the codes decides, a judge that ran and that
   isolate was not killed under passes a test by exiting with 0 only. *)
THEOREM PassIsEarned == Spec => []PassNeedsExit0
  <1>1. TestInv => PassNeedsExit0
    BY Passes DEF PassNeedsExit0
  <1> QED BY <1>1, TestInvariant, PTL

(* models.py:897-963: for every fault code, a wrong answer is the verdict of a
   judge that exited with an error (or of isolate's internal error), unless the
   fault code is one of those that isolate itself has for another end. *)
THEOREM FaultIsJudges == Spec => []FaultNotFromCrash
  <1>1. TestInv => FaultNotFromCrash
    BY Faults DEF FaultNotFromCrash
  <1> QED BY <1>1, TestInvariant, PTL
=============================================================================
