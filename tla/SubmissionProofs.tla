-------------------------- MODULE SubmissionProofs --------------------------
(***************************************************************************)
(* Proofs about Submission: for every number of tests, every mix of plain, *)
(* judged and judge-less ones and every set of proxy verdicts, the loops   *)
(* over the tests stop exactly at a fatal failure and the reports are      *)
(* sound; for every payload, each program runs under the limits meant for  *)
(* it and the schema lets only null through.                               *)
(***************************************************************************)
EXTENDS Submission, TLAPS

ReportType == [ok : BOOLEAN, status : Statuses, match : BOOLEAN, verdict : VerdictKeys,
               ended : Ending \cup {"judged"}]

Before == {"validate", "compile", "judge_compile"}

\* Where the loop is: all tests before the current one ran without a fatal
\* failure, the current one and those after it did not run yet.
LoopState ==
  phase = "test" =>
    /\ Len(results) = Len(request.tests) /\ next \in 1..Len(results)
    /\ \A i \in 1..next - 1 : Ran(i) /\ ~ FatalFailure(i)
    /\ \A i \in next..Len(results) : ~ Ran(i)

SubmissionInv ==
  /\ request \in Request /\ next \in Nat
  /\ results \in Seq(ReportType)
  /\ phase \in Before => results = <<>> /\ next = 1
  /\ LoopState
  /\ FatalStopsRun
  /\ SkippedOnlyByFatal

LEMMA TestsAreSequences ==
  ASSUME request \in Request
  PROVE  /\ request.tests \in Seq(Test) /\ request.allFatal \in BOOLEAN
         /\ request.interactive \in BOOLEAN
         /\ request.tests = <<>> \/ Len(request.tests) >= 1
  <1>1. PICK most \in {MaxTests, MaxOddTests}, layers \in {{NoLimit}, Sections},
                odds \in {{Regular}, Odd} :
          request \in Payloads(BoundedSeq(Test, most), layers, odds)
    BY DEF Request
  <1>2. request.tests \in Seq(Test) /\ request.allFatal \in BOOLEAN /\ request.interactive \in BOOLEAN
    BY <1>1 DEF Payloads, BoundedSeq, SeqOf
  <1>3. request.tests = <<>> \/ Len(request.tests) >= 1
    BY <1>2
  <1> QED BY <1>2, <1>3

\* Entering the loop.
LEMMA BeginTestsKeeps ==
  ASSUME SubmissionInv, phase \in Before, BeginTests, ~ Broken("tests"),
         UNCHANGED <<request, next>>
  PROVE  SubmissionInv'
  <1>1. request.tests \in Seq(Test) /\ (request.tests = <<>> \/ Len(request.tests) >= 1)
    BY TestsAreSequences DEF SubmissionInv
  <1>2. NotRun \in ReportType
    BY DEF NotRun, ReportType, VerdictKeys, Statuses, Ending
  <1>3. results' = [i \in 1..Len(request.tests) |-> NotRun]
        /\ phase' = IF request.tests = <<>> THEN "answered" ELSE "test"
    BY DEF BeginTests
  <1>4. results' \in Seq(ReportType) /\ Len(results') = Len(request.tests)
        /\ DOMAIN results' = 1..Len(request.tests)
    BY <1>1, <1>2, <1>3
  <1>5. \A i \in DOMAIN results' : results'[i] = NotRun
    BY <1>3, <1>4
  <1>6. next' = 1 /\ request' = request /\ request \in Request
    BY DEF SubmissionInv
  <1>7. LoopState'
    BY <1>1, <1>3, <1>4, <1>5, <1>6 DEF LoopState, Ran
  <1>8. FatalStopsRun'
    BY <1>5 DEF FatalStopsRun, FatalFailure, Ran
  <1>9. SkippedOnlyByFatal'
    <2>1. CASE request.tests = <<>>
      BY <2>1, <1>1, <1>4 DEF SkippedOnlyByFatal
    <2>2. CASE request.tests # <<>>
      BY <2>2, <1>3 DEF SkippedOnlyByFatal
    <2> QED BY <2>1, <2>2
  <1> QED BY <1>3, <1>4, <1>6, <1>7, <1>8, <1>9 DEF SubmissionInv, Before

\* Leaving run() early, with an answer before the loop or with an exception.
LEMMA ReturnEarlyKeeps ==
  ASSUME SubmissionInv, phase \in Before, ReturnEarly,
         UNCHANGED <<request, next>>
  PROVE  SubmissionInv'
  <1>1. results' = <<>> /\ phase' = "answered" /\ results = <<>>
    BY DEF SubmissionInv, ReturnEarly
  <1> QED BY <1>1 DEF SubmissionInv, LoopState, FatalStopsRun, SkippedOnlyByFatal

LEMMA RaiseKeeps ==
  ASSUME SubmissionInv, NEW what, Raise(what), UNCHANGED <<request, next>>
  PROVE  SubmissionInv'
  BY DEF SubmissionInv, Before, Raise, LoopState, FatalStopsRun, SkippedOnlyByFatal, FatalFailure,
         Failed, Ran

\* One turn of the loop, whatever ran: a report is filed and the loop goes on
\* unless the test is a fatal one that failed.
LEMMA TurnKeeps ==
  ASSUME SubmissionInv, phase = "test", UNCHANGED request,
         NEW report \in ReportType, report.verdict # "empty",
         results' = [results EXCEPT ![next] = report],
         NEW failed \in BOOLEAN,
         failed <=> (IF report.verdict = "none" THEN ~ report.ok
                     ELSE report.verdict \notin {"PASS", "OK"}),
         Advance(failed)
  PROVE  SubmissionInv'
  <1>1. /\ results \in Seq(ReportType) /\ Len(results) = Len(request.tests)
        /\ next \in 1..Len(results) /\ next \in Nat /\ Len(results) \in Nat
        /\ \A i \in 1..next - 1 : Ran(i) /\ ~ FatalFailure(i)
        /\ \A i \in next..Len(results) : ~ Ran(i)
    BY DEF SubmissionInv, LoopState
  <1>2. /\ results' \in Seq(ReportType) /\ Len(results') = Len(results)
        /\ DOMAIN results' = 1..Len(results) /\ results'[next] = report
        /\ \A i \in 1..Len(results) : i # next => results'[i] = results[i]
    BY <1>1
  <1>3. results'[next] # NotRun
    BY <1>2 DEF NotRun
  <1>4. request' = request /\ request \in Request
    BY DEF SubmissionInv
  <1>5. \A i \in 1..next - 1 : /\ i \in 1..Len(results) /\ results'[i] = results[i]
                               /\ results'[i] # NotRun
    BY <1>1, <1>2 DEF Ran
  <1>6. \A i \in next + 1..Len(results) : results'[i] = NotRun
    BY <1>1, <1>2 DEF Ran
  <1>7. \A i \in 1..next - 1 : ~ FatalFailure(i)'
    BY <1>1, <1>4, <1>5 DEF FatalFailure, Failed, Ran
  <1> DEFINE fatal == failed /\ (current.fatal \/ request.allFatal)
  <1>9. fatal <=> /\ results'[next] # NotRun
                  /\ IF results'[next].verdict = "none" THEN ~ results'[next].ok
                                                        ELSE results'[next].verdict \notin {"PASS", "OK"}
                  /\ request'.tests[next].fatal \/ request'.allFatal
    BY <1>2, <1>3, <1>4 DEF current
  <1>10. FatalStopsRun'
    BY <1>1, <1>2, <1>6, <1>7 DEF FatalStopsRun, Ran
  <1>11. CASE next = Len(request.tests) \/ fatal
    <2>1. phase' = "answered" /\ next' = next
      BY <1>11 DEF Advance
    <2>2. SkippedOnlyByFatal'
      <3> SUFFICES ASSUME NEW j \in 1..Len(results), ~ Ran(j)'
                   PROVE  \E i \in 1..j - 1 : FatalFailure(i)'
        BY <1>2 DEF SkippedOnlyByFatal
      <3>1. j > next /\ next \in 1..j - 1
        BY <1>1, <1>3, <1>5 DEF Ran
      <3>2. fatal
        BY <3>1, <1>1, <1>11
      <3> QED BY <3>1, <3>2, <1>9, <2>1 DEF FatalFailure, Failed, Ran
    <2> QED BY <1>2, <1>1, <1>4, <1>10, <2>1, <2>2 DEF SubmissionInv, Before, LoopState
  <1>12. CASE ~ (next = Len(request.tests) \/ fatal)
    <2>1. phase' = phase /\ next' = next + 1
      BY <1>12 DEF Advance
    <2>2. \A i \in 1..next : (Ran(i) /\ ~ FatalFailure(i))'
      <3> SUFFICES ASSUME NEW i \in 1..next
                   PROVE  Ran(i)' /\ ~ FatalFailure(i)'
        OBVIOUS
      <3>1. CASE i = next
        BY <3>1, <1>3, <1>9, <1>12 DEF FatalFailure, Failed, Ran
      <3>2. CASE i # next
        <4>1. i \in 1..next - 1
          BY <3>2, <1>1
        <4> QED BY <4>1, <1>5, <1>7 DEF Ran
      <3> QED BY <3>1, <3>2
    <2>3. LoopState'
      <3>1. next' \in 1..Len(results') /\ Len(results') = Len(request'.tests)
        BY <1>1, <1>2, <1>4, <1>12, <2>1
      <3>2. \A i \in next'..Len(results') : ~ Ran(i)'
        BY <1>1, <1>2, <1>6, <2>1 DEF Ran
      <3>3. \A i \in 1..next' - 1 : i \in 1..next
        BY <1>1, <2>1
      <3> QED BY <2>2, <3>1, <3>2, <3>3 DEF LoopState
    <2> QED BY <1>1, <1>2, <1>4, <1>10, <2>1, <2>3 DEF SubmissionInv, SkippedOnlyByFatal
  <1> QED BY <1>11, <1>12

-----------------------------------------------------------------------------
LEMMA RunTestKeeps == ASSUME SubmissionInv, RunTest PROVE SubmissionInv'
  <1>1. CASE \E what : Raise(what) /\ UNCHANGED next
    BY <1>1, RaiseKeeps DEF RunTest
  <1>2. CASE \E ended \in RunEnding, match \in BOOLEAN : Execute(ended, match)
    <2>1. PICK ended \in RunEnding, match \in BOOLEAN : Execute(ended, match)
      BY <1>2
    <2>2. PICK ok \in BOOLEAN : ok = (Retcode(ended) = 0)
      OBVIOUS
    <2>3. PICK verdict : verdict = PlainVerdict(ok, match)
      OBVIOUS
    <2>4. PICK status : status = Meta(ended).status
      OBVIOUS
    <2> DEFINE report == [ok |-> ok, status |-> status, match |-> match, verdict |-> verdict,
                          ended |-> ended]
               failed == verdict \in {"FAILED", "INVALID_OUTPUT"} \/ ~ ok
    <2>5. ended \in Ending /\ status \in Statuses
      BY <2>4 DEF RunEnding, Ending, Statuses
    <2>6. verdict \in VerdictKeys \ {"empty"} /\ failed \in BOOLEAN
      BY <2>3, SubmissionAssumption DEF PlainVerdict, VerdictKeys
    <2>7. report \in ReportType /\ report.verdict # "empty"
      BY <2>5, <2>6 DEF ReportType
    <2>8. failed <=> (IF report.verdict = "none" THEN ~ report.ok
                      ELSE report.verdict \notin {"PASS", "OK"})
      BY <2>3 DEF PlainVerdict
    <2>9. results' = [results EXCEPT ![next] = report] /\ Advance(failed)
      BY <2>1, <2>2, <2>3, <2>4 DEF Execute, Report
    <2>10. phase = "test" /\ UNCHANGED request
      BY DEF RunTest
    <2> QED BY <2>6, <2>7, <2>8, <2>9, <2>10, TurnKeeps
  <1> QED BY <1>1, <1>2 DEF RunTest

LEMMA RunJudgedTestKeeps == ASSUME SubmissionInv, RunJudgedTest PROVE SubmissionInv'
  <1>0. ProxyAnswers \subseteq ProxyVerdict
    BY SubmissionAssumption DEF ProxyAnswers
  <1>1. PICK answer \in ProxyVerdict, match \in BOOLEAN :
          /\ Report(answer = "PASS", "none", match, JudgedVerdict(answer, match), "judged")
          /\ Advance(JudgedVerdict(answer, match) \notin {"PASS", "OK"})
    BY <1>0 DEF RunJudgedTest
  <1>2. PICK verdict : verdict = JudgedVerdict(answer, match)
    OBVIOUS
  <1> DEFINE report == [ok |-> answer = "PASS", status |-> "none", match |-> match,
                        verdict |-> verdict, ended |-> "judged"]
             failed == verdict \notin {"PASS", "OK"}
  <1>3. verdict \in VerdictKeys \ {"none", "empty"}
    BY <1>2, SubmissionAssumption DEF JudgedVerdict, VerdictKeys
  <1>4. report \in ReportType /\ report.verdict # "empty" /\ failed \in BOOLEAN
    BY <1>3 DEF ReportType, Statuses
  <1>5. failed <=> (IF report.verdict = "none" THEN ~ report.ok
                    ELSE report.verdict \notin {"PASS", "OK"})
    BY <1>3
  <1>6. results' = [results EXCEPT ![next] = report] /\ Advance(failed)
    BY <1>1, <1>2 DEF Report
  <1>7. phase = "test" /\ UNCHANGED request
    BY DEF RunJudgedTest
  <1> QED BY <1>4, <1>5, <1>6, <1>7, TurnKeeps

\* What comes before the tests either moves on within that part, starts the
\* tests, answers or raises.
LEMMA PreparationKeeps ==
  ASSUME SubmissionInv,
         Validate \/ RunCompilation \/ RunStage \/ RunJudgeCompilation \/ JudgeLanguageUnknown
  PROVE  SubmissionInv'
  <1> DEFINE moved == phase' \in Before \cup {"refused"} /\ UNCHANGED results
  <1>1. phase \in Before /\ UNCHANGED <<request, next>>
    BY DEF Validate, RunCompilation, RunStage, RunJudgeCompilation, JudgeLanguageUnknown, Before
  <1>2. CASE ReturnEarly
    BY <1>1, <1>2, ReturnEarlyKeeps
  <1>3. CASE \E what : Raise(what)
    BY <1>1, <1>3, RaiseKeeps
  <1>4. CASE BeginTests
    BY <1>1, <1>3, <1>4, BeginTestsKeeps DEF BeginTests
  <1>5. CASE moved
    BY <1>1, <1>5 DEF SubmissionInv, LoopState, FatalStopsRun, SkippedOnlyByFatal, Before
  <1>6. Validate => moved \/ \E what : Raise(what)
    BY DEF Validate, Before
  <1>7. RunCompilation => \/ ReturnEarly \/ BeginTests \/ moved \/ \E what : Raise(what)
    BY DEF RunCompilation, CompileUser, Compile, RunJudgeOrTests, Before
  <1>8. RunStage => \/ ReturnEarly \/ BeginTests \/ moved \/ \E what : Raise(what)
    BY DEF RunStage, CompileUser, Compile, NextStage, Before
  <1>9. RunJudgeCompilation => ReturnEarly \/ BeginTests \/ \E what : Raise(what)
    BY DEF RunJudgeCompilation, Compile
  <1> QED BY <1>2, <1>3, <1>4, <1>5, <1>6, <1>7, <1>8, <1>9 DEF JudgeLanguageUnknown

LEMMA SubmissionInductive == Spec => []SubmissionInv
  <1>1. Init => SubmissionInv
    BY DEF Init, SubmissionInv, LoopState, FatalStopsRun, SkippedOnlyByFatal, Before
  <1>2. SubmissionInv /\ [Next]_vars => SubmissionInv'
    <2> SUFFICES ASSUME SubmissionInv, [Next]_vars PROVE SubmissionInv'
      OBVIOUS
    <2>1. CASE \/ Validate \/ RunCompilation \/ RunStage \/ RunJudgeCompilation
               \/ JudgeLanguageUnknown
      BY <2>1, PreparationKeeps
    <2>2. CASE RunTest
      BY <2>2, RunTestKeeps
    <2>3. CASE RunJudgedTest
      BY <2>3, RunJudgedTestKeeps
    <2>5. CASE TestOptionsRaise
      BY <2>5, RaiseKeeps DEF TestOptionsRaise
    <2>4. CASE UNCHANGED vars
      BY <2>4 DEF vars, SubmissionInv, LoopState, FatalStopsRun, SkippedOnlyByFatal,
                  FatalFailure, Failed, Ran
    <2> QED BY <2>1, <2>2, <2>3, <2>4, <2>5 DEF Next
  <1> QED BY <1>1, <1>2, PTL DEF Spec

(* models.py:346-379, 621-743: whatever the tests and their outcomes, no test
   runs after a fatal one that failed. *)
THEOREM FatalStops == Spec => []FatalStopsRun
  BY SubmissionInductive, PTL DEF SubmissionInv

(* models.py:343-379, 618-743: when the submission is answered, a test whose
   report is empty comes after a fatal failure. *)
THEOREM SkipsOnlyByFatal == Spec => []SkippedOnlyByFatal
  BY SubmissionInductive, PTL DEF SubmissionInv

-----------------------------------------------------------------------------
\* What one report says of the run it is about; n is its test.
ReportSound(n) ==
  /\ (results[n].ok /\ results[n].status = "OK") => results[n].ended = "exit0"
  /\ (results[n].verdict \in {"PASS", "OK"} /\ request.tests[n].expected)
       => /\ results[n].match /\ results[n].ok
          /\ results[n].ended \in {"judged", "exit0", "child_memory"}

ReportsSound == \A n \in DOMAIN results : ReportSound(n)

\* isolate's exit code and the meta file never both read as a success for a run
\* that failed.
LEMMA MetaTellsFailure ==
  ASSUME NEW ended \in Ending, Retcode(ended) = 0
  PROVE  /\ ended \in {"exit0", "child_memory"}
         /\ Meta(ended).status = "OK" => ended = "exit0"
  <1>1. ended \in {"exit0", "child_memory"}
    BY DEF Retcode, Ending
  <1>2. ended = "child_memory" => Meta(ended).status = "OUT_OF_MEMORY"
    BY DEF Meta, Filled, Written, meta_defaults
  <1> QED BY <1>1, <1>2

\* A step that files one sound report and leaves the others alone.
LEMMA ReportKeepsSound ==
  ASSUME SubmissionInv, ReportsSound, phase = "test", UNCHANGED request,
         NEW report \in ReportType,
         results' = [results EXCEPT ![next] = report],
         (report.ok /\ report.status = "OK") => report.ended = "exit0",
         (report.verdict \in {"PASS", "OK"} /\ current.expected)
           => /\ report.match /\ report.ok
              /\ report.ended \in {"judged", "exit0", "child_memory"}
  PROVE  ReportsSound'
  <1>1. results \in Seq(ReportType) /\ next \in DOMAIN results
    BY DEF SubmissionInv, LoopState
  <1>2. /\ DOMAIN results' = DOMAIN results /\ results'[next] = report
        /\ \A n \in DOMAIN results : n # next => results'[n] = results[n]
    BY <1>1
  <1> SUFFICES ASSUME NEW n \in DOMAIN results PROVE ReportSound(n)'
    BY <1>2 DEF ReportsSound
  <1>3. CASE n = next
    BY <1>2, <1>3 DEF ReportSound, current
  <1>4. CASE n # next
    BY <1>2, <1>4 DEF ReportSound, ReportsSound
  <1> QED BY <1>3, <1>4

LEMMA ExecuteKeepsSound ==
  ASSUME SubmissionInv, ReportsSound, phase = "test", UNCHANGED request,
         NEW ended \in RunEnding, NEW match \in BOOLEAN, Execute(ended, match)
  PROVE  ReportsSound'
  <1>1. PICK ok \in BOOLEAN : ok = (Retcode(ended) = 0)
    OBVIOUS
  <1>2. PICK verdict : verdict = PlainVerdict(ok, match)
    OBVIOUS
  <1>3. PICK status : status = Meta(ended).status
    OBVIOUS
  <1> DEFINE report == [ok |-> ok, status |-> status, match |-> match, verdict |-> verdict,
                        ended |-> ended]
  <1>4. ended \in Ending /\ status \in Statuses
    BY <1>3 DEF RunEnding, Ending, Statuses
  <1>5. verdict \in VerdictKeys
    BY <1>2 DEF PlainVerdict, VerdictKeys
  <1>6. report \in ReportType
    BY <1>4, <1>5 DEF ReportType
  <1>7. ok => ended \in {"exit0", "child_memory"} /\ (status = "OK" => ended = "exit0")
    BY <1>1, <1>3, <1>4, MetaTellsFailure
  <1>8. verdict \in {"PASS", "OK"} => match /\ ok
    BY <1>2 DEF PlainVerdict
  <1>9. results' = [results EXCEPT ![next] = report]
    BY <1>1, <1>2, <1>3 DEF Execute, Report
  <1> QED BY <1>6, <1>7, <1>8, <1>9, ReportKeepsSound

LEMMA RunTestKeepsSound == ASSUME SubmissionInv, ReportsSound, RunTest PROVE ReportsSound'
  <1>1. CASE \E what : Raise(what)
    BY <1>1 DEF RunTest, Raise, ReportsSound, ReportSound
  <1>2. CASE \E ended \in RunEnding, match \in BOOLEAN : Execute(ended, match)
    BY <1>2, ExecuteKeepsSound DEF RunTest
  <1> QED BY <1>1, <1>2 DEF RunTest

LEMMA RunJudgedTestKeepsSound ==
  ASSUME SubmissionInv, ReportsSound, RunJudgedTest
  PROVE  ReportsSound'
  <1>0. ProxyAnswers \subseteq ProxyVerdict
    BY SubmissionAssumption DEF ProxyAnswers
  <1>1. PICK answer \in ProxyVerdict, match \in BOOLEAN :
          Report(answer = "PASS", "none", match, JudgedVerdict(answer, match), "judged")
    BY <1>0 DEF RunJudgedTest
  <1>2. PICK verdict : verdict = JudgedVerdict(answer, match)
    OBVIOUS
  <1> DEFINE report == [ok |-> answer = "PASS", status |-> "none", match |-> match,
                        verdict |-> verdict, ended |-> "judged"]
  <1>3. verdict \in VerdictKeys
    BY <1>2 DEF JudgedVerdict, VerdictKeys
  <1>4. report \in ReportType
    BY <1>3 DEF ReportType, Statuses
  <1>5. (verdict \in {"PASS", "OK"} /\ current.expected) => match /\ answer = "PASS"
    BY <1>2, SubmissionAssumption DEF JudgedVerdict
  <1>6. results' = [results EXCEPT ![next] = report]
    BY <1>1, <1>2 DEF Report
  <1> QED BY <1>4, <1>5, <1>6, ReportKeepsSound DEF RunJudgedTest

LEMMA PreparationKeepsSound ==
  ASSUME SubmissionInv, ReportsSound,
         Validate \/ RunCompilation \/ RunStage \/ RunJudgeCompilation \/ JudgeLanguageUnknown
  PROVE  ReportsSound'
  <1>1. UNCHANGED request
    BY DEF Validate, RunCompilation, RunStage, RunJudgeCompilation, JudgeLanguageUnknown
  <1>2. UNCHANGED results \/ results' = [i \in 1..Len(request.tests) |-> NotRun]
    BY DEF Validate, RunCompilation, RunStage, RunJudgeCompilation, JudgeLanguageUnknown,
           CompileUser, Compile, RunJudgeOrTests, NextStage, ReturnEarly, Raise, BeginTests
  <1>3. CASE UNCHANGED results
    BY <1>1, <1>3 DEF ReportsSound, ReportSound
  <1>4. CASE results' = [i \in 1..Len(request.tests) |-> NotRun]
    BY <1>4 DEF ReportsSound, ReportSound, NotRun
  <1> QED BY <1>2, <1>3, <1>4

LEMMA ReportsAlwaysSound == Spec => []ReportsSound
  <1>1. Init => ReportsSound
    BY DEF Init, ReportsSound
  <1>2. SubmissionInv /\ ReportsSound /\ [Next]_vars => ReportsSound'
    <2> SUFFICES ASSUME SubmissionInv, ReportsSound, [Next]_vars PROVE ReportsSound'
      OBVIOUS
    <2>1. CASE \/ Validate \/ RunCompilation \/ RunStage \/ RunJudgeCompilation
               \/ JudgeLanguageUnknown
      BY <2>1, PreparationKeepsSound
    <2>2. CASE RunTest
      BY <2>2, RunTestKeepsSound
    <2>3. CASE RunJudgedTest
      BY <2>3, RunJudgedTestKeepsSound
    <2>4. CASE TestOptionsRaise
      BY <2>4 DEF TestOptionsRaise, Raise, ReportsSound, ReportSound
    <2>5. CASE UNCHANGED vars
      BY <2>5 DEF vars, ReportsSound, ReportSound
    <2> QED BY <2>1, <2>2, <2>3, <2>4, <2>5 DEF Next
  <1> QED BY <1>1, <1>2, SubmissionInductive, PTL DEF Spec

(* usage.rst:120-161: exit code 0 with status OK is always the word of a
   program that ended well. *)
THEOREM ReportsAlwaysTell == Spec => []ReportsTellFailure
  <1>1. ReportsSound => ReportsTellFailure
    BY DEF ReportsSound, ReportSound, ReportsTellFailure
  <1> QED BY <1>1, ReportsAlwaysSound, PTL

(* models.py:358-373, 680-697, 722-737: for every number of tests, one with an
   expected output passes only with it. *)
THEOREM PassesOnlyAsExpected == Spec => []PassNeedsExpected
  <1>1. ReportsSound => PassNeedsExpected
    BY DEF ReportsSound, ReportSound, PassNeedsExpected
  <1> QED BY <1>1, ReportsAlwaysSound, PTL

-----------------------------------------------------------------------------
SandboxType == [program : Programs, limit : Layers \cup {"none"}]

\* The values of the option are those of the sections.
LimitsSound ==
  /\ request.layers \in [Layers -> {"absent", "null", "value"}]
  /\ sandboxes \in Seq(SandboxType)
  /\ \A n \in 1..Len(sandboxes) : RightlyLimited(sandboxes[n], request.layers)

\* A step that asks for more sandboxes.
LEMMA MoreSandboxes ==
  ASSUME LimitsSound, UNCHANGED request, NEW added \in Seq(SandboxType),
         \A n \in 1..Len(added) : RightlyLimited(added[n], request.layers),
         sandboxes' = sandboxes \o added
  PROVE  LimitsSound'
  <1>1. /\ sandboxes' \in Seq(SandboxType) /\ Len(sandboxes') = Len(sandboxes) + Len(added)
        /\ Len(sandboxes) \in Nat /\ Len(added) \in Nat
        /\ \A n \in 1..Len(sandboxes) : sandboxes'[n] = sandboxes[n]
        /\ \A n \in Len(sandboxes) + 1..Len(sandboxes') : sandboxes'[n] = added[n - Len(sandboxes)]
    BY DEF LimitsSound
  <1> SUFFICES ASSUME NEW n \in 1..Len(sandboxes')
               PROVE  RightlyLimited(sandboxes'[n], request.layers)
    BY <1>1 DEF LimitsSound
  <1>2. CASE n \in 1..Len(sandboxes)
    BY <1>1, <1>2 DEF LimitsSound
  <1>3. CASE n \notin 1..Len(sandboxes)
    <2>1. n - Len(sandboxes) \in 1..Len(added) /\ n \in Len(sandboxes) + 1..Len(sandboxes')
      BY <1>1, <1>3
    <2> QED BY <1>1, <2>1
  <1> QED BY <1>2, <1>3

\* The limits that the options put together for each program amount to.
LEMMA LayerCases ==
  ASSUME LimitsSound, NEW layer \in Layers
  PROVE  /\ request.layers[layer] \in {"absent", "null", "value"}
         /\ Entry(layer) \in {"absent", "null", layer}
         /\ Entry(layer) = "absent" <=> request.layers[layer] = "absent"
         /\ Entry(layer) = "null" <=> request.layers[layer] = "null"
  BY DEF LimitsSound, Entry, Layers

LEMMA CompileLimitSound ==
  ASSUME LimitsSound
  PROVE  /\ Sandbox("compiler", CompileLimit) \in SandboxType
         /\ RightlyLimited(Sandbox("compiler", CompileLimit), request.layers)
  <1>1. "compile" \in Layers
    BY DEF Layers
  <1>2. CompileLimit \in Layers \cup {"none"}
    BY <1>1, LayerCases DEF CompileLimit, Applied
  <1>3. ComesFrom(CompileLimit, <<"compile">>, request.layers)
    BY <1>1, LayerCases DEF CompileLimit, Applied, ComesFrom, Layers
  <1> QED BY <1>2, <1>3 DEF Sandbox, SandboxType, Programs, RightlyLimited, SectionsFor

\* Each of the three ways in which a program of the user's runs.
LEMMA UserLimitSound ==
  ASSUME LimitsSound,
         NEW limit \in {ExecuteLimit(TestOptions), ExecuteLimit(UserOptions), Applied(UserOptions)}
  PROVE  /\ Sandbox("user", limit) \in SandboxType
         /\ RightlyLimited(Sandbox("user", limit), request.layers)
  <1>1. "execute" \in Layers /\ "test" \in Layers /\ "user_execution" \in Layers
    BY DEF Layers
  <1>2. limit = Applied(UserOptions)
    BY DEF ExecuteLimit, TestOptions, UserOptions, Over
  <1>3. limit \in Layers \cup {"none"}
    BY <1>1, <1>2, LayerCases DEF UserOptions, Over, Applied
  <1>4. ComesFrom(limit, <<"execute", "test", "user_execution">>, request.layers)
    BY <1>1, <1>2, LayerCases DEF UserOptions, Over, Applied, ComesFrom, Layers
  <1> QED BY <1>3, <1>4 DEF Sandbox, SandboxType, Programs, RightlyLimited, SectionsFor

LEMMA JudgeLimitSound ==
  ASSUME LimitsSound
  PROVE  /\ Sandbox("judge", JudgeLimit) \in SandboxType
         /\ RightlyLimited(Sandbox("judge", JudgeLimit), request.layers)
  <1>1. "test" \in Layers /\ "judge_execution" \in Layers
    BY DEF Layers
  <1>2. JudgeLimit \in Layers \cup {"none"}
    BY <1>1, LayerCases DEF JudgeLimit, Over, Applied
  <1>3. ComesFrom(JudgeLimit, <<"test", "judge_execution">>, request.layers)
    BY <1>1, LayerCases DEF JudgeLimit, Over, Applied, ComesFrom, Layers
  <1> QED BY <1>2, <1>3 DEF Sandbox, SandboxType, Programs, RightlyLimited, SectionsFor

LEMMA CompilingKeepsLimits ==
  ASSUME LimitsSound, UNCHANGED request, NEW language, NEW program, NEW limit,
         Sandbox(program, limit) \in SandboxType,
         RightlyLimited(Sandbox(program, limit), request.layers),
         Compiling(language, program, limit)
  PROVE  LimitsSound'
  <1>1. PICK passes \in 1..2 :
          sandboxes' = sandboxes \o [n \in 1..passes |-> Sandbox(program, limit)]
    BY DEF Compiling
  <1> DEFINE added == [n \in 1..passes |-> Sandbox(program, limit)]
  <1>2. added \in Seq(SandboxType) /\ Len(added) = passes
    OBVIOUS
  <1>3. \A n \in 1..Len(added) : added[n] = Sandbox(program, limit)
    BY <1>2
  <1> QED BY <1>1, <1>2, <1>3, MoreSandboxes

LEMMA StepKeepsLimits == ASSUME LimitsSound, [Next]_vars PROVE LimitsSound'
  <1>1. UNCHANGED request
    BY DEF Next, vars, Validate, RunCompilation, RunStage, RunJudgeCompilation,
           JudgeLanguageUnknown, TestOptionsRaise, RunTest, RunJudgedTest
  <1>2. CASE UNCHANGED sandboxes
    BY <1>1, <1>2 DEF LimitsSound
  <1>3. CASE \E language : Compiling(language, "compiler", CompileLimit)
    BY <1>1, <1>3, CompileLimitSound, CompilingKeepsLimits
  <1>4. CASE RunCompilation
    BY <1>2, <1>3, <1>4 DEF RunCompilation, CompileUser
  <1>5. CASE RunStage
    BY <1>2, <1>3, <1>5 DEF RunStage, CompileUser
  <1>6. CASE RunJudgeCompilation
    <2>1. /\ Sandbox("judge_compiler", JudgeCompileLimit) \in SandboxType
          /\ RightlyLimited(Sandbox("judge_compiler", JudgeCompileLimit), request.layers)
      <3>1. JudgeCompileLimit = "none"
        BY DEF JudgeCompileLimit, Applied
      <3>2. ComesFrom("none", <<>>, request.layers)
        BY DEF ComesFrom
      <3>3. SectionsFor["judge_compiler"] = <<>>
        BY DEF SectionsFor
      <3> QED BY <3>1, <3>2, <3>3 DEF Sandbox, SandboxType, Programs, RightlyLimited
    <2>2. \/ UNCHANGED sandboxes
          \/ Compiling(judgeLanguage, "judge_compiler", JudgeCompileLimit)
      BY <1>6 DEF RunJudgeCompilation
    <2> QED BY <1>1, <1>2, <2>1, <2>2, CompilingKeepsLimits
  <1>7. CASE RunTest
    <2>1. PICK limit \in {ExecuteLimit(TestOptions), ExecuteLimit(UserOptions)} :
            sandboxes' = Append(sandboxes, Sandbox("user", limit))
      BY <1>7 DEF RunTest
    <2> DEFINE added == <<Sandbox("user", limit)>>
    <2>2. /\ added \in Seq(SandboxType) /\ Len(added) = 1
          /\ added[1] = Sandbox("user", limit)
      BY UserLimitSound
    <2>3. sandboxes' = sandboxes \o added
      BY <2>1, UserLimitSound DEF LimitsSound
    <2>4. \A n \in 1..Len(added) : RightlyLimited(added[n], request.layers)
      BY <2>2, UserLimitSound
    <2> QED BY <1>1, <2>2, <2>3, <2>4, MoreSandboxes
  <1>8. CASE RunJudgedTest
    <2>1. PICK limit : limit = Applied(UserOptions)
      OBVIOUS
    <2> DEFINE added == <<Sandbox("user", limit), Sandbox("judge", JudgeLimit)>>
    <2>2. /\ added \in Seq(SandboxType) /\ Len(added) = 2
          /\ added[1] = Sandbox("user", limit) /\ added[2] = Sandbox("judge", JudgeLimit)
      BY <2>1, UserLimitSound, JudgeLimitSound
    <2>3. sandboxes' = sandboxes \o added
      BY <1>8, <2>1 DEF RunJudgedTest
    <2>4. \A n \in 1..Len(added) : RightlyLimited(added[n], request.layers)
      BY <2>1, <2>2, UserLimitSound, JudgeLimitSound
    <2> QED BY <1>1, <2>2, <2>3, <2>4, MoreSandboxes
  <1> QED BY <1>2, <1>4, <1>5, <1>6, <1>7, <1>8
          DEF Next, vars, Validate, JudgeLanguageUnknown, TestOptionsRaise

LEMMA LimitsInductive == Spec => []LimitsSound
  <1>1. Init => LimitsSound
    <2> SUFFICES ASSUME Init PROVE LimitsSound
      OBVIOUS
    <2>1. PICK most \in {MaxTests, MaxOddTests}, layers \in {{NoLimit}, Sections},
               odds \in {{Regular}, Odd} :
            request \in Payloads(BoundedSeq(Test, most), layers, odds)
      BY DEF Init, Request
    <2>2. request.layers = NoLimit \/ request.layers \in Sections
      BY <2>1 DEF Payloads
    <2>3. NoLimit \in [Layers -> {"absent", "null", "value"}]
      BY DEF NoLimit
    <2>4. request.layers \in [Layers -> {"absent", "null", "value"}]
      BY <2>2, <2>3 DEF Sections
    <2> QED BY <2>4 DEF Init, LimitsSound
  <1> QED BY <1>1, StepKeepsLimits, PTL DEF Spec

(* models.py:260-262, 290-301, 645-652: whatever the sections of the payload
   say, in every mode and however often it compiles, each program runs under
   the limit of the closest section meant for it. *)
THEOREM LimitsAsMeant == Spec => []ClosestSectionLimits
  <1>1. LimitsSound => ClosestSectionLimits
    BY DEF LimitsSound, ClosestSectionLimits
  <1> QED BY <1>1, LimitsInductive, PTL

-----------------------------------------------------------------------------
\* What is past the schema was accepted by it.
NullInv ==
  /\ request.odd \in Odd \cup {Regular}
  /\ phase \notin {"validate", "refused"} => Accepts(request.odd)
  /\ OnlyNullSlipsThrough

\* A field that the schema lets through breaks its reader only when it is null.
LEMMA BrokenIsNull ==
  ASSUME request.odd \in Odd \cup {Regular}, Accepts(request.odd), NEW field \in Field,
         Broken(field)
  PROVE  request.odd.shape = "null"
  <1>1. request.odd.field = field /\ request.odd.shape \notin Reader[field]
    BY DEF Broken, Breaks
  <1>2. request.odd # Regular
    BY <1>1 DEF Regular, Field, Schema
  <1>3. request.odd.shape \in Shape /\ request.odd.shape \in Schema[field] \cup {"null"}
    BY <1>1, <1>2 DEF Accepts, Odd
  <1> QED BY <1>1, <1>3 DEF Field, Schema, Reader, Shape, HasGet, Unpacks, Iterates

\* An exception of these two kinds comes from such a field, or in a pipeline.
LEMMA RaisesOnlyByField ==
  ASSUME Next, phase' = "error", raised' \in {"TypeError", "AttributeError"}
  PROVE  userLanguage = "pipeline" \/ \E field \in Field : Broken(field)
  <1>1. /\ "compile" \in Field /\ "execute" \in Field /\ "judge_compile" \in Field
        /\ "tests" \in Field /\ "user_execution" \in Field /\ "judge_execution" \in Field
    BY DEF Field, Schema
  <1>2. CASE Validate
    BY <1>1, <1>2 DEF Validate, InitRaises, Raise
  <1>3. CASE RunCompilation
    BY <1>1, <1>3 DEF RunCompilation, CompileUser, Compile, RunJudgeOrTests, ReturnEarly, Raise,
                      BeginTests
  <1>4. CASE RunStage
    BY <1>4 DEF RunStage
  <1>5. CASE RunJudgeCompilation
    BY <1>1, <1>5 DEF RunJudgeCompilation, Compile, ReturnEarly, Raise, BeginTests
  <1>6. CASE JudgeLanguageUnknown
    BY <1>6 DEF JudgeLanguageUnknown, ReturnEarly, Raise
  <1>7. CASE TestOptionsRaise
    BY <1>1, <1>7 DEF TestOptionsRaise, OptionsBroken
  <1>8. CASE RunTest
    BY <1>8 DEF RunTest, Execute, Advance, Raise, WriteError
  <1>9. CASE RunJudgedTest
    BY <1>9 DEF RunJudgedTest, Advance
  <1> QED BY <1>2, <1>3, <1>4, <1>5, <1>6, <1>7, <1>8, <1>9 DEF Next

LEMMA StepKeepsNull == ASSUME NullInv, [Next]_vars PROVE NullInv'
  <1>1. UNCHANGED request
    BY DEF Next, vars, Validate, RunCompilation, RunStage, RunJudgeCompilation,
           JudgeLanguageUnknown, TestOptionsRaise, RunTest, RunJudgedTest
  <1>2. userLanguage' = userLanguage
    BY <1>1 DEF userLanguage
  <1>3. CASE UNCHANGED vars
    BY <1>3, <1>2 DEF vars, NullInv, OnlyNullSlipsThrough
  <1>4. CASE Next
    <2>1. phase' \notin {"validate", "refused"} => Accepts(request.odd)
      <3>1. CASE Validate
        BY <3>1 DEF Validate, Raise
      <3>2. CASE ~ Validate
        <4>1. phase \in {"compile", "judge_compile", "test"}
          BY <1>4, <3>2 DEF Next, RunCompilation, RunStage, RunJudgeCompilation,
                            JudgeLanguageUnknown, TestOptionsRaise, RunTest, RunJudgedTest
        <4> QED BY <4>1 DEF NullInv
      <3> QED BY <3>1, <3>2
    <2>2. OnlyNullSlipsThrough'
      <3> SUFFICES ASSUME phase' = "error", raised' \in {"TypeError", "AttributeError"},
                          userLanguage # "pipeline"
                   PROVE  request.odd.shape = "null"
        BY <1>1, <1>2 DEF OnlyNullSlipsThrough
      <3>1. PICK field \in Field : Broken(field)
        BY <1>4, RaisesOnlyByField
      <3>2. Accepts(request.odd)
        BY <2>1
      <3> QED BY <3>1, <3>2, BrokenIsNull DEF NullInv
    <2> QED BY <1>1, <2>1, <2>2 DEF NullInv
  <1> QED BY <1>3, <1>4

(* schema.py:54-57: whatever the container and the mode, a payload that gets
   past the schema and breaks the code behind it has a null there. *)
THEOREM OnlyNullEverSlipsThrough == Spec => []OnlyNullSlipsThrough
  <1>1. Init => NullInv
    <2>1. Init => request.odd \in Odd \cup {Regular}
      BY DEF Init, Request, Payloads
    <2> QED BY <2>1 DEF Init, NullInv, OnlyNullSlipsThrough
  <1>2. NullInv => OnlyNullSlipsThrough
    BY DEF NullInv
  <1> QED BY <1>1, <1>2, StepKeepsNull, PTL DEF Spec

-----------------------------------------------------------------------------
Phases == {"validate", "refused", "compile", "judge_compile", "test", "answered", "error"}

Raisable == {"Isolator", "IndexError", "RuntimeError", "ValueError", "TypeError",
             "AttributeError", "NotImplementedError"}

\* The types of what the other invariants do not speak of.
PlaceInv ==
  /\ phase \in Phases
  /\ stages \in Seq(Stage) /\ binary \in {"none", "bytes", "pair"}
  /\ raised \in Raisable \cup {"nothing"}
  /\ next \in 1..MaxTests + 1

LEMMA TestsAreFew ==
  ASSUME request \in Request
  PROVE  Len(request.tests) \in 0..MaxTests
  <1>1. MaxTests \in Nat /\ MaxOddTests \in Nat /\ MaxOddTests <= MaxTests
    BY SubmissionAssumption
  <1>2. PICK most \in {MaxTests, MaxOddTests}, layers \in {{NoLimit}, Sections},
                odds \in {{Regular}, Odd} :
          request \in Payloads(BoundedSeq(Test, most), layers, odds)
    BY DEF Request
  <1>3. PICK m \in 0..most : request.tests \in [1..m -> Test]
    BY <1>2 DEF Payloads, BoundedSeq, SeqOf
  <1>4. m \in Nat /\ Len(request.tests) = m
    BY <1>1, <1>2, <1>3
  <1> QED BY <1>1, <1>2, <1>3, <1>4

LEMMA StepKeepsPlace == ASSUME SubmissionInv, PlaceInv, [Next]_vars PROVE PlaceInv'
  <1>1. /\ phase \in Phases /\ stages \in Seq(Stage) /\ binary \in {"none", "bytes", "pair"}
        /\ raised \in Raisable \cup {"nothing"}
        /\ next \in 1..MaxTests + 1
    BY DEF PlaceInv
  <1> DEFINE Moves == phase' \in Phases /\ raised' \in Raisable \cup {"nothing"}
  <1>2. BeginTests => Moves
    BY <1>1 DEF BeginTests, Raise, Phases, Raisable
  <1>3. ReturnEarly => Moves
    BY <1>1 DEF ReturnEarly, Phases
  <1>4. ASSUME NEW what \in Raisable, Raise(what) PROVE Moves
    BY <1>4 DEF Raise, Phases
  <1>5. CASE UNCHANGED vars
    BY <1>1, <1>5 DEF vars, PlaceInv
  <1>6. CASE Validate
    <2>1. Moves
      BY <1>1, <1>6 DEF Validate, Raise, Phases, Raisable
    <2> QED BY <1>1, <1>6, <2>1 DEF Validate, PlaceInv
  <1>7. CASE RunCompilation
    <2>1. RunJudgeOrTests => Moves
      BY <1>1, <1>2 DEF RunJudgeOrTests, Phases
    <2>2. ASSUME CompileUser(userLanguage, RunJudgeOrTests) PROVE Moves
      BY <1>3, <2>1, <2>2 DEF CompileUser, Compile, Raise, Phases, Raisable
    <2>3. Moves
      BY <1>3, <1>7, <2>1, <2>2 DEF RunCompilation
    <2>4. stages' = stages /\ next' = next /\ binary' \in {"bytes", "pair"}
      BY <1>7 DEF RunCompilation, CompileUser
    <2> QED BY <1>1, <2>3, <2>4 DEF PlaceInv
  <1>8. CASE RunStage
    <2>1. NextStage => Moves
      BY <1>1, <1>2 DEF NextStage
    <2>2. ASSUME NEW stage, CompileUser(stage, NextStage) PROVE Moves
      BY <1>3, <2>1, <2>2 DEF CompileUser, Compile, Raise, Phases, Raisable
    <2>3. \A stage : StageError(stage) \in Raisable
      BY DEF StageError, Raisable
    <2>4. Moves
      BY <1>3, <1>4, <1>8, <2>2, <2>3 DEF RunStage
    <2>5. stages' = stages \/ (stages # <<>> /\ stages' = Tail(stages))
      BY <1>8 DEF RunStage
    <2>6. stages' \in Seq(Stage)
      BY <1>1, <2>5
    <2>7. next' = next /\ binary' \in {"pair", binary}
      BY <1>8 DEF RunStage, CompileUser
    <2> QED BY <1>1, <2>4, <2>6, <2>7 DEF PlaceInv
  <1>9. CASE RunJudgeCompilation
    <2>1. Compile(judgeLanguage, BeginTests) => Moves
      BY <1>2, <1>3 DEF Compile, Raise, Phases, Raisable
    <2>2. Moves
      BY <1>2, <1>9, <2>1 DEF RunJudgeCompilation, Raise, Phases, Raisable
    <2> QED BY <1>1, <1>9, <2>2 DEF RunJudgeCompilation, PlaceInv
  <1>10. CASE JudgeLanguageUnknown
    <2>1. Moves
      BY <1>3, <1>4, <1>10 DEF JudgeLanguageUnknown, Raisable
    <2> QED BY <1>1, <1>10, <2>1 DEF JudgeLanguageUnknown, PlaceInv
  <1>11. CASE TestOptionsRaise
    <2>1. Moves
      BY <1>4, <1>11 DEF TestOptionsRaise, Raisable
    <2> QED BY <1>1, <1>11, <2>1 DEF TestOptionsRaise, PlaceInv
  <1>12. ASSUME NEW failed, Advance(failed), phase = "test"
         PROVE  phase' \in Phases /\ next' \in 1..MaxTests + 1
    <2>1. Len(request.tests) \in 0..MaxTests /\ next \in 1..Len(request.tests) /\ MaxTests \in Nat
      BY <1>12, TestsAreFew, SubmissionAssumption DEF SubmissionInv, LoopState
    <2> QED BY <1>1, <1>12, <2>1 DEF Advance, Phases
  <1>13. CASE RunTest
    <2>1. CASE \E ended \in RunEnding, match \in BOOLEAN : Execute(ended, match)
      BY <1>1, <1>12, <1>13, <2>1 DEF RunTest, Execute, PlaceInv
    <2>2. CASE \E what \in Raisable : Raise(what) /\ UNCHANGED next
      BY <1>1, <1>4, <1>13, <2>2 DEF RunTest, PlaceInv
    <2>3. WriteError \in Raisable /\ "Isolator" \in Raisable
      BY DEF WriteError, Raisable
    <2> QED BY <1>13, <2>1, <2>2, <2>3 DEF RunTest
  <1>14. CASE RunJudgedTest
    BY <1>1, <1>12, <1>14 DEF RunJudgedTest, PlaceInv
  <1> QED BY <1>5, <1>6, <1>7, <1>8, <1>9, <1>10, <1>11, <1>13, <1>14 DEF Next

(* The types of a submission. *)
THEOREM SubmissionTypes == Spec => []TypeOK
  <1>1. Init => PlaceInv
    <2>1. <<>> \in Seq(Stage) /\ StagesOf(request) \subseteq Seq(Stage)
      BY DEF StagesOf, BoundedSeq, SeqOf
    <2>2. 1 \in 1..MaxTests + 1
      BY SubmissionAssumption
    <2> QED BY <2>1, <2>2 DEF Init, PlaceInv, Phases
  <1>2. Spec => []PlaceInv
    BY <1>1, StepKeepsPlace, SubmissionInductive, PTL DEF Spec
  <1>3. SubmissionInv /\ LimitsSound /\ PlaceInv => TypeOK
    BY DEF SubmissionInv, LimitsSound, PlaceInv, TypeOK, ReportType, SandboxType, Phases,
           Raisable, LoopState
  <1> QED BY <1>2, <1>3, SubmissionInductive, LimitsInductive, PTL
=============================================================================
