----------------------------- MODULE Submission -----------------------------
(***************************************************************************)
(* One submission to /run: LangExecution.run, PipelineLang.run and         *)
(* InteractiveLang.run (camisole.models).  The payload is validated, the   *)
(* user's source compiled, in interactive mode the judge's too, then the   *)
(* tests run one after the other until a fatal one fails.  A program may   *)
(* end in every way of IsolateRun; what an interactive run answers is the  *)
(* matter of InteractiveTest.                                              *)
(***************************************************************************)
EXTENDS Integers, Sequences, SequencesExt, IsolateRun, Payload

CONSTANTS
  MaxTests,      \* bounds the number of tests
  MaxOddTests,   \* the same, of a payload with a limit or an odd field
  MaxStages,     \* bounds the stages of a pipeline
  MaxOddStages,  \* the same, of a payload with a limit
  MaxFiles,      \* bounds the number of classes a Java compilation leaves
  Layer,         \* the places of the payload that may set a limit, among Layers
  ProxyVerdict   \* the verdicts of the proxy, "PASS" among them

\* Where the payload may set one and the same isolate option, say `time`.
Layers == {"compile", "execute", "judge_compile", "test", "user_execution", "judge_execution"}

ASSUME SubmissionAssumption ==
  /\ MaxTests \in Nat /\ MaxOddTests \in 0..MaxTests /\ MaxStages \in Nat
  /\ MaxOddStages \in 0..MaxStages /\ MaxFiles \in Nat
  /\ Layer \subseteq Layers
  /\ {"PASS", "PROXY_COMMUNICATION_ERROR"} \subseteq ProxyVerdict
  /\ ProxyVerdict \cap {"OK", "none", "empty"} = {}

Test == [fatal : BOOLEAN, expected : BOOLEAN, judge : BOOLEAN]

\* How a language becomes a program: "classes" is Java's way, by its own
\* read_compiled() and write_binary(), "compiled" that of the other compilers.
\* A pipeline compiles in stages.
Languages == {"interpreted", "compiled", "classes", "pipeline"}

\* What a pipeline may have in sub_langs: also a language that was never
\* registered, or the pipeline itself, which register_language() appends.
Stage == {"interpreted", "compiled", "classes", "unregistered", "itself"}

\* What a section says of the option: nothing, null, or a value of its own.
Sections == {s \in [Layers -> {"absent", "null", "value"}] :
               \A layer \in Layers \ Layer : s[layer] = "absent"}

NoLimit == [layer \in Layers |-> "absent"]

\* layers: what the sections say; odd: the field given in an unusual shape.
Payloads(tests, layers, odds) ==
  [interactive : BOOLEAN, tests : tests, allFatal : BOOLEAN, language : Languages,
   judgeLanguage : Languages, layers : layers, odd : odds]

\* A field that stands for the tests, or for what a test says of its judge, is
\* odd where the payload has nothing else to say of them.
Consistent(r) ==
  /\ r.odd.field = "tests" => r.tests = <<>>
  /\ r.odd.field \in {"judge", "use_judge"} => \A n \in DOMAIN r.tests : r.tests[n].judge

Request == {r \in UNION {Payloads(BoundedSeq(Test, MaxTests), {NoLimit}, {Regular}),
                         Payloads(BoundedSeq(Test, MaxOddTests), Sections, {Regular}),
                         Payloads(BoundedSeq(Test, MaxOddTests), {NoLimit}, Odd)} : Consistent(r)}

StagesOf(r) == BoundedSeq(Stage, IF r.layers = NoLimit THEN MaxStages ELSE MaxOddStages)

VARIABLES
  request,       \* the validated payload
  phase,         \* "answered" when run() has returned, "error" when it raised
  stages,        \* the stages a pipeline has left
  binary,        \* what was compiled: "pair" is a file's name with its bytes
  raised,        \* what run() raised
  next,          \* the test whose turn it is
  results,       \* result['tests']
  sandboxes      \* the Isolators asked for: their program and who set its limit

vars == <<request, phase, stages, binary, raised, next, results, sandboxes>>

\* A test's report: is the exitcode 0, the status of the meta object, is the
\* output the expected one, the verdict ("none" when the report has no such
\* key); and how the program really ended.
NotRun == [ok |-> FALSE, status |-> "none", match |-> FALSE, verdict |-> "empty", ended |-> "none"]

Init ==
  /\ request \in Request
  /\ stages \in IF request.language = "pipeline" THEN StagesOf(request) ELSE {<<>>}
  /\ phase = "validate" /\ binary = "none" /\ raised = "nothing" /\ next = 1 /\ results = <<>> /\ sandboxes = <<>>

-----------------------------------------------------------------------------
(* Options: dictionaries with one entry, "absent", "null" or the section that
   the value comes from. *)

Entry(layer) == IF request.layers[layer] = "value" THEN layer ELSE request.layers[layer]

\* {**far, **near}
Over(near, far) == IF near = "absent" THEN far ELSE near

\* Isolator.run() leaves an option out that is null, like one that is absent.
Applied(entry) == IF entry \in {"absent", "null"} THEN "none" ELSE entry

CompileLimit == Applied(Entry("compile"))

\* judge_compile is merged into the options themselves, in which the judge
\* language's compile() looks for a section 'compile'.
JudgeCompileLimit == Applied("absent")

\* What a plain test passes to execute(), and what an interactive one puts
\* together for the user's program, with or without a judge.
TestOptions == Over(Entry("user_execution"), Entry("test"))

UserOptions == Over(Entry("user_execution"), Over(Entry("test"), Entry("execute")))

\* execute() puts the options it is given over those of 'execute'.
ExecuteLimit(options) == Applied(Over(options, Entry("execute")))

JudgeLimitSharesUser == Applied(Over(Entry("judge_execution"), UserOptions))

JudgeLimit == Applied(Over(Entry("judge_execution"), Entry("test")))

Sandbox(program, limit) == [program |-> program, limit |-> limit]

-----------------------------------------------------------------------------
(* Compilation. *)

Broken(field) == Breaks(request.odd, field)

BeginTestsOneShort ==
  /\ results' = [i \in 1..Len(request.tests) - 1 |-> NotRun]
  /\ phase' = IF request.tests = <<>> THEN "answered" ELSE "test"
  /\ UNCHANGED raised

\* run() returns early: no binary, or an empty one.
ReturnEarly == phase' = "answered" /\ UNCHANGED <<raised, results>>

\* An exception loses the reports.  "Isolator" stands for those of the
\* sandbox, such as "No isolate box ID available.".
Raise(what) == phase' = "error" /\ raised' = what /\ UNCHANGED results

BeginTests ==
  IF Broken("tests") THEN Raise("TypeError")
  ELSE /\ results' = [i \in 1..Len(request.tests) |-> NotRun]
       /\ phase' = IF request.tests = <<>> THEN "answered" ELSE "test"
       /\ UNCHANGED raised

\* Java's __init__ takes virt-mem out of the limits of 'execute'; an
\* interactive run has an executer of its own.
InitRaises == request.language = "classes" /\ ~ request.interactive /\ Broken("execute")

\* run_handler: what the schema refuses is answered as malformed; then the
\* executer is made.
Validate ==
  /\ phase = "validate"
  /\ IF ~ Accepts(request.odd) THEN phase' = "refused" /\ UNCHANGED <<raised, results>>
     ELSE IF InitRaises THEN Raise("AttributeError")
     ELSE phase' = "compile" /\ UNCHANGED <<raised, results>>
  /\ UNCHANGED <<request, stages, binary, next, sandboxes>>

\* Java reads every class below the box, of which javac leaves any number.
ClassesLeft == 0..MaxFiles

\* How many files read_compiled() finds.
FilesLeft(language) == IF language = "compiled" THEN 0..1 ELSE ClassesLeft

\* compile(): it takes the second element of the list of files read; the one
\* file of a plain compiler is the first.  Without a file such a compiler has
\* no list at all.
Compile(language, Continue) ==
  \/ Raise("Isolator")
  \/ \E files \in FilesLeft(language), exit0 \in BOOLEAN :
       IF language = "compiled" /\ files = 0 THEN ReturnEarly
       ELSE IF files < 2 THEN Raise("IndexError")
       ELSE IF exit0 THEN Continue
       ELSE ReturnEarly \/ (language = "classes" /\ Raise("RuntimeError"))

\* The sandboxes of a compilation: Java tries again under the name it learns.
Compiling(language, program, limit) ==
  \E passes \in 1..IF language = "classes" THEN 2 ELSE 1 :
    sandboxes' = sandboxes \o [n \in 1..passes |-> Sandbox(program, limit)]

\* The user's own compiler, with the options under 'compile'.
CompileUser(language, Continue) ==
  /\ IF Broken("compile") THEN Raise("AttributeError") \/ Raise("Isolator")
                          ELSE Compile(language, Continue)
  /\ Compiling(language, "compiler", CompileLimit)
  /\ binary' = "pair"

\* An interactive run compiles and executes with the methods of
\* InteractiveLang, whatever the language; a pipeline has no compiler.
userLanguage ==
  IF ~ request.interactive THEN request.language
  ELSE IF request.language = "classes" THEN "compiled"
  ELSE IF request.language = "pipeline" THEN "interpreted"
  ELSE request.language

RunJudgeOrTests ==
  IF request.interactive THEN phase' = "judge_compile" /\ UNCHANGED <<raised, results>>
                         ELSE BeginTests

RunCompilation ==
  /\ phase = "compile" /\ userLanguage # "pipeline"
  /\ IF userLanguage = "interpreted"
       THEN (ReturnEarly \/ RunJudgeOrTests) /\ binary' = "bytes" /\ UNCHANGED sandboxes
       ELSE CompileUser(userLanguage, RunJudgeOrTests)
  /\ UNCHANGED <<request, stages, next>>

\* A compiler that is given a pair finds no text to encode.
StageError(stage) == CASE stage = "itself" -> "NotImplementedError"
                       [] stage = "interpreted" -> "RuntimeError"
                       [] OTHER -> "AttributeError"

\* One turn of the loop of PipelineLang.run_compilation; a pipeline without
\* stages has no binary.  What a stage compiled is the source of the next.
NextStage == IF Len(stages) = 1 THEN BeginTests ELSE UNCHANGED <<phase, raised, results>>

RunStage ==
  /\ phase = "compile" /\ userLanguage = "pipeline"
  /\ IF stages = <<>> THEN ReturnEarly /\ UNCHANGED <<stages, binary, sandboxes>>
     ELSE LET stage == Head(stages)
          IN  /\ stages' = Tail(stages)
              /\ IF stage \in {"compiled", "classes"} /\ binary # "pair"
                   THEN CompileUser(stage, NextStage)
                   ELSE Raise(StageError(stage)) /\ UNCHANGED <<binary, sandboxes>>
  /\ UNCHANGED <<request, next>>

\* The language of the judge; a pipeline is taken for an interpreted one here.
judgeLanguage == IF request.judgeLanguage = "pipeline" THEN "interpreted" ELSE request.judgeLanguage

RunJudgeCompilation ==
  /\ phase = "judge_compile"
  /\ IF Broken("judge_compile") THEN Raise("TypeError") /\ UNCHANGED sandboxes
     ELSE IF judgeLanguage = "interpreted" THEN BeginTests /\ UNCHANGED sandboxes
     ELSE /\ Compile(judgeLanguage, BeginTests)
          /\ Compiling(judgeLanguage, "judge_compiler", JudgeCompileLimit)
  /\ UNCHANGED <<request, stages, binary, next>>

\* The judge's language is not registered, or not in the case it is asked in.
JudgeLanguageUnknown ==
  /\ phase = "judge_compile"
  /\ ReturnEarly \/ Raise("ValueError")
  /\ UNCHANGED <<request, stages, binary, next, sandboxes>>

-----------------------------------------------------------------------------
(* Tests. *)

current == request.tests[next]

PlainVerdict(ok, match) ==
  IF ~ current.expected THEN "none"
  ELSE IF ~ ok THEN "FAILED"
  ELSE IF match THEN "PASS"
  ELSE "INVALID_OUTPUT"

JudgedVerdictTrustsProxy(verdict, match) ==
  IF verdict = "PASS" /\ ~ current.expected THEN "OK" ELSE verdict

\* A PASS of the proxy needs the expected output too, if there is one.
JudgedVerdict(verdict, match) ==
  IF verdict # "PASS" THEN verdict
  ELSE IF ~ current.expected THEN "OK"
  ELSE IF match THEN "PASS"
  ELSE "FAULT"

AdvanceIgnoresAllFatal(failed) ==
  IF next = Len(request.tests) \/ (failed /\ current.fatal)
    THEN phase' = "answered" /\ UNCHANGED next
    ELSE next' = next + 1 /\ UNCHANGED phase

AdvanceStopsAtFailure(failed) ==
  IF next = Len(request.tests) \/ failed
    THEN phase' = "answered" /\ UNCHANGED next
    ELSE next' = next + 1 /\ UNCHANGED phase

\* The loop goes on unless a fatal test failed.
Advance(failed) ==
  IF next = Len(request.tests) \/ (failed /\ (current.fatal \/ request.allFatal))
    THEN phase' = "answered" /\ UNCHANGED next
    ELSE next' = next + 1 /\ UNCHANGED phase

Report(ok, status, match, verdict, ended) ==
  results' = [results EXCEPT ![next] = [ok |-> ok, status |-> status, match |-> match,
                                        verdict |-> verdict, ended |-> ended]]

\* execute() the user's program alone, which ended in a way that run() reports.
Execute(ended, match) ==
  LET ok == Retcode(ended) = 0
      verdict == PlainVerdict(ok, match)
  IN  /\ Report(ok, Meta(ended).status, match, verdict, ended)
      /\ Advance(verdict \in {"FAILED", "INVALID_OUTPUT"} \/ ~ ok)
      /\ UNCHANGED raised

RunEnding == {"exit0", "exit1", "crash", "time", "memory", "child_memory", "internal", "kill"}

\* A null where the test says whether it wants the judge disables it.
UsesJudge == request.interactive /\ current.judge
             /\ request.odd.field = "use_judge" => request.odd.shape = "number"

\* The options of a test are put together before anything runs.
OptionsBroken == \/ Broken("execute") \/ Broken("user_execution")
                 \/ request.interactive /\ Broken("judge_execution")

TestOptionsRaise ==
  /\ phase = "test" /\ OptionsBroken
  /\ Raise("TypeError")
  /\ UNCHANGED <<request, stages, binary, next, sandboxes>>

\* Java's write_binary() unpacks the files of a list, that of a pipeline writes
\* bytes: neither can do with a pair.
WriteError == IF userLanguage = "pipeline" THEN "TypeError" ELSE "ValueError"

\* A test of a plain submission, or one that disables the judge.
RunTest ==
  /\ phase = "test" /\ ~ OptionsBroken /\ ~ UsesJudge
  /\ \/ /\ binary = "bytes"
        /\ \E ended \in {e \in RunEnding : ~ RunRaises(e)}, match \in BOOLEAN : Execute(ended, match)
     \/ Raise("Isolator") /\ UNCHANGED next
     \/ binary = "pair" /\ Raise(WriteError) /\ UNCHANGED next
  /\ LET options == IF request.interactive THEN UserOptions ELSE TestOptions
     IN  sandboxes' = Append(sandboxes, Sandbox("user", ExecuteLimit(options)))
  /\ UNCHANGED <<request, stages, binary>>

\* The one of Java's classes is not bytes to write into the judge's box.
ProxyAnswers == IF judgeLanguage = "classes" THEN {"PROXY_COMMUNICATION_ERROR"}
                                             ELSE ProxyVerdict

\* _run_interactive_test_via_proxy turns every exception into a verdict.
RunJudgedTest ==
  /\ phase = "test" /\ ~ OptionsBroken /\ UsesJudge
  /\ \E verdict \in ProxyAnswers, match \in BOOLEAN :
       LET final == JudgedVerdict(verdict, match)
       IN  /\ Report(verdict = "PASS", "none", match, final, "judged")
           /\ Advance(final \notin {"PASS", "OK"})
           /\ UNCHANGED raised
  /\ sandboxes' = sandboxes \o <<Sandbox("user", Applied(UserOptions)), Sandbox("judge", JudgeLimit)>>
  /\ UNCHANGED <<request, stages, binary>>

Next == \/ Validate \/ RunCompilation \/ RunStage \/ RunJudgeCompilation \/ JudgeLanguageUnknown
        \/ TestOptionsRaise \/ RunTest \/ RunJudgedTest

Spec == Init /\ [][Next]_vars

-----------------------------------------------------------------------------
Programs == {"compiler", "judge_compiler", "user", "judge"}

Statuses == {"none"} \cup {Meta(e).status : e \in Ending}

VerdictKeys == ProxyVerdict \cup {"PASS", "FAULT", "OK", "none", "FAILED", "INVALID_OUTPUT", "empty"}

(* The type invariant of a submission. *)
TypeOK ==
  /\ request \in Request
  /\ phase \in {"validate", "refused", "compile", "judge_compile", "test", "answered", "error"}
  /\ stages \in Seq(Stage) /\ binary \in {"none", "bytes", "pair"}
  /\ raised \in {"nothing", "Isolator", "IndexError", "RuntimeError", "ValueError", "TypeError",
                 "AttributeError", "NotImplementedError"}
  /\ next \in 1..MaxTests + 1
  /\ results \in Seq([ok : BOOLEAN, status : Statuses, match : BOOLEAN, verdict : VerdictKeys,
                      ended : Ending \cup {"judged"}])
  /\ phase = "test" => Len(results) = Len(request.tests) /\ next \in 1..Len(results)
  /\ sandboxes \in Seq([program : Programs, limit : Layers \cup {"none"}])

Ran(i) == results[i] # NotRun

Failed(i) == IF results[i].verdict = "none" THEN ~ results[i].ok
                                            ELSE results[i].verdict \notin {"PASS", "OK"}

FatalFailure(i) == /\ Ran(i) /\ Failed(i)
                   /\ request.tests[i].fatal \/ request.allFatal

(* models.py:346-379, 621-743, doc/usage.rst:88-92: once a fatal test has
   failed, in whichever of the three ways a test may run, no other test runs. *)
FatalStopsRun == \A i, j \in DOMAIN results : i < j /\ FatalFailure(i) => ~ Ran(j)

(* The answer has an empty report only for a test that follows a fatal
   failure (models.py:343-344, 618-619 fill the list before the tests run):
   nothing else skips a test without an error. *)
SkippedOnlyByFatal ==
  phase = "answered" =>
    \A j \in DOMAIN results : Ran(j) \/ \E i \in 1..j - 1 : FatalFailure(i)

(* models.py:358-373, 680-697, 722-737: a test with an expected output passes
   only with that output, whether the judge, the proxy or the exit code of
   the program has the other say. *)
PassNeedsExpected ==
  \A i \in DOMAIN results :
    (results[i].verdict \in {"PASS", "OK"} /\ request.tests[i].expected)
      => /\ results[i].match /\ results[i].ok
         /\ results[i].ended \in {"judged", "exit0", "child_memory"}

(* usage.rst:120-161: a report whose exitcode is 0 and whose status is OK is
   that of a program that ended well, and whose sandbox saw no limit hit:
   isolate's exit code, its meta file and the defaults for the keys that are
   missing there (isolate.py:161-209, 274-287) do not hide a failure together,
   although each alone does. *)
ReportsTellFailure ==
  \A i \in DOMAIN results :
    (results[i].ok /\ results[i].status = "OK") => results[i].ended = "exit0"

(* schema.py:54-57: what the schema lets through can be used by whoever reads
   it later, for every container of the payload and in every mode, except that
   null passes everywhere. *)
OnlyNullSlipsThrough ==
  (phase = "error" /\ raised \in {"TypeError", "AttributeError"} /\ userLanguage # "pipeline")
    => request.odd.shape = "null"

\* The sections that get to a program, the closest last (models.py:641-644,
\* doc/api.md:63-64, 93, 101).  None gets to the judge's compiler, for which
\* doc/api.md:68 has a section (models.py:577-581).
SectionsFor == [compiler       |-> <<"compile">>,
                judge_compiler |-> <<>>,
                user           |-> <<"execute", "test", "user_execution">>,
                judge          |-> <<"test", "judge_execution">>]

\* A limit comes from the closest section that speaks of the option at all; a
\* null there lifts what the farther ones say.
ComesFrom(limit, sections, layers) ==
  \/ /\ \A i \in DOMAIN sections : layers[sections[i]] = "absent"
     /\ limit = "none"
  \/ \E i \in DOMAIN sections :
       /\ layers[sections[i]] # "absent"
       /\ \A j \in DOMAIN sections : j > i => layers[sections[j]] = "absent"
       /\ limit = IF layers[sections[i]] = "null" THEN "none" ELSE sections[i]

RightlyLimited(sandbox, layers) ==
  ComesFrom(sandbox.limit, SectionsFor[sandbox.program], layers)

(* models.py:260-262, 290-301, 347-349, 645-652, doc/usage.rst:86-87,
   doc/api.md:93, 101: in both modes, with a judge or without, in the retries
   of a compiler and the stages of a pipeline, each program runs under the
   limit of the closest section that is for it and under that of no other
   section; a null in it lifts the limit. *)
ClosestSectionLimits ==
  \A n \in DOMAIN sandboxes : RightlyLimited(sandboxes[n], request.layers)

(* tests/test_all_languages.py:13 "assert r['tests'][0]['exitcode'] == 0" for
   each language: with a working sandbox, a regular submission is answered, its
   compiler's success never ends in an error of camisole's own. *)
LostOnlyToSandbox ==
  (phase = "error" /\ request.odd = Regular /\ userLanguage # "pipeline") => raised = "Isolator"
=============================================================================
