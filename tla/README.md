# Verification of camisole

camisole is an HTTP service that compiles and runs untrusted programs inside
[isolate](https://github.com/ioi/isolate) sandboxes. It is one asyncio process:
nothing runs in parallel inside it, but every `await` lets other requests run,
and the sandboxed programs, isolate's commands and the clock run beside it.
This directory models its core in TLA+, checks the models with TLC on small
instances and proves the most important facts with TLAPS for all instances.

Paths below are relative to `src/camisole/`.

## Inventory

| Component | State | Operations | Hard behaviours |
|---|---|---|---|
| Box pool (`isolate.py` 130-231) | the box directories on disk; per coroutine `box_id`, `avail` | `__aenter__` (list, probe, init), `__aexit__` (parse meta, cleanup) | concurrent probes of one id, stale listing, failing commands, crash with commands still running, leaks |
| Interactive test boxes (`models.py` 757-843) | two Isolators per test | enter both, leave both | a second box asked for while one is held, one of the two refused |
| Isolate run (`isolate.py` 161-302) | meta file, `isolate_retcode` | `run`, meta parsing | isolate's own exit codes 1 and 2, missing keys and their defaults, the override for memory |
| Interactive proxy (`proxy.py` 273-604) | two processes, readers, waiters, timers, violation | `run`, `_forward_io`, `_read_process_stream`, `_cleanup`, callbacks | every order of data, end of file, exits, poll timer, overall timeout and signals |
| Firewall (`proxy.py` 65-161) | line counter | `validate_data` | input cut at arbitrary bytes, WARN after a violation |
| Transcript (`proxy.py` 164-205) | rounds, pending rounds | `add_*` | pairing of chunks, what is shown of a violation |
| Interactive verdict (`models.py` 745-992) | `ProxyResult`, two meta dicts | normalisation cascades | contradicting sources of one verdict |
| Submission (`models.py` 251-391, 527-743, `languages/java.py`) | result dict, loop index | compile, judge compile, test loops | stopping at fatal tests, option precedence, partial failure, what becomes of the compiled files |
| Pipeline (`models.py` 460-514) | shared `sub_langs` | multi-stage compile | class state shared by all pipelines |
| Registry (`models.py` 89-214, `languages/__init__.py`) | two dictionaries, `df` of executers | registration, replacement, lookup | inherited and shared executers, names in two cases |
| HTTP (`httpserver.py`, `AcceptHeader` in `utils.py`, `ref.py`) | none | decode, dispatch, negotiate, encode | `error` and `response` call each other, payloads that an encoding refuses |
| Schema (`schema.py`) | none | `validate_schema` | null fields, nested alternatives |
| Conf, utils, system, ref, progs | process-wide configuration | load, merge, print | mostly I/O |

How they interact: a request enters `run_handler`, which validates the payload
and creates an execution object; that compiles in one box, then runs every test
in a fresh box, or an interactive test in two boxes whose programs the proxy
connects through the firewall. The requests share nothing but the box
directories, the registry and the configuration. When an Isolator is left, its
meta file decides, together with the proxy's result, what the verdict is.

What makes each component correct:

* *Pool*: a box has one owner; a box exists while it is used; boxes are lost
  only through failures; entering terminates; nobody is refused without need.
* *Interactive boxes*: tests that need two boxes each do not starve each other
  entirely, keep nothing when one of the boxes is refused, and end.
* *Proxy*: each program reads a prefix of what the other wrote, and an end of
  file only when there will be no more; nothing passes a violation; signals have a cause; no
  process survives `run()`, which always returns; the transcript shows what
  happened.
* *Isolate run*: exit code and meta file together hide no failure.
* *Firewall*: the way the input is cut does not matter; an alarm has a cause.
* *Verdict*: PASS and FAULT are the judge's word, not an accident of wrappers.
* *Submission*: the loop stops exactly at a fatal failure; a test with an
  expected output passes only with it; each program runs under the limit of the closest section
  that gets to it; only the sandbox can make a submission fail without an answer.
* *Schema*: what it lets through, the code behind it can read.
* *Registry*: a name leads to its newest definition and that definition's
  executer; languages share one only by inheritance or declaration.
* *HTTP*: the answer is in the best type the client accepts.

## Modules

| Module | Models | Checked by | Proved in |
|---|---|---|---|
| `BoxLease` | what the pool promises, abstractly | as a property of `BoxPool` | `BoxPoolProofs` |
| `BoxPool` | `Isolator.__aenter__`/`__aexit__`, isolate's init and cleanup, crashes | `MCBoxPool*` | `BoxPoolProofs` |
| `InteractiveBoxes` | concurrent interactive tests with two boxes each; extends `BoxPool` | `MCInteractiveBoxes` | `InteractiveBoxesProofs` |
| `IsolateRun` | how a run may end, and its exit code and meta object | `MCSubmission*`, `MCProxy*`, `MCTest*` | `SubmissionProofs` |
| `Transcript` | `IOTranscript` | `MCProxySafe` | `InteractiveProxyProofs` |
| `InteractiveProxy` | `InteractiveProxy` and the two programs; extends `Transcript`, `IsolateRun` | `MCProxy*`, `MCTest*` | `InteractiveProxyProofs` |
| `InteractiveTest` | the verdict of one interactive test; extends `InteractiveProxy` | `MCTest*` | `InteractiveTestProofs` |
| `Firewall` | `FirewallRules.validate_data` over a chunked stream | `MCFirewall` | `FirewallProofs` |
| `Payload` | `validate_schema` on the containers of a payload, and their readers | `MCSubmission*` | `SubmissionProofs` |
| `Submission` | `run` of `LangExecution`, `PipelineLang`, `InteractiveLang`; extends `Payload`, `IsolateRun` | `MCSubmission*` | `SubmissionProofs` |
| `Registry` | the definitions of languages and their executers | `MCServer` | `ServerProofs` |
| `Negotiation` | the Accept header and the encoding of an answer | `MCServer` | `ServerProofs` |
| `Server` | the endpoints; extends `Registry` and `Negotiation` | `MCServer` | `ServerProofs` |
| `NumberLemmas` | nothing of camisole: least members, recursion on numbers | - | itself |

A module `MCX` instantiates `X` for TLC. Operators such as
`InitDoneIgnoresExists` or `ReadUnfiltered` stand right before the definition
they are a faulty variant of. Nothing uses them; `PROJECT.json` pairs each with
the property that must fail when the variant replaces the definition.

### BoxPool

State: `dirs` are the directories below `box_root`, `cmds` the isolate
subprocesses that have not acted yet, and per coroutine `pc`, `avail`, `box`
and the `reply` of the awaited subprocess. `Enter` is the code from the listing
to the first `await`, `InitDone` from the `await` to the next one, `Exit` and
`CleanupDone` likewise; `set.pop()` is any element. `RunInit` and `RunCleanup`
are isolate: init on an existing directory answers "already exists", any
command may fail once `MaxFaults` allows it, with or without its effect.
`Crash` forgets all coroutines but neither the directories nor the running
commands, whose `epoch` tells that their answer is no longer awaited.

`LeaseOf` maps a state to `BoxLease`: a directory belongs to the coroutine that
made it, or to nobody (`Lost`). Handing a box over without removing it would
break `LeaseSpec`.

Left out: the cancellation of a coroutine inside `__aenter__` (aiohttp does not
cancel handlers when a client leaves), the content of a box, and an isolate
that answers after the server restarted the machine.

### InteractiveBoxes

A test `t` owns two coroutines of the pool, `user(t)` and `judge(t)`, as
`async with user_isolator, judge_isolator` is two nested blocks: `EnterJudge`
waits for the first box, `ExitJudge` is the end of the body (the proxy's run, or
an exception in it), and `ExitUser` runs once the judge's coroutine has ended
in any way, with a refusal, an error or after its cleanup. `NextTest` gives the
next test of the request fresh Isolators. The next-state relation restricts
that of `BoxPool`, which `TestsUseThePool` proves.

### IsolateRun

`Ending` lists the ways a run may end; `Retcode` and `Written` are isolate's exit
code and the keys it writes, `Meta` what `__aexit__` makes of them. A child that
exceeds the memory of the control group while the program itself exits with 0
("child_memory") has exit code 0 and the status `OUT_OF_MEMORY`: such a test
passes when its output is the expected one, although `doc/usage.rst` 120-124
says that the exit code of isolate reports an error then. `ReportsTellFailure`
shows that exit code and status together hide nothing. An isolate that was
killed leaves an empty meta file, hence status `OK`, but a negative exit code;
if the output file cannot be read then, `run` raises, in its own error path, as
an `OSError` has no `message`: one of the exceptions of the sandbox in
`Submission`.

Left out: the command line of isolate, and the numbers of the meta file.

### Transcript and InteractiveProxy

`Transcript` has the two operations that the proxy calls, over chunks instead
of text; `add_round` has no caller.

A chunk is the data of one read. `Write`, `CloseStdout`, `End` and `Obey` are
the programs, which owe nothing; `Notice` and `StdinBroken` are asyncio's
transports. The other actions are the proxy's code between two awaits:
`Spawn*`, `SendUserStdin`, `StartForwarding`, `Finish`, `FireTimeout` and
`HandleTimeout` are `run` and `_forward_io`, `WaitForData`, `Read`, `ReadEOF`,
`PollExpires` and `PollTimeout` are `_read_process_stream`, `OnReaderDone` and `OnJudgeExit`
the done-callbacks, and `Cleanup*` is `_cleanup`.

Details that matter:

* `reader = "reading"` is a reader that runs or is about to; data that is
  there is returned without waiting, so only a `"waiting"` reader can time out.
* The poll timer is two steps: `PollExpires` is the timer's callback, which
  cancels the read, also when data came in the same turn of the loop;
  `PollTimeout` is the coroutine, resumed in a later turn. Data and the notice of
  the exit may come before, between or after.
* Cancelled tasks still run their done-callbacks; `FireTimeout` only ends them.
* `Stopping` has the alternative in which `terminate()` raises for a user that
  is gone, which skips the judge's `terminate()`.
* `Wrapped` chooses between bare programs (as the proxy's tests run them) and
  programs under `isolate --run` (as `models.py` does), which answers 1 for
  whatever befell the program and turns SIGTERM into an exit.
* The last `wait_for` of `run` finds both exits seen and returns at once.
* asyncio's `wait()` is taken to return when the exit is noticed. Some CPython
  versions also wait for the pipes to close; a grandchild that keeps a pipe
  open then adds delay, not new orders of the events.

* `violation_action` is "STOP" or "WARN" for an execution. Under WARN a bad
  chunk is forwarded and the verdict is still `FIREWALL_VIOLATION`.
* A chunk is recorded before it is forwarded; under STOP the offending one is
  recorded after both `terminate()`, one of which may raise: then it is missing
  (`ViolationShown`).

Left out: byte counts, stderr (nobody reads it: a program that
fills it stops making progress, which programs may do in the model anyway).

### InteractiveTest

Extends the proxy with what both `Isolator.__aexit__` leave in `meta` and with
the two cascades of `_run_interactive_test_via_proxy`, as operators over the
final state: `HardVerdict` and `FinalVerdict`; the meta objects are those of
`IsolateRun`. The fourth branch of the second cascade (lines 964-972) can never be
reached, as the second branch has weaker conditions; the model omits it.

### Firewall

`stream` is a text of whole characters over five kinds of bytes; every read
takes an arbitrary non-empty part of the rest. `Validate` follows
`validate_data`: a character violation returns before the count, a long line in
its middle. A two-byte character that a read cuts is a violation in the code and
in the model. `found` is what was found so far, `last` the read just done: where
it began, its alarm, and where the latest earlier read with an alarm ended. So
the properties can speak of each read, also of those after an alarm under WARN:
`AlarmHasCause` and `LongLineNoticed` make an exception of a character that a
read cuts, and of the line that an earlier alarm left unfinished (`Disturbed`).
Custom validators are left out: `models.py` never passes any.

### Payload

Which optional containers of a payload (`compile`, `execute`, `tests`, ...) get
through `explore()` in which `Shape`, and with which their readers can work.
`O()` lets null through before it looks at the wrapped type, and the code
behind it reads with `.get(key, default)`, which answers the null:

* `compile`, `execute`, `tests`, `user_execution`, `judge_execution`,
  `judge_compile`: an exception, so 500 without any report; `execute` already in
  the executer of Java, which takes `virt-mem` out of it;
* a test's `judge`: the judge runs, as without the key; its `judge.judge`: the
  judge is disabled; `firewall_rules`: none.

An empty mapping or text in the place of `tests` passes as an empty list.
`OnlyNullSlipsThrough` is that these are all. Left out: fields that are
scalars, and null in the fields of `firewall_rules` (a null
`violation_action` is the WARN of the proxy).

### Submission

One submission with arbitrary answers from the sandboxes. `request` is the
payload, reduced to the mode, the kinds of the two languages, the
flags of each test, what each section of the payload says of one and the same
isolate option (`layers`: absent, null or a value) and the field that is `odd`,
if any; `sandboxes` records which section a program's limit came from. `Validate` is the part of `run_handler`
before `run()`.
`RunTest` is the plain test of both modes (the code has it twice) with any ending
of `IsolateRun`, `RunJudgedTest` the one through the proxy, which never raises; an exception
elsewhere is `Raise` and answers 500 without any report. A sandbox is recorded
when it is asked for, so also when no box is available.

`Compile` follows `compile()` closely, as it decides whether anything runs at
all: `read_compiled` answers a list of files and `compile` takes its second
element, which only Java ever has. Compiled submissions therefore end in an
`IndexError`, and Java's in the `ValueError` of its `write_binary`; an
interactive run uses the base class's methods even for Java. The tests of this
model, and the interactive ones of the proxy, are those of interpreted languages.
A pipeline takes one `RunStage` per element of `sub_langs`. That list is shared
by all pipelines, and `register_language` appends every definition that names
its own stages, so it may hold anything in any order, the pipeline itself
included, whose stage ends in the `NotImplementedError` of `compile`. What a
stage yields is the next stage's source; a compiler that is given the pair of
a name and bytes, which is what element 1 of the files is, fails. So no
pipeline of two stages ever gets to its tests.
An option is followed through every merge: `Over` is `{**far, **near}`, of which
plain tests do two (`TestOptions`, then `ExecuteLimit`), interactive ones as
many in another place (`UserOptions`), a judge one without `execute`
(`JudgeLimit`). A null wins over a farther section like any value, and
`Isolator.run` leaves it out (`Applied`), so it lifts the limit.
`ClosestSectionLimits` states the outcome apart from the merges: which sections
get to a program, and that the closest that speaks of the option
counts. `JudgeCompileLimit` is that of an absent section, and `SectionsFor`
has none for the judge's compiler: the options of `judge_compile` do not get to
`compile` (see below, beside the runs).

### Registry, Negotiation and Server

`Registry` numbers the classes in the order of their statements. `Define` is
`__init_subclass__` of any class under any parent, which declares no executer, one
of its own, or one that any earlier class has (`Declarable`); one that does not
register stands for `register=False` and for a missing binary. A name is a key
and whether it is written in lower case. `Descends` says that a class inherits
from another one: no family, a set closed under parents, holds the first without
the second. `Has` says that a class has an executer by right: it inherits from
the class that the executer was made for, or from one that declares it.

`Negotiation` reduces a media range to the set of types it matches, its weight,
and whether parsing it fails; a payload is the set of types that can encode it
(JSON cannot encode arbitrary bytes, MessagePack no lone surrogates).
`Sorted` is the stable sort of `parse_header`: a range comes after as many as are
`Heavier`. `Taken` is the generator `get_best_accepted_types`, one number per
range: what it has yielded when that range is done.

`Server` composes both: modules are imported (`Load`), then one request passes
the wrapper, an action per stretch of code between two awaits. A request keeps nothing for the next one, so one
is enough. Left out: the `Content-Type` chooses a decoder, which may fail
whatever it is; warnings; versions of programs.

## Runs

| Run | Instance | Shows |
|---|---|---|
| `MCBoxPool` | 2 coroutines, 2 boxes, 2 re-entries, 1 crash, 1 fault | `TypeOK`, `BoxExclusive`, `BoxPresent`, `LeakBounded`, `JustEnoughBoxes`, `EnterTerminates`, `LeaseSpec` |
| `MCInteractiveBoxes` | 2 tests (4 coroutines), 3 boxes, 2 re-entries, 1 fault | `EnoughServed`, `NothingKept`, `TestsEnd` |
| `MCBoxPoolExhaustion` | 2 coroutines, 2 boxes, 1 re-entry | violates `ExhaustionMeansFull` |
| `MCProxySafe` | bare, STOP or WARN, 2 chunks each, the first is bad, large stdin for the user, a transcript | `TypeOK`, `PrefixFed`, `SignalsHaveCause`, `StoppedAtViolation`, `EOFAfterEnd`, `NoOrphans`, `TranscriptFaithful`, `ViolationShown` |
| `MCProxyEnd` | bare, 1 chunk | violates `EOFAfterData` |
| `MCProxyHang` | wrapped, large stdin | violates `Terminates` |
| `MCTestVerdict` | wrapped, STOP, 1 bad chunk, fault code 2 | `PassNeedsExit0`, `FaultNotFromCrash`, `Terminates` |
| `MCTestPass` | wrapped, fault code 3 | violates `PassIsJudgesWord` |
| `MCFirewall` | texts of 6 bytes of 5 kinds, line limit 0 or 2, total limit 0 or 4 | `TypeOK`, `JudgeGetsCleanPrefix`, `Detected`, `AlarmHasCause`, `LongLineNoticed` |
| `MCSubmission` | up to 2 tests; up to 1 test with every odd field, or with each of 6 sections absent, null or with a value; pipelines of up to 2 stages, with sections of 1 | `TypeOK`, `FatalStopsRun`, `SkippedOnlyByFatal`, `PassNeedsExpected`, `ReportsTellFailure`, `OnlyNullSlipsThrough`, `ClosestSectionLimits` |
| `MCSubmissionCompiled` | 1 test | violates `LostOnlyToSandbox` |
| `MCServer` | 2 names, 2 classes, headers of 3 ranges, 2 weights | `TypeOK`, `RegistriesAgree`, `LookupIsNewest`, `SharedByRight`, `BestAcceptable`, `AnswersInAcceptedType` |

Why the bounds are enough: the pool's hazards need two coroutines on one box,
one of which frees or takes a box while the other still probes, one command left
over from a crash and one failure; more of each repeats the same steps, and the
proofs cover every number of them. Two tests that want two boxes each conflict
over three, one box short, in every order; with a fault any command of
either may fail, and re-entries are the next tests. For the proxy two chunks of each program make an order, and as the
user's first is the violation there is one to come after it; one chunk suffices for questions about ends and
timers. For the firewall six bytes hold two lines over the limit of two, or an alarm
and a line after it, cut in up to six reads. Two tests hold a fatal failure and a test after it; the proof
covers more. Limits and odd fields concern one program at a time, so one test
(`MaxOddTests`) and, for limits, one stage (`MaxOddStages`) show them. Two classes of files tell one from several, and
two stages a last stage from one that feeds another. Two classes are a
language and one that inherits, shares, replaces or ignores it; the proofs cover chains
of them. Three ranges hold a tie and a winner for two types. The violations come from states of the smallest instance that shows
them. Deadlock is not checked: coroutines, the proxy and a submission end.

### What the violations say

Each is a disagreement of the code with one of its own comments, docs or tests;
`PROJECT.json` quotes the line under `findings`.

* `ExhaustionMeansFull`: the listing of the boxes is never refreshed, so a
  caller is refused although a box is free and there are as many boxes as
  callers. `JustEnoughBoxes` shows that this needs a caller that re-enters.
* `Terminates`: a large initial stdin that is never read escapes the timeout.
  Without one, `run()` always returns.
* `EOFAfterData`: the poll timer expires, data comes and the exit is noticed before
  the reader resumes; it sees the exit only, gives up and drops the data. The
  other program is then told the end of an input that it never had.
  `EOFAfterEnd` shows that this, a noticed exit, is the only way to lose data.
* `PassIsJudgesWord`: a judge that never started accepts, as its empty meta file
  reads as exit code 0. `PassNeedsExit0` shows that this and a judge whose
  isolate was killed are the only such cases.
* `LostOnlyToSandbox`: no compiled program is ever run, see `Compile` above. The
  property is about payloads of regular shape and languages that are no pipeline.

### What the models show beside the runs

The models follow the code here against a line of its docs or comments, or to an
end that no line speaks of; no run is about it, and a property that the
case touches names it as an exception.

* A client that accepts neither type, so also one that sends the
  `application/messagepack` of `doc/usage.rst` 209, gets aiohttp's 500, because
  `error` and `response` call each other until Python gives up (`Respond`).
  `doc/api.md` 43: "it returns a `406 Not Acceptable` response".
* The options of `judge_compile` limit nothing (`JudgeCompileLimit`,
  `SectionsFor`). `doc/api.md` 68: "isolate options applied during judge
  compilation".
* With fault code 1 a judge that crashed or was stopped gets the `FAULT` of that
  code, as isolate's own 1 stands where the meta file has no exit code
  (`FinalVerdict`; `FaultNotFromCrash` exempts such codes only). `models.py` 939: "Honor custom judge
  fault code using real program exit code." An internal error of isolate under a
  judge is a `FAULT` of fault code 2 likewise.
* A character that a read cuts is taken for an invalid one (`CharsValid`,
  `CutCharacter`). `proxy.py` 101-102 wants a multi-byte character "validated
  as a single codepoint rather than as two Latin-1 bytes".
* Under WARN an alarm leaves the line counter where it stood, so the rest of
  that line may be taken for too long, or not be noticed if it is (`Validate`,
  `Disturbed`). `proxy.py` 74: the counter "tracks how many bytes have been
  received in the current" line. It is right again after the next newline,
  which is what `AlarmHasCause` and `LongLineNoticed` show.
* `run_handler` finds `Python`, and the executer refuses it because `__init__`
  does not lower the name (`Instantiates`). `doc/api.md` 57: "language name,
  case-insensitive". `ref.test` passes no name, the definition's own stands in,
  `Python` again: `/test` answers 500 unless every language is excluded.
* A language that inherits or declares the executer of another one takes its
  plain submissions over (`Enter` in `Registry`). `SharedByRight` shows that other languages
  are safe.
* `/languages` answers 500 as soon as a language is loaded, as a definition has
  no `df` (`LanguagesHandler`).
* An exception of the sandbox in a plain test loses the reports of all tests
  (`Raise`), in an interactive one it is a verdict.

## Fairness

`BoxPool`: the event loop runs ready coroutines (`Enter`, `InitDone`,
`CleanupDone`) and isolate's init and cleanup end; both are short system tools.
Programs in a box may run forever: `Exit` has no fairness.

`InteractiveBoxes`: the same, per test, and leaving a box is fair too: the body of
the two blocks is the proxy's run, which ends by its own timeout at the latest
(`Terminates`; a large initial stdin is the exception that `MCProxyHang` shows).
`NextTest` has no fairness: a client may have no more tests.

`InteractiveProxy`: weak fairness on what the event loop, its timers and the
kernel do: `Run` (which contains the overall timeout), the readers, the
callbacks, the cleanup, the notice of an exit and the delivery of SIGKILL. The
programs have none: they may never write, read, close, end or obey SIGTERM.

## Proofs

`BoxPoolProofs` proves for every set of coroutines and boxes and every bound:

* `PoolInvariant`: `PoolInv` is inductive. `BoxExclusive` alone is not: a
  cleanup left from before a crash could remove a box under a new owner. Such a
  command concerns a directory that exists (so that isolate refuses it to
  others), that no other command removes, and whose only possible holder is the
  coroutine that awaits it: `CleanupsSafe`. `Awaited` ties the commands of the
  present server to their coroutines and `HoldersPresent` says that an owned
  directory exists, so a successful init cannot hit it.
* `PoolTypes`, `PoolExclusive`, `PoolPresent` follow.
* `PoolEnough`: `JustEnoughBoxes`. Each coroutine that has entered once claims
  at most one box beyond those it may still try, so a coroutine that was refused
  everywhere would have lost every box to a different coroutine: one coroutine
  more than boxes.
* `PoolImplementsLease`: every step maps to a lease, a removal, a loss or a
  stutter.

They assume `PoolAssumption`: finite sets and distinct names for "no box",
"free" and "lost".

* `PoolLeaks`: `LeakBounded`. An initialisation that a crash left behind may
  still make a directory for nobody, so `LeakInv` bounds the leaked directories
  together with these orphans: a crash adds at most one per coroutine, and a
  directory is lost later only to a failing command or to an orphan, which is
  then gone (`LossIsPaid`).

`InteractiveBoxesProofs` proves `TestsUseThePool`: every behaviour of the
interactive tests is one of the pool, so its theorems hold for them, and
`TestsExclusive` draws the one that matters most. `TestAssumption` says which
coroutines the pool has. What the tests owe to their nesting follows from
`TestsNested`: the judge's coroutine is at work only inside the user's block.

* `TestsKeepNothing`: with `PoolLeaks`, every directory is held when nothing
  failed, and its holder's test is still running by `Nested`.
* `TestsServed`: `EnoughServed`. Behind a refusal every box is claimed, and each
  claim has an owner: the user of some test or the judge of a test that is
  served (`Owners`). So there are no more boxes than tests and tests served.

`InteractiveProxyProofs` proves every safety property of the proxy, for any number
of chunks, any bad ones, both actions, wrapped or bare programs. `ProxyInv` is one
invariant, as its parts need each other:

* `FedInOrder` gives `FedAPrefix`: what a program was fed are the first chunks, and
  all that were taken while its stdin is open and the other reader is active;
  without the latter the next chunk might leave a gap.
* `BadAhead` gives `NothingBadFed`: under STOP the reader that is still active has
  not reached a bad chunk; a reader that has is never active again.
* `CleanedUp` (`NobodyLeftBehind`) says how far the loop of `_cleanup` came, and
  `Caused` (`SignalledWithCause`) that the proxy stops to wait for the judge
  only after its exit.
* `Ends` gives `EndAfterTheEnd`: a reader ends when the output has ended, or when
  its timer has expired and the exit is noticed, and only then closes the other
  one's stdin.
* `RoundsInOrder` and `UserShown` give `TranscriptIsFaithful`. The rounds that wait
  are the last ones, without a gap; so an answer, which goes to the oldest of
  them or else to a new round, keeps the judge's chunks in order. `Excused` gives
  `ViolationIsShown`.
* `NothingYet` and `Lives` tie the phase to the readers and the programs.

`InteractiveTestProofs` adds to it `Judged`: a code that was taken for the judge's
is that of a judge that has ended. Then `PassIsEarned` and `FaultIsJudges` follow by
cases over the endings, their codes and their meta objects. `FaultIsJudges`
assumes nothing of the fault code: where it coincides with a code of isolate's,
the property says so.

`FirewallProofs` proves the firewall for any text, any cut and any limits, from
`FirewallInv`. `Quiet` is the heart: while nothing was found, the counter is the
length of the line that the text read so far ends with (`IsLine`), which is what a
long line over several reads is noticed by. After an alarm `Counted` stands in for
it: the counter is right, or the line is still the one that the alarm left
unfinished. `FirstIsLast` concerns STOP, `AllForwarded`
ties the total to the bytes read, and `AlarmHasCause` and `LongLineNoticed` are parts
of the invariant, as they concern the bytes just read. `LineCounted` says that the counter is right
after any part of a chunk, `LineAlarm` and `LineNoticed` what a read makes of a line. Then
`JudgeIsProtected`, `NothingUnnoticed`, `AlarmsHaveCause` and `LongLinesNoticed`.

`SubmissionProofs` proves `FatalStopsRun` and `SkippedOnlyByFatal` for any
number of tests. The invariant adds where the loop is (`LoopState`): all tests
before the current one ran without a fatal failure, none from it on has run.
`SubmissionAssumption` is used for the names of the proxy's verdicts. For the
same instances:

* `ReportsAlwaysTell` and `PassesOnlyAsExpected`, from `ReportsSound`, which speaks
  of one report at a time and is inductive beside `SubmissionInv`, which says
  where the next report goes. `MetaTellsFailure` is the fact about isolate.
* `LimitsAsMeant`, from `LimitsSound`, which adds the types of `sandboxes` and of the
  sections. `CompileLimitSound`, `UserLimitSound` and `JudgeLimitSound` are the
  merges, each for all sections, absent, null or not.
* `OnlyNullEverSlipsThrough`, from `NullInv`: past `Validate` the odd field is one
  that the schema accepts; then it breaks its reader only when it is null
  (`BrokenIsNull`), and only pipelines raise these errors otherwise
  (`RaisesOnlyByField`).
* `SubmissionTypes`, from these and `PlaceInv`.

`ServerProofs` proves the registries for any names, any number of classes and any
inheritance and declarations between them, and the negotiation for any header:

* `RegistriesAlwaysAgree` and `NewestDefinitionWins`, from `RegistryInv`. It adds
  that an executer is bound to a definition that has it: registering a class
  rebinds an executer that other names lead to, and their part of
  `RegistriesAgree` survives only because the class has that executer too.
* `SharedOnlyByRight`, from `FamilyInv`: each class has its executer by right. A new
  class is in no older family and keeps what the older ones descend from
  (`LineageGrows`).
* `AcceptsTheBest`: `BestAcceptable`. `SortedSorts` shows that the ranks are those of
  a sort: the counts of heavier ranges are an injection into as many numbers as
  there are ranges. `TakenFollows` shows that the recursion has a solution.
  `TakenOffered` is an induction over the ranges (`Offered`: which types were taken,
  and that a type taken before another has the earlier first range, or the same
  and is JSON), `BestIsFirst` says that a type's first range is its best.
* `AnswersAsAccepted`, `ServerTypes`, from `RequestInv`.

`RegistryAssumption` and `NegotiationAssumption` give the ranges of the numbers.

`NumberLemmas` stands for the induction theorems, which take an operator that the
provers cannot instantiate: `Least` follows from the well-foundedness of `<`, so
an induction is a proof that the least counterexample is none, and `Recursion` says
that a function defined by recursion on an interval exists.

Only model-checked: the liveness properties (`EnterTerminates`, `TestsEnd`,
`Terminates`), which are out of the prover's reach, and the properties that the
code violates. The inductive invariants are proved and not run.

## Not modelled

System information, the configuration (defaults, a file and the command line,
merged once before the server starts), the command line programs with the
embedded web page, the language definitions and the construction of command
lines are I/O, declarations or string work. Of the schema, scalar fields and the
wording of errors are left out; of Java, the search for the class with `main()`;
of the utilities, all but the Accept header; of the reference tests, the
comparison of the output.

## Plan

1. Done: the pool with its abstract leases, interactive tests over the pool, the
   proxy with its transcript, the firewall, isolate's reports, the interactive
   verdict, the schema's containers, the submission with pipelines, the registry
   with the server and the negotiation; the proofs of every invariant that the
   runs check.
2. Proofs next: what a safety argument can say towards the liveness properties
   (a measure that each turn of `__aenter__` decreases); `ReportsTellFailure` and
   the verdicts as one theorem about a whole interactive submission.
3. The configuration.
