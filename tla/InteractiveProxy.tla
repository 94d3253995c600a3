-------------------------- MODULE InteractiveProxy --------------------------
(***************************************************************************)
(* camisole.proxy.InteractiveProxy: one execution of a user program and a  *)
(* judge program whose outputs are forwarded to each other's input, the    *)
(* user's through a firewall.                                              *)
(*                                                                         *)
(* The programs write, close their output and end when they please.  The   *)
(* proxy's coroutines (run, _forward_io, two _read_process_stream, the     *)
(* wait for the judge) and their done-callbacks interleave with them and   *)
(* with the timers.  A chunk is the data of one read; chunk n of a program *)
(* is the n-th one it wrote.                                               *)
(***************************************************************************)
EXTENDS Integers, Sequences, SequencesExt, Transcript, IsolateRun

CONSTANTS
  MaxOut,        \* bounds the chunks each program writes
  Bad,           \* the chunks of the user that break a firewall rule
  Action,        \* the values violation_action may have
  Wrapped,       \* the programs run under `isolate --run` (models.py), not bare
  FaultCode,     \* judge_fault_exitcode
  LargeStdin,    \* the programs whose initial stdin exceeds the write buffer
  RecordTranscript  \* record_transcript

Process == {"user", "judge"}
Other(p) == IF p = "user" THEN "judge" ELSE "user"

\* How a program ended: an exit code, a crash, a signal of the proxy, or, under
\* isolate, a limit or an internal error of the sandbox.
SandboxCauses == {"time", "memory", "child_memory", "internal"}
Causes == {"exit0", "exit1", "exit2", "crash", "term", "kill"} \cup SandboxCauses

None == 99             \* a code no program has

ASSUME ProxyAssumption ==
  /\ MaxOut \in Nat /\ Bad \subseteq 1..MaxOut /\ FaultCode \in Nat \ {None}
  /\ Action \subseteq {"STOP", "WARN"} /\ Wrapped \in BOOLEAN
  /\ RecordTranscript \in BOOLEAN /\ LargeStdin \subseteq Process

VARIABLES
  violation_action,  \* of the firewall rules
  os,            \* each program: "none" before the spawn, "run", or how it ended
  sig,           \* the signal the proxy sent and the program has not died of yet
  absorbed,      \* the program read its initial stdin
  wrote,         \* chunks written to its stdout
  outOpen,       \* its end of the stdout pipe is open
  taken,         \* chunks the proxy has read
  inOpen,        \* the proxy's stdin writer is not closing
  fed,           \* the other program's chunks written to its stdin
  seen,          \* asyncio has set its returncode
  reader,        \* _read_process_stream; "ended" until its done-callback has run
  waiter,        \* the task judge_proc.proc.wait(), likewise
  violation,     \* self._firewall_violation is set
  transcript,    \* self.transcript, empty for good when none is recorded
  phase,         \* where run() is; "close", "grace" and "kill" in _cleanup
  target,        \* the program that _cleanup is at
  verdict,       \* "none" until a ProxyResult is built
  exitcode       \* user_exit_code and judge_exit_code of the ProxyResult

procVars == <<os, sig, absorbed, wrote, outOpen>>
noted == <<violation, transcript>>
ioVars == <<taken, inOpen, fed, reader, waiter, noted>>
result == <<verdict, exitcode>>
rest == <<result, violation_action>>
vars == <<procVars, seen, ioVars, phase, target, rest>>

Dead(p) == os[p] \in Causes

\* Popen's return code, that of isolate under which a program is wrapped; a
\* negative code is a signal.
Code(p) == IF Wrapped THEN Retcode(os[p])
           ELSE CASE os[p] = "exit0" -> 0
                  [] os[p] = "exit1" -> 1
                  [] os[p] = "exit2" -> 2
                  [] OTHER -> -9

All(x) == [p \in Process |-> x]

Stop == violation_action = "STOP"

Init ==
  /\ violation_action \in Action
  /\ os = All("none") /\ sig = All("none") /\ absorbed = All(FALSE)
  /\ wrote = All(0) /\ outOpen = All(FALSE) /\ taken = All(0)
  /\ inOpen = All(FALSE) /\ fed = All(<<>>) /\ seen = All(FALSE)
  /\ reader = All("off") /\ waiter = "off" /\ violation = FALSE /\ transcript = EmptyTranscript
  /\ phase = "spawn_user" /\ target = "user" /\ verdict = "none" /\ exitcode = All(None)

-----------------------------------------------------------------------------
(* The programs. *)

Write(p) ==
  /\ os[p] = "run" /\ outOpen[p] /\ wrote[p] < MaxOut
  /\ wrote' = [wrote EXCEPT ![p] = @ + 1]
  /\ UNCHANGED <<os, sig, absorbed, outOpen, seen, ioVars, phase, target, rest>>

Absorb(p) ==
  /\ os[p] = "run" /\ p \in LargeStdin /\ ~ absorbed[p]
  /\ absorbed' = [absorbed EXCEPT ![p] = TRUE]
  /\ UNCHANGED <<os, sig, wrote, outOpen, seen, ioVars, phase, target, rest>>

CloseStdout(p) ==
  /\ os[p] = "run" /\ outOpen[p]
  /\ outOpen' = [outOpen EXCEPT ![p] = FALSE]
  /\ UNCHANGED <<os, sig, absorbed, wrote, seen, ioVars, phase, target, rest>>

Die(p, how) ==
  /\ os[p] = "run"
  /\ os' = [os EXCEPT ![p] = how]
  /\ outOpen' = [outOpen EXCEPT ![p] = FALSE]
  /\ UNCHANGED <<sig, absorbed, wrote, seen, ioVars, phase, target, rest>>

End(p) == \E how \in {"exit0", "exit1", "exit2", "crash"}
                       \cup (IF Wrapped THEN SandboxCauses ELSE {}) : Die(p, how)

\* A bare program may ignore SIGTERM; nothing survives SIGKILL.
Obey(p) == sig[p] = "term" /\ Die(p, "term")
Killed(p) == sig[p] = "kill" /\ Die(p, "kill")

\* The child watcher reports the exit.
Notice(p) ==
  /\ Dead(p) /\ ~ seen[p]
  /\ seen' = [seen EXCEPT ![p] = TRUE]
  /\ UNCHANGED <<procVars, ioVars, phase, target, rest>>

\* The event loop finds the read end of a stdin pipe gone.
StdinBroken(p) ==
  /\ Dead(p) /\ inOpen[p]
  /\ inOpen' = [inOpen EXCEPT ![p] = FALSE]
  /\ UNCHANGED <<procVars, seen, taken, fed, reader, waiter, noted, phase, target, rest>>

-----------------------------------------------------------------------------
(* run(): spawn, initial stdin, forwarding, result. *)

Spawned(p, next) ==
  /\ os' = [os EXCEPT ![p] = "run"]
  /\ outOpen' = [outOpen EXCEPT ![p] = TRUE]
  /\ inOpen' = [inOpen EXCEPT ![p] = TRUE]
  /\ phase' = next
  /\ UNCHANGED result

Fail == /\ verdict' = "PROXY_COMMUNICATION_ERROR"
        /\ phase' = "close"
        /\ UNCHANGED exitcode

\* create_subprocess_exec may raise.
Spawn(p, here, next) ==
  /\ phase = here
  /\ \/ Spawned(p, next)
     \/ Fail /\ UNCHANGED <<os, outOpen, inOpen>>
  /\ UNCHANGED <<sig, absorbed, wrote, seen, taken, fed, reader, waiter, noted, target, violation_action>>

SpawnUser == Spawn("user", "spawn_user", "spawn_judge")
SpawnJudge == Spawn("judge", "spawn_judge", "stdin_user")

\* drain() returns once little is buffered, or raises when the reader is gone.
InitialStdinSent(p) == p \notin LargeStdin \/ absorbed[p] \/ Dead(p)

SendUserStdin ==
  /\ phase = "stdin_user" /\ InitialStdinSent("user")
  /\ phase' = "stdin_judge"
  /\ UNCHANGED <<procVars, seen, ioVars, target, rest>>

\* _forward_io starts its three tasks.
StartForwarding ==
  /\ phase = "stdin_judge" /\ InitialStdinSent("judge")
  /\ phase' = "forward"
  /\ reader' = All("reading") /\ waiter' = "waiting"
  /\ UNCHANGED <<procVars, seen, taken, inOpen, fed, noted, target, rest>>

-----------------------------------------------------------------------------
(* _read_process_stream *)

EndReader(p) == reader' = [reader EXCEPT ![p] = "ended"]

\* proc.terminate(): no effect on a program that is dead already.
Terminate(ps) ==
  sig' = [p \in Process |-> IF p \in ps /\ os[p] = "run" /\ sig[p] = "none"
                            THEN "term" ELSE sig[p]]

\* _write_to_process drops the data when the writer is closing.
Forward(p, n) ==
  fed' = IF inOpen[p] THEN [fed EXCEPT ![p] = Append(@, n)] ELSE fed

ForwardingBack(p) ==
  /\ Forward(p, taken[p] + 1)
  /\ reader' = [reader EXCEPT ![p] = "reading"]
  /\ UNCHANGED sig

Forwarding(p) ==
  /\ Forward(Other(p), taken[p] + 1)
  /\ reader' = [reader EXCEPT ![p] = "reading"]
  /\ UNCHANGED sig

Record(t) == transcript' = IF RecordTranscript THEN t ELSE transcript

StoppingShowsNothing ==
  /\ EndReader("user")
  /\ Terminate(Process)
  /\ UNCHANGED <<fed, transcript>>

\* STOP terminates both programs, records the offending chunk and returns.
\* terminate() raises ProcessLookupError for a program that is gone, and what
\* would come after it is left out.
Stopping ==
  /\ EndReader("user")
  /\ \/ /\ Terminate(Process)
        /\ Record(AddUserInput(transcript, taken["user"] + 1, TRUE))
     \/ seen["judge"] /\ Terminate({"user"}) /\ UNCHANGED transcript
     \/ seen["user"] /\ UNCHANGED <<sig, transcript>>
  /\ UNCHANGED fed

\* read(4096) waits only when there is nothing to read.
WaitForData(p) ==
  /\ reader[p] = "reading" /\ taken[p] = wrote[p] /\ outOpen[p]
  /\ reader' = [reader EXCEPT ![p] = "waiting"]
  /\ UNCHANGED <<procVars, seen, taken, inOpen, fed, waiter, noted, phase, target, rest>>

ReceiveNothing(p) ==
  /\ reader[p] \in {"reading", "waiting"} /\ taken[p] <= wrote[p]
  /\ taken' = [taken EXCEPT ![p] = @ + 1]
  /\ UNCHANGED <<os, absorbed, wrote, outOpen, seen, inOpen, waiter, phase, target, rest>>

Receive(p) ==
  /\ reader[p] \in {"reading", "waiting"} /\ taken[p] < wrote[p]
  /\ taken' = [taken EXCEPT ![p] = @ + 1]
  /\ UNCHANGED <<os, absorbed, wrote, outOpen, seen, inOpen, waiter, phase, target, rest>>

ReadUnfiltered(p) ==
  /\ Receive(p)
  /\ Forwarding(p)
  /\ violation' = (violation \/ (p = "user" /\ taken[p] + 1 \in Bad))
  /\ Record(IF p = "user" THEN AddUserInput(transcript, taken[p] + 1, FALSE)
                          ELSE AddJudgeOutput(transcript, taken[p] + 1))

\* Recorded, then forwarded; a violation is recorded with its chunk.
ReadUser(n) ==
  IF n \in Bad /\ Stop
    THEN violation' = TRUE /\ Stopping
    ELSE /\ violation' = (violation \/ n \in Bad)
         /\ Record(AddUserInput(transcript, n, n \in Bad))
         /\ Forwarding("user")

ReadJudge(n) ==
  /\ Record(AddJudgeOutput(transcript, n))
  /\ Forwarding("judge")
  /\ UNCHANGED violation

Read(p) ==
  /\ Receive(p)
  /\ IF p = "user" THEN ReadUser(taken[p] + 1) ELSE ReadJudge(taken[p] + 1)

ReadEOF(p) ==
  /\ reader[p] \in {"reading", "waiting"} /\ taken[p] = wrote[p] /\ ~ outOpen[p]
  /\ EndReader(p)
  /\ UNCHANGED <<procVars, seen, taken, inOpen, fed, waiter, noted, phase, target, rest>>

\* The second that wait_for grants is over: it cancels the read, also when data
\* came in the same turn of the loop, and the coroutine resumes in a later one.
PollExpires(p) ==
  /\ reader[p] = "waiting"
  /\ reader' = [reader EXCEPT ![p] = "expired"]
  /\ UNCHANGED <<procVars, seen, taken, inOpen, fed, waiter, noted, phase, target, rest>>

PollTimeoutGivesUp(p) ==
  /\ reader[p] = "expired"
  /\ EndReader(p)
  /\ UNCHANGED <<procVars, seen, taken, inOpen, fed, waiter, noted, phase, target, rest>>

\* The reader gives up if the exit was noticed by now, whatever data came since.
PollTimeout(p) ==
  /\ reader[p] = "expired"
  /\ IF seen[p] THEN EndReader(p) ELSE reader' = [reader EXCEPT ![p] = "reading"]
  /\ UNCHANGED <<procVars, seen, taken, inOpen, fed, waiter, noted, phase, target, rest>>

-----------------------------------------------------------------------------
(* Done-callbacks of the tasks of _forward_io. *)

CloseStdin(p) == inOpen' = [inOpen EXCEPT ![p] = FALSE]

\* _close_stdin: a program that has no more to say ends the other's input.
OnReaderDone(p) ==
  /\ reader[p] = "ended"
  /\ reader' = [reader EXCEPT ![p] = "done"]
  /\ CloseStdin(Other(p))
  /\ UNCHANGED <<procVars, seen, taken, fed, waiter, noted, phase, target, rest>>

JudgeSilent ==
  /\ waiter = "waiting" /\ reader["judge"] = "done"
  /\ waiter' = "ended"
  /\ UNCHANGED <<procVars, seen, taken, inOpen, fed, reader, noted, phase, target, rest>>

JudgeExited ==
  /\ waiter = "waiting" /\ seen["judge"]
  /\ waiter' = "ended"
  /\ UNCHANGED <<procVars, seen, taken, inOpen, fed, reader, noted, phase, target, rest>>

\* _terminate_user_if_running
OnJudgeExit ==
  /\ waiter = "ended"
  /\ waiter' = "done"
  /\ IF seen["user"] THEN UNCHANGED sig ELSE Terminate({"user"})
  /\ UNCHANGED <<os, absorbed, wrote, outOpen, seen, taken, inOpen, fed, reader,
                 noted, phase, target, rest>>

-----------------------------------------------------------------------------
(* The end of run(): _build_result, _handle_timeout, _cleanup. *)

BuildResult ==
  IF violation THEN "FIREWALL_VIOLATION"
  ELSE IF Code("judge") < 0 THEN "JUDGE_CRASHED"
  ELSE IF Code("user") < 0 THEN "USER_CRASHED"
  ELSE IF Code("judge") = FaultCode THEN "FAULT"
  ELSE IF Code("user") # 0 THEN "USER_RUNTIME_ERROR"
  ELSE IF Code("judge") # 0 THEN "JUDGE_RUNTIME_ERROR"
  ELSE "PASS"

\* _forward_io is over: both outputs read and both exits seen, so the last
\* wait_for of run() returns at once.
Finish ==
  /\ phase = "forward" /\ waiter = "done" /\ seen["user"]
  /\ \A p \in Process : reader[p] = "done"
  /\ verdict' = BuildResult
  /\ exitcode' = [p \in Process |-> Code(p)]
  /\ phase' = "close"
  /\ UNCHANGED <<procVars, seen, ioVars, target, violation_action>>

\* The timeout cancels the tasks; their done-callbacks run all the same.
FireTimeout ==
  /\ phase = "forward"
  /\ phase' = "timeout"
  /\ reader' = [p \in Process |-> IF reader[p] \in {"reading", "waiting", "expired"}
                              THEN "ended" ELSE reader[p]]
  /\ waiter' = IF waiter = "waiting" THEN "ended" ELSE waiter
  /\ UNCHANGED <<procVars, seen, taken, inOpen, fed, noted, target, rest>>

HandleTimeout ==
  /\ phase = "timeout"
  /\ \A p \in Process : reader[p] = "done"
  /\ verdict' = IF seen["user"] THEN "JUDGE_TIMEOUT" ELSE "USER_TIMEOUT"
  /\ exitcode' = [p \in Process |-> IF seen[p] THEN Code(p) ELSE None]
  /\ phase' = "close"
  /\ UNCHANGED <<procVars, seen, ioVars, target, violation_action>>

NextTarget(p) == /\ phase' = IF p = "user" THEN "close" ELSE "done"
                 /\ target' = "judge"

\* One turn of _cleanup's loop, up to the wait for the terminated program.
CleanupClose(p) ==
  /\ phase = "close" /\ target = p
  /\ CloseStdin(p)
  /\ IF os[p] = "none" \/ seen[p]
       THEN NextTarget(p) /\ UNCHANGED sig
       ELSE phase' = "grace" /\ Terminate({p}) /\ UNCHANGED target
  /\ UNCHANGED <<os, absorbed, wrote, outOpen, seen, taken, fed, reader, waiter,
                 noted, rest>>

CleanupExited(p) ==
  /\ phase \in {"grace", "kill"} /\ target = p /\ seen[p]
  /\ NextTarget(p)
  /\ UNCHANGED <<procVars, seen, ioVars, rest>>

CleanupNeverKills(p) ==
  /\ phase = "grace" /\ target = p
  /\ NextTarget(p)
  /\ UNCHANGED <<procVars, seen, ioVars, rest>>

CleanupTermsAgain(p) ==
  /\ phase = "grace" /\ target = p
  /\ phase' = "kill"
  /\ UNCHANGED <<procVars, seen, ioVars, target, rest>>

\* The program outlived the two seconds of grace.
CleanupKill(p) ==
  /\ phase = "grace" /\ target = p
  /\ phase' = "kill"
  /\ sig' = IF os[p] = "run" THEN [sig EXCEPT ![p] = "kill"] ELSE sig
  /\ UNCHANGED <<os, absorbed, wrote, outOpen, seen, ioVars, target, rest>>

-----------------------------------------------------------------------------
Programs == \E p \in Process : Write(p) \/ Absorb(p) \/ CloseStdout(p) \/ End(p) \/ Obey(p)

Reader(p) == WaitForData(p) \/ Read(p) \/ ReadEOF(p)
             \/ PollExpires(p) \/ PollTimeout(p)

Run == \/ SpawnUser \/ SpawnJudge \/ SendUserStdin \/ StartForwarding
       \/ Finish \/ FireTimeout \/ HandleTimeout

Cleanup(p) == CleanupClose(p) \/ CleanupExited(p) \/ CleanupKill(p)

Next == \/ Programs \/ Run \/ JudgeExited \/ OnJudgeExit
        \/ \E p \in Process : \/ Killed(p) \/ Notice(p) \/ StdinBroken(p)
                              \/ Reader(p) \/ OnReaderDone(p) \/ Cleanup(p)

\* The event loop runs what is ready, its timers expire, the kernel delivers
\* SIGKILL and reports exits.  The programs owe nothing.
Fairness ==
  /\ WF_vars(Run) /\ WF_vars(JudgeExited) /\ WF_vars(OnJudgeExit)
  /\ \A p \in Process :
       /\ WF_vars(Killed(p)) /\ WF_vars(Notice(p)) /\ WF_vars(StdinBroken(p))
       /\ WF_vars(Reader(p)) /\ WF_vars(OnReaderDone(p)) /\ WF_vars(Cleanup(p))

Spec == Init /\ [][Next]_vars
FairSpec == Spec /\ Fairness

-----------------------------------------------------------------------------
Verdicts == {"PASS", "FAULT", "JUDGE_RUNTIME_ERROR", "USER_RUNTIME_ERROR", "JUDGE_TIMEOUT",
             "USER_TIMEOUT", "FIREWALL_VIOLATION", "JUDGE_CRASHED", "USER_CRASHED",
             "PROXY_COMMUNICATION_ERROR"}

Phases == {"spawn_user", "spawn_judge", "stdin_user", "stdin_judge", "forward", "timeout",
           "close", "grace", "kill", "done"}

Rounds == [user : Seq(1..MaxOut), judge : Seq(1..MaxOut), violation : BOOLEAN]

(* The type invariant of the proxy. *)
TypeOK ==
  /\ violation_action \in Action
  /\ os \in [Process -> {"none", "run"} \cup Causes]
  /\ sig \in [Process -> {"none", "term", "kill"}]
  /\ absorbed \in [Process -> BOOLEAN] /\ outOpen \in [Process -> BOOLEAN]
  /\ inOpen \in [Process -> BOOLEAN] /\ seen \in [Process -> BOOLEAN]
  /\ wrote \in [Process -> 0..MaxOut] /\ taken \in [Process -> 0..MaxOut]
  /\ fed \in [Process -> Seq(1..MaxOut)] /\ \A p \in Process : taken[p] <= wrote[p]
  /\ reader \in [Process -> {"off", "reading", "waiting", "expired", "ended", "done"}]
  /\ waiter \in {"off", "waiting", "ended", "done"}
  /\ exitcode \in [Process -> {-9, 0, 1, 2, None}]
  /\ transcript \in [rounds : Seq(Rounds), pending : Seq(DOMAIN transcript.rounds)]
  /\ violation \in BOOLEAN /\ phase \in Phases /\ target \in Process /\ verdict \in Verdicts \cup {"none"}

FirstChunks(p) == [n \in 1..wrote[p] |-> n]

(* Each program is fed a prefix of what the other one wrote (proxy.py:464-501):
   whatever is lost when readers stop, writers close or programs die is lost
   at the end; nothing is skipped, doubled or reordered in the middle. *)
PrefixFed == \A p \in Process : IsPrefix(fed[p], FirstChunks(Other(p)))

(* With violation_action STOP the judge gets nothing of the offending chunk
   and nothing after it (proxy.py:471-485), although the user goes on writing
   until the signal reaches it. *)
StoppedAtViolation ==
  Stop => \A n \in ToSet(fed["judge"]), b \in Bad : n < b

\* While the proxy forwards, the living program p was told the end of its input,
\* by no violation.
ToldTheEnd(p) ==
  phase = "forward" /\ ~ inOpen[p] /\ ~ Dead(p) /\ ~ (Stop /\ violation)

(* proxy.py:389-408, 446-456: a program is told the end of its input only when
   the other one can write no more, for every order of data, end of file, exit
   and poll timer; and data is missing then only if that exit was noticed. *)
EOFAfterEnd ==
  \A p \in Process : ToldTheEnd(p) =>
    /\ ~ outOpen[Other(p)]
    /\ fed[p] = FirstChunks(Other(p)) \/ seen[Other(p)]

(* proxy.py:440 "Read all available data from a process and forward
   appropriately": who is told the end of the input has had all of it. *)
EOFAfterData ==
  \A p \in Process : ToldTheEnd(p) => fed[p] = FirstChunks(Other(p))

(* proxy.py:398-410, 479-481: while the proxy forwards it signals the user only
   when the judge has exited or a violation stops both, and the judge only for
   a violation; a program that merely closed its output is left to finish. *)
SignalsHaveCause ==
  phase = "forward" =>
    /\ sig["user"] # "none" => seen["judge"] \/ (Stop /\ violation)
    /\ sig["judge"] # "none" => Stop /\ violation

(* proxy.py:522-542: when run() returns, no program is left behind, whichever
   of the exits, timers and signals came first and also after a failed spawn. *)
NoOrphans == phase = "done" => \A p \in Process : os[p] # "run"

\* The rounds show the first n chunks of a program, each once and in order.
Shows(p, n) ==
  LET rounds == transcript.rounds
      places == {i \in DOMAIN rounds : rounds[i][p] # <<>>}
  IN  /\ \A i \in places : Len(rounds[i][p]) = 1
      /\ {rounds[i][p][1] : i \in places} = 1..n
      /\ \A i, j \in places : i < j => rounds[i][p][1] < rounds[j][p][1]

(* proxy.py:164-194: a transcript shows every chunk of each program once and
   in order, a round has one answer at most, and those without one are exactly
   the rounds that wait: no answer is given away before an older round has
   its own.  Only the chunk that stops the execution may be missing. *)
TranscriptFaithful ==
  RecordTranscript =>
    /\ Shows("judge", taken["judge"])
    /\ Shows("user", taken["user"]) \/ (Stop /\ violation /\ Shows("user", taken["user"] - 1))
    /\ \A i \in DOMAIN transcript.rounds :
         transcript.rounds[i].judge = <<>> <=> i \in ToSet(transcript.pending)

(* proxy.py:474-485: when a violation ends the execution the transcript shows
   the offending round, unless one of the programs had ended by itself. *)
ViolationShown ==
  (RecordTranscript /\ verdict = "FIREWALL_VIOLATION") =>
    \/ \E i \in DOMAIN transcript.rounds : transcript.rounds[i].violation
    \/ Stop /\ \E p \in Process : os[p] # "term"

(* proxy.py:291 "Overall timeout for proxy execution (seconds)": run() returns
   whatever the programs do. *)
Terminates == <>(phase = "done")
=============================================================================
