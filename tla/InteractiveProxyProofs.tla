----------------------- MODULE InteractiveProxyProofs ------------------------
(***************************************************************************)
(* What one execution of the proxy guarantees for any number of chunks, any *)
(* set of bad ones, both reactions to them, wrapped or bare programs and    *)
(* any initial stdin: every safety property that the runs check.            *)
(***************************************************************************)
EXTENDS InteractiveProxy, TLAPS

Early == {"spawn_user", "spawn_judge", "stdin_user", "stdin_judge"}

Cleaning == {"close", "grace", "kill"}

\* The reader of p may still receive, at once or after its timer.
Active(p) == reader[p] \in {"reading", "waiting", "expired"}

\* Before the forwarding nothing was read, fed, signalled or recorded.
NothingYet ==
  /\ phase \in Early =>
       /\ \A p \in Process : reader[p] = "off" /\ taken[p] = 0 /\ fed[p] = <<>> /\ sig[p] = "none"
       /\ waiter = "off" /\ ~ violation /\ transcript = EmptyTranscript
  /\ phase \in Early \cup {"forward", "timeout"} => target = "user" /\ verdict = "none"
  /\ \A p \in Process : Active(p) => phase = "forward"

\* A program lives from its spawn to its death; its exit is noticed after it,
\* and nothing comes out of it any more.
Lives ==
  /\ phase = "spawn_user" => os["user"] = "none" /\ ~ outOpen["user"]
  /\ phase \in {"spawn_user", "spawn_judge"} => os["judge"] = "none" /\ ~ outOpen["judge"]
  /\ \A p \in Process : /\ seen[p] => Dead(p)
                        /\ Dead(p) => ~ outOpen[p]
                        /\ os[p] = "term" => sig[p] # "none"

\* What a program was fed are the first chunks of the other one, all that
\* were taken while its stdin is open and the other one's reader reads on.
FedInOrder ==
  \A p \in Process :
    /\ \A i \in 1..Len(fed[p]) : fed[p][i] = i
    /\ Len(fed[p]) <= taken[Other(p)]
    /\ inOpen[p] /\ Active(Other(p)) => Len(fed[p]) = taken[Other(p)]

\* Under STOP the reader of the user never reads on after a bad chunk.
BadAhead ==
  Stop => \A b \in Bad : /\ Len(fed["judge"]) < b
                         /\ Active("user") => taken["user"] < b

\* The loop of _cleanup leaves no program behind.
CleanedUp ==
  /\ phase \in Cleaning /\ target = "judge" => os["user"] # "run"
  /\ NoOrphans

\* While the proxy forwards, it no longer waits for the judge only because the
\* judge exited.
Caused ==
  /\ SignalsHaveCause
  /\ phase = "forward" /\ waiter \in {"ended", "done"} => seen["judge"]

\* While the proxy forwards, the stdin of a living program is open until the
\* other one's reader is done; that reader ends with the output, or once it
\* knows of the exit.
Ends ==
  /\ phase = "spawn_judge" => inOpen["user"] \/ Dead("user")
  /\ \A p \in Process :
       /\ phase \in {"stdin_user", "stdin_judge"} => inOpen[p] \/ Dead(p)
       /\ phase = "forward" => inOpen[p] \/ Dead(p) \/ reader[Other(p)] = "done"
       /\ phase = "forward" /\ ~ (Stop /\ violation) =>
            /\ reader[p] \in {"ended", "done"} => ~ outOpen[p] /\ (taken[p] = wrote[p] \/ seen[p])
            /\ ~ Dead(p) => Len(fed[p]) = taken[Other(p)]

\* The waiting rounds are the last ones; the n-th of the k others shows the
\* n-th chunk of the judge.
Ordered(rounds, pending, k) ==
  /\ k = Len(rounds) - Len(pending)
  /\ \A i \in 1..Len(pending) : pending[i] = k + i
  /\ \A i \in 1..Len(rounds) : /\ i <= k => rounds[i].judge = <<i>>
                               /\ i > k => rounds[i].judge = <<>>

RoundsInOrder ==
  RecordTranscript => Ordered(transcript.rounds, transcript.pending, taken["judge"])

UserShown ==
  RecordTranscript =>
    /\ \/ Shows("user", taken["user"])
       \/ Stop /\ violation /\ taken["user"] # 0 /\ Shows("user", taken["user"] - 1)
    /\ Active("user") => Shows("user", taken["user"])

\* A violation is shown, or was not because a program had ended by itself.
Marked(rounds) == \E i \in DOMAIN rounds : rounds[i].violation

Excused ==
  /\ verdict = "FIREWALL_VIOLATION" => violation
  /\ RecordTranscript /\ violation =>
       \/ Marked(transcript.rounds)
       \/ Stop /\ \E p \in Process : Dead(p) /\ os[p] # "term"

(* The inductive invariant of the proxy. *)
ProxyInv ==
  /\ TypeOK /\ NothingYet /\ Lives /\ FedInOrder /\ BadAhead /\ CleanedUp
  /\ Caused /\ Ends /\ RoundsInOrder /\ UserShown /\ Excused

-----------------------------------------------------------------------------
(* Types. *)

\* The tuples of variables that the actions leave unchanged.
USE DEF procVars, noted, ioVars, result, rest

Transcripts(n) == [rounds : Seq(Rounds), pending : Seq(1..n)]

LEMMA Others == /\ \A p \in Process : Other(p) \in Process /\ Other(Other(p)) = p /\ Other(p) # p
                /\ Other("judge") = "user" /\ Other("user") = "judge"
                /\ Process = {"user", "judge"}
  BY DEF Other, Process

\* A recorded chunk keeps the transcript one of rounds of chunks.
LEMMA UserInputTyped ==
  ASSUME NEW t \in [rounds : Seq(Rounds), pending : Seq(Nat)],
         t.pending \in Seq(DOMAIN t.rounds), NEW n \in 1..MaxOut, NEW v \in BOOLEAN
  PROVE  LET u == AddUserInput(t, n, v)
         IN  u \in [rounds : Seq(Rounds), pending : Seq(DOMAIN u.rounds)]
  <1> DEFINE r == Round(<<n>>, <<>>, v)
             u == AddUserInput(t, n, v)
  <1>1. r \in Rounds
    BY DEF Round, Rounds
  <1> HIDE DEF r
  <1>2. u.rounds = Append(t.rounds, r) /\ u.pending = Append(t.pending, Len(t.rounds) + 1)
    BY DEF AddUserInput, r
  <1>3. u = [rounds |-> u.rounds, pending |-> u.pending]
    BY DEF AddUserInput
  <1> HIDE DEF u
  <1>4. u.rounds \in Seq(Rounds) /\ DOMAIN u.rounds = 1..Len(t.rounds) + 1
    BY <1>1, <1>2
  <1>5. u.pending \in Seq(1..Len(t.rounds) + 1)
    BY <1>2
  <1> QED BY <1>3, <1>4, <1>5 DEF u

LEMMA JudgeOutputTyped ==
  ASSUME NEW t \in [rounds : Seq(Rounds), pending : Seq(Nat)],
         t.pending \in Seq(DOMAIN t.rounds), NEW n \in 1..MaxOut
  PROVE  LET u == AddJudgeOutput(t, n)
         IN  u \in [rounds : Seq(Rounds), pending : Seq(DOMAIN u.rounds)]
  <1> DEFINE u == AddJudgeOutput(t, n)
  <1>1. CASE t.pending # <<>>
    <2> DEFINE h == Head(t.pending)
               r == [t.rounds[h] EXCEPT !.judge = Append(@, n)]
    <2>1. h \in DOMAIN t.rounds /\ t.rounds[h] \in Rounds
      BY <1>1
    <2>2. r \in Rounds
      <3>1. t.rounds[h].judge \in Seq(1..MaxOut)
        BY <2>1 DEF Rounds
      <3>2. Append(t.rounds[h].judge, n) \in Seq(1..MaxOut)
        BY <3>1
      <3> QED BY <2>1, <3>2 DEF Rounds
    <2>3. u = [rounds |-> [t.rounds EXCEPT ![h] = r], pending |-> Tail(t.pending)]
      BY <1>1, <2>1 DEF AddJudgeOutput
    <2> HIDE DEF h, r
    <2>4. [t.rounds EXCEPT ![h] = r] \in Seq(Rounds)
          /\ DOMAIN [t.rounds EXCEPT ![h] = r] = DOMAIN t.rounds
      BY <2>1, <2>2
    <2>5. Tail(t.pending) \in Seq(DOMAIN t.rounds)
      BY <1>1
    <2> QED BY <2>3, <2>4, <2>5
  <1>2. CASE t.pending = <<>>
    <2> DEFINE r == Round(<<>>, <<n>>, FALSE)
    <2>1. r \in Rounds
      BY DEF Round, Rounds
    <2>2. u = [rounds |-> Append(t.rounds, r), pending |-> <<>>]
      BY <1>2 DEF AddJudgeOutput
    <2> HIDE DEF r
    <2>3. Append(t.rounds, r) \in Seq(Rounds)
      BY <2>1
    <2> QED BY <2>2, <2>3
  <1> QED BY <1>1, <1>2

\* What a chunk that is read may do to the transcript leaves it one.
LEMMA TranscriptKept ==
  ASSUME TypeOK, NEW n \in 1..MaxOut,
         \/ UNCHANGED transcript
         \/ \E v \in BOOLEAN : Record(AddUserInput(transcript, n, v))
         \/ Record(AddJudgeOutput(transcript, n))
  PROVE  transcript' \in [rounds : Seq(Rounds), pending : Seq(DOMAIN transcript'.rounds)]
  <1>1. /\ transcript \in [rounds : Seq(Rounds), pending : Seq(DOMAIN transcript.rounds)]
        /\ transcript.rounds \in Seq(Rounds) /\ transcript.pending \in Seq(DOMAIN transcript.rounds)
    BY DEF TypeOK
  <1>2. transcript \in [rounds : Seq(Rounds), pending : Seq(Nat)]
    BY <1>1
  <1>3. CASE UNCHANGED transcript
    BY <1>1, <1>3
  <1>4. ASSUME NEW v \in BOOLEAN, Record(AddUserInput(transcript, n, v))
        PROVE  transcript' \in [rounds : Seq(Rounds), pending : Seq(DOMAIN transcript'.rounds)]
    BY <1>1, <1>2, <1>4, UserInputTyped DEF Record
  <1>5. CASE Record(AddJudgeOutput(transcript, n))
    BY <1>1, <1>2, <1>5, JudgeOutputTyped DEF Record
  <1> QED BY <1>3, <1>4, <1>5

LEMMA TypeInit == Init => TypeOK
  <1> SUFFICES ASSUME Init PROVE TypeOK
    OBVIOUS
  <1>1. transcript \in [rounds : Seq(Rounds), pending : Seq(DOMAIN transcript.rounds)]
    BY DEF Init, EmptyTranscript
  <1>2. fed \in [Process -> Seq(1..MaxOut)]
    BY DEF Init, All
  <1>3. wrote \in [Process -> 0..MaxOut] /\ taken \in [Process -> 0..MaxOut]
        /\ \A p \in Process : taken[p] <= wrote[p]
    BY ProxyAssumption DEF Init, All
  <1>4. exitcode \in [Process -> {-9, 0, 1, 2, None}]
    BY DEF Init, All
  <1>5. /\ os \in [Process -> {"none", "run"} \cup Causes]
        /\ sig \in [Process -> {"none", "term", "kill"}]
        /\ absorbed \in [Process -> BOOLEAN] /\ outOpen \in [Process -> BOOLEAN]
        /\ inOpen \in [Process -> BOOLEAN] /\ seen \in [Process -> BOOLEAN]
        /\ reader \in [Process -> {"off", "reading", "waiting", "expired", "ended", "done"}]
    BY DEF Init, All
  <1> QED BY <1>1, <1>2, <1>3, <1>4, <1>5 DEF Init, TypeOK, Process, Phases

\* Codes are among those of the type invariant.
LEMMA CodeTyped == \A p \in Process : Code(p) \in {-9, 0, 1, 2}
  BY DEF Code, Retcode

LEMMA ReadTyped ==
  ASSUME TypeOK, NEW p \in Process, Read(p)
  PROVE  TypeOK'
  <1> DEFINE n == taken[p] + 1
  <1>1. /\ taken[p] \in 0..MaxOut /\ wrote[p] \in 0..MaxOut /\ taken[p] < wrote[p]
        /\ n \in 1..MaxOut /\ MaxOut \in Nat /\ taken' = [taken EXCEPT ![p] = n]
    BY ProxyAssumption DEF TypeOK, Read, Receive
  <1>2. taken' \in [Process -> 0..MaxOut] /\ \A q \in Process : taken'[q] <= wrote'[q]
    BY <1>1 DEF TypeOK, Read, Receive
  <1>3. UNCHANGED <<os, absorbed, wrote, outOpen, seen, inOpen, waiter, phase, target, rest>>
    BY DEF Read, Receive
  <1>4. CASE p = "user" /\ n \in Bad /\ Stop
    <2>1. violation' = TRUE /\ Stopping
      BY <1>4 DEF Read, ReadUser
    <2>2. transcript' \in [rounds : Seq(Rounds), pending : Seq(DOMAIN transcript'.rounds)]
      BY <1>1, <1>4, <2>1, TranscriptKept DEF Stopping
    <2>3. sig' \in [Process -> {"none", "term", "kill"}]
      BY <2>1 DEF Stopping, Terminate, TypeOK
    <2>4. reader' \in [Process -> {"off", "reading", "waiting", "expired", "ended", "done"}] /\ fed' = fed
      BY <2>1 DEF Stopping, EndReader, TypeOK
    <2> QED BY <1>2, <1>3, <2>1, <2>2, <2>3, <2>4 DEF TypeOK
  <1>5. CASE ~ (p = "user" /\ n \in Bad /\ Stop)
    <2>1. Forwarding(p)
      BY <1>5, Others DEF Read, ReadUser, ReadJudge
    <2>2. /\ violation' \in BOOLEAN
          /\ \/ \E v \in BOOLEAN : Record(AddUserInput(transcript, n, v))
             \/ Record(AddJudgeOutput(transcript, n))
      <3>1. CASE p = "user"
        <4>1. /\ violation' = (violation \/ n \in Bad)
              /\ Record(AddUserInput(transcript, n, n \in Bad))
          BY <1>5, <3>1 DEF Read, ReadUser
        <4>2. (n \in Bad) \in BOOLEAN /\ (violation \/ n \in Bad) \in BOOLEAN
          OBVIOUS
        <4> QED BY <4>1, <4>2
      <3>2. CASE p # "user"
        BY <3>2 DEF Read, ReadJudge, TypeOK
      <3> QED BY <3>1, <3>2
    <2>3. transcript' \in [rounds : Seq(Rounds), pending : Seq(DOMAIN transcript'.rounds)]
      BY <1>1, <2>2, TranscriptKept
    <2>4. fed' \in [Process -> Seq(1..MaxOut)]
      <3>1. fed[Other(p)] \in Seq(1..MaxOut) /\ Other(p) \in Process
        BY Others DEF TypeOK
      <3>2. Append(fed[Other(p)], n) \in Seq(1..MaxOut)
        BY <1>1, <3>1
      <3> QED BY <2>1, <3>2 DEF Forwarding, Forward, TypeOK
    <2>5. reader' \in [Process -> {"off", "reading", "waiting", "expired", "ended", "done"}] /\ sig' = sig
      BY <2>1 DEF Forwarding, TypeOK
    <2> QED BY <1>2, <1>3, <2>2, <2>3, <2>4, <2>5 DEF TypeOK
  <1> QED BY <1>4, <1>5

LEMMA ProgramTyped ==
  ASSUME TypeOK, NEW p \in Process,
         \/ Write(p) \/ Absorb(p) \/ CloseStdout(p) \/ (\E how \in Causes : Die(p, how))
         \/ Notice(p) \/ StdinBroken(p)
  PROVE  TypeOK'
  <1>1. CASE Write(p)
    <2>1. /\ wrote' \in [Process -> 0..MaxOut] /\ \A q \in Process : taken'[q] <= wrote'[q]
          /\ UNCHANGED <<os, sig, absorbed, outOpen, seen, ioVars, phase, target, rest>>
      BY <1>1, ProxyAssumption DEF Write, TypeOK
    <2> QED BY <2>1 DEF TypeOK
  <1>2. CASE Absorb(p) \/ CloseStdout(p)
    BY <1>2 DEF TypeOK, Absorb, CloseStdout
  <1>3. CASE \E how \in Causes : Die(p, how)
    BY <1>3 DEF TypeOK, Die
  <1>4. CASE Notice(p) \/ StdinBroken(p)
    BY <1>4 DEF TypeOK, Notice, StdinBroken
  <1> QED BY <1>1, <1>2, <1>3, <1>4

LEMMA RunTyped ==
  ASSUME TypeOK, Run
  PROVE  TypeOK'
  <1>1. CASE SpawnUser \/ SpawnJudge
    <2>1. PICK p \in Process, here \in Early, after \in Phases : Spawn(p, here, after)
      BY <1>1 DEF SpawnUser, SpawnJudge, Process, Early, Phases
    <2>2. CASE Spawned(p, after)
      BY <2>1, <2>2 DEF TypeOK, Spawn, Spawned
    <2>3. CASE Fail /\ UNCHANGED <<os, outOpen, inOpen>>
      BY <2>1, <2>3 DEF TypeOK, Spawn, Fail, Phases, Verdicts
    <2> QED BY <2>1, <2>2, <2>3 DEF Spawn
  <1>2. CASE SendUserStdin
    BY <1>2 DEF TypeOK, SendUserStdin, Phases
  <1>3. CASE StartForwarding
    BY <1>3 DEF TypeOK, StartForwarding, Phases, All
  <1>4. CASE Finish
    <2>1. BuildResult \in Verdicts
      BY DEF BuildResult, Verdicts
    <2>2. exitcode' \in [Process -> {-9, 0, 1, 2, None}]
      BY <1>4, CodeTyped DEF Finish
    <2> QED BY <1>4, <2>1, <2>2 DEF TypeOK, Finish, Phases
  <1>5. CASE FireTimeout
    BY <1>5 DEF TypeOK, FireTimeout, Phases
  <1>6. CASE HandleTimeout
    <2>1. exitcode' \in [Process -> {-9, 0, 1, 2, None}]
      BY <1>6, CodeTyped DEF HandleTimeout
    <2>2. verdict' \in Verdicts
      BY <1>6 DEF HandleTimeout, Verdicts
    <2> QED BY <1>6, <2>1, <2>2 DEF TypeOK, HandleTimeout, Phases
  <1> QED BY <1>1, <1>2, <1>3, <1>4, <1>5, <1>6 DEF Run

LEMMA ForwardingTyped ==
  ASSUME TypeOK, NEW p \in Process,
         \/ WaitForData(p) \/ ReadEOF(p) \/ PollExpires(p) \/ PollTimeout(p) \/ OnReaderDone(p)
         \/ JudgeExited \/ OnJudgeExit \/ Cleanup(p)
  PROVE  TypeOK'
  <1>1. CASE WaitForData(p) \/ ReadEOF(p) \/ PollExpires(p) \/ PollTimeout(p)
    BY <1>1 DEF TypeOK, WaitForData, ReadEOF, PollExpires, PollTimeout, EndReader
  <1>2. CASE OnReaderDone(p)
    BY <1>2 DEF TypeOK, OnReaderDone, CloseStdin
  <1>3. CASE JudgeExited \/ OnJudgeExit
    BY <1>3 DEF TypeOK, JudgeExited, OnJudgeExit, Terminate
  <1>4. CASE Cleanup(p)
    <2>1. phase' \in Phases /\ target' \in Process
      BY <1>4 DEF TypeOK, Cleanup, CleanupClose, CleanupExited, CleanupKill, NextTarget, Phases,
                  Process
    <2>2. sig' \in [Process -> {"none", "term", "kill"}] /\ inOpen' \in [Process -> BOOLEAN]
      <3>1. CASE CleanupClose(p)
        <4>1. UNCHANGED sig \/ Terminate({p})
          BY <3>1 DEF CleanupClose
        <4>2. sig' \in [Process -> {"none", "term", "kill"}]
          BY <4>1 DEF Terminate, TypeOK
        <4> QED BY <3>1, <4>2 DEF TypeOK, CleanupClose, CloseStdin
      <3>2. CASE CleanupExited(p) \/ CleanupKill(p)
        BY <3>2 DEF TypeOK, CleanupExited, CleanupKill
      <3> QED BY <1>4, <3>1, <3>2 DEF Cleanup
    <2>3. UNCHANGED <<os, absorbed, wrote, outOpen, seen, taken, fed, reader, waiter, noted, rest>>
      BY <1>4 DEF Cleanup, CleanupClose, CleanupExited, CleanupKill
    <2> QED BY <2>1, <2>2, <2>3 DEF TypeOK
  <1> QED BY <1>1, <1>2, <1>3, <1>4

\* Every way a program may die is one of the causes.
LEMMA EndsDie ==
  ASSUME NEW p \in Process, End(p) \/ Obey(p) \/ Killed(p)
  PROVE  \E how \in Causes : /\ Die(p, how)
                             /\ how \in {"term", "kill"} => sig[p] # "none"
  <1>1. CASE End(p)
    BY <1>1 DEF End, Causes, SandboxCauses
  <1>2. CASE Obey(p)
    BY <1>2 DEF Obey, Causes
  <1>3. CASE Killed(p)
    BY <1>3 DEF Killed, Causes
  <1> QED BY <1>1, <1>2, <1>3

\* The steps of the proxy and of its programs.
LEMMA Steps ==
  ASSUME [Next]_vars
  PROVE  \/ UNCHANGED vars
         \/ Run \/ JudgeExited \/ OnJudgeExit
         \/ \E p \in Process :
              \/ Write(p) \/ Absorb(p) \/ CloseStdout(p) \/ Notice(p) \/ StdinBroken(p)
              \/ \E how \in Causes : Die(p, how) /\ (how \in {"term", "kill"} => sig[p] # "none")
              \/ WaitForData(p) \/ Read(p) \/ ReadEOF(p) \/ PollExpires(p) \/ PollTimeout(p)
              \/ OnReaderDone(p) \/ Cleanup(p)
  BY EndsDie DEF Next, Programs, Reader

LEMMA TypeStep == ASSUME TypeOK, [Next]_vars PROVE TypeOK'
  <1>1. CASE UNCHANGED vars
    BY <1>1 DEF vars, TypeOK
  <1> QED BY <1>1, Steps, ReadTyped, ProgramTyped, RunTyped, ForwardingTyped, Others

(* Type correctness of the proxy. *)
THEOREM ProxyTypes == Spec => []TypeOK
  BY TypeInit, TypeStep, PTL DEF Spec

-----------------------------------------------------------------------------
(* Before the forwarding, and the lives of the programs. *)

\* What reading, its callbacks and the program steps leave alone.
LEMMA ReadFrame ==
  ASSUME NEW p \in Process, Read(p)
  PROVE  /\ Active(p) /\ taken[p] < wrote[p] /\ taken' = [taken EXCEPT ![p] = @ + 1]
         /\ UNCHANGED <<os, absorbed, wrote, outOpen, seen, inOpen, waiter, phase, target, rest>>
         /\ \/ Forwarding(p)
            \/ p = "user" /\ taken["user"] + 1 \in Bad /\ Stop /\ violation' = TRUE /\ Stopping
  BY Others DEF Read, ReadUser, ReadJudge, Receive, Active

\* A signal once sent is not taken back.
LEMMA SignalsStay ==
  ASSUME TypeOK, [Next]_vars, NEW q \in Process, sig[q] # "none"
  PROVE  sig'[q] # "none"
  <1>1. ASSUME NEW ps, Terminate(ps) PROVE sig'[q] # "none"
    BY <1>1 DEF Terminate
  <1>2. CASE UNCHANGED sig
    BY <1>2
  <1>3. ASSUME NEW p \in Process, Read(p) PROVE sig'[q] # "none"
    BY <1>1, <1>2, <1>3, ReadFrame DEF Forwarding, Stopping
  <1>4. CASE OnJudgeExit
    BY <1>1, <1>2, <1>4 DEF OnJudgeExit
  <1>5. ASSUME NEW p \in Process, Cleanup(p) PROVE sig'[q] # "none"
    <2>1. UNCHANGED sig \/ Terminate({p}) \/ sig' = [sig EXCEPT ![p] = "kill"]
      BY <1>5 DEF Cleanup, CleanupClose, CleanupExited, CleanupKill
    <2> QED BY <1>1, <1>2, <2>1 DEF TypeOK
  <1>6. Run => UNCHANGED sig
    BY DEF Run, SpawnUser, SpawnJudge, Spawn, SendUserStdin, StartForwarding, Finish, FireTimeout,
           HandleTimeout
  <1>7. ASSUME NEW p \in Process,
               \/ Write(p) \/ Absorb(p) \/ CloseStdout(p) \/ Notice(p) \/ StdinBroken(p)
               \/ (\E how \in Causes : Die(p, how))
               \/ WaitForData(p) \/ ReadEOF(p) \/ PollExpires(p) \/ PollTimeout(p) \/ OnReaderDone(p)
        PROVE  UNCHANGED sig
    BY <1>7 DEF Write, Absorb, CloseStdout, Notice, StdinBroken, Die, WaitForData, ReadEOF,
                PollExpires, PollTimeout, OnReaderDone
  <1>8. JudgeExited \/ UNCHANGED vars => UNCHANGED sig
    BY DEF JudgeExited, vars
  <1> QED BY <1>2, <1>3, <1>4, <1>5, <1>6, <1>7, <1>8, Steps

LEMMA NothingYetStep == ASSUME TypeOK, NothingYet, [Next]_vars PROVE NothingYet'
  <1>1. CASE UNCHANGED vars
    BY <1>1 DEF vars, NothingYet, Active
  <1>2. ASSUME NEW p \in Process,
               \/ Write(p) \/ Absorb(p) \/ CloseStdout(p) \/ Notice(p) \/ StdinBroken(p)
               \/ (\E how \in Causes : Die(p, how))
        PROVE  NothingYet'
    BY <1>2 DEF NothingYet, Active, Write, Absorb, CloseStdout, Notice, StdinBroken, Die
  <1>3. ASSUME NEW p \in Process,
               \/ WaitForData(p) \/ Read(p) \/ ReadEOF(p) \/ PollExpires(p) \/ PollTimeout(p)
        PROVE  NothingYet'
    <2>1. Active(p) /\ UNCHANGED <<phase, target, verdict>>
      BY <1>3, ReadFrame DEF Active, WaitForData, ReadEOF, PollExpires, PollTimeout
    <2>2. phase = "forward"
      BY <2>1 DEF NothingYet
    <2> QED BY <2>1, <2>2 DEF NothingYet, Early
  <1>4. ASSUME NEW p \in Process, OnReaderDone(p) \/ JudgeExited \/ OnJudgeExit
        PROVE  NothingYet'
    <2>1. /\ phase \notin Early /\ UNCHANGED <<phase, target, verdict>>
          /\ \A q \in Process : reader'[q] \in {"reading", "waiting", "expired"} => reader'[q] = reader[q]
      BY <1>4 DEF NothingYet, OnReaderDone, JudgeExited, OnJudgeExit, TypeOK
    <2> QED BY <2>1 DEF NothingYet, Active
  <1>5. ASSUME NEW p \in Process, Cleanup(p) PROVE NothingYet'
    <2>1. /\ phase \in Cleaning /\ phase' \in Cleaning \cup {"done"} /\ UNCHANGED reader
      BY <1>5 DEF Cleanup, CleanupClose, CleanupExited, CleanupKill, NextTarget, Cleaning
    <2> QED BY <2>1 DEF NothingYet, Active, Early, Cleaning
  <1>6. CASE Run
    <2>1. CASE SpawnUser \/ SpawnJudge
      BY <2>1 DEF NothingYet, Active, SpawnUser, SpawnJudge, Spawn, Spawned, Fail, Early
    <2>2. CASE SendUserStdin \/ StartForwarding
      BY <2>2 DEF NothingYet, Active, SendUserStdin, StartForwarding, Early, All
    <2>3. CASE FireTimeout
      BY <2>3 DEF NothingYet, Active, FireTimeout, Early
    <2>4. CASE Finish \/ HandleTimeout
      BY <2>4 DEF NothingYet, Active, Finish, HandleTimeout, Early
    <2> QED BY <1>6, <2>1, <2>2, <2>3, <2>4 DEF Run
  <1> QED BY <1>1, <1>2, <1>3, <1>4, <1>5, <1>6, Steps, Others

LEMMA LivesStep == ASSUME TypeOK, NothingYet, Lives, [Next]_vars PROVE Lives'
  <1>1. ASSUME UNCHANGED <<os, outOpen, seen, phase>> PROVE Lives'
    BY <1>1, SignalsStay DEF Lives, Dead
  <1>2. ASSUME NEW p \in Process, CloseStdout(p) PROVE Lives'
    BY <1>2, Others, SignalsStay DEF Lives, Dead, CloseStdout, TypeOK
  <1>3. ASSUME NEW p \in Process, NEW how \in Causes, Die(p, how),
               how \in {"term", "kill"} => sig[p] # "none"
        PROVE  Lives'
    <2>1. /\ os[p] = "run" /\ os' = [os EXCEPT ![p] = how] /\ outOpen' = [outOpen EXCEPT ![p] = FALSE]
          /\ UNCHANGED <<seen, sig, phase>>
      BY <1>3 DEF Die
    <2>2. \A q \in Process : Dead(q) => Dead(q)'
      BY <2>1 DEF Dead, TypeOK
    <2>3. \A q \in Process : Dead(q)' => ~ outOpen'[q]
      BY <2>1 DEF Dead, Lives, TypeOK
    <2>4. \A q \in Process : os'[q] = "term" => sig'[q] # "none"
      BY <1>3, <2>1 DEF Lives, TypeOK
    <2>5. /\ phase' = "spawn_user" => os'["user"] = "none" /\ ~ outOpen'["user"]
          /\ phase' \in {"spawn_user", "spawn_judge"} => os'["judge"] = "none" /\ ~ outOpen'["judge"]
      BY <2>1, Others DEF Lives, TypeOK
    <2> QED BY <2>1, <2>2, <2>3, <2>4, <2>5 DEF Lives
  <1>4. ASSUME NEW p \in Process, Notice(p) PROVE Lives'
    BY <1>4, SignalsStay DEF Lives, Dead, Notice, TypeOK
  <1>5. ASSUME phase' \notin {"spawn_user", "spawn_judge"}, UNCHANGED <<os, outOpen, seen>>
        PROVE  Lives'
    BY <1>5, SignalsStay DEF Lives, Dead
  <1>6. CASE SpawnUser \/ SpawnJudge
    <2>1. PICK p \in Process :
            /\ UNCHANGED <<sig, seen>> /\ os[p] = "none"
            /\ p = "user" => phase = "spawn_user" /\ phase' \in {"spawn_judge", "close"}
            /\ p = "judge" => phase = "spawn_judge" /\ phase' \in {"stdin_user", "close"}
            /\ \/ UNCHANGED <<os, outOpen>>
               \/ os' = [os EXCEPT ![p] = "run"] /\ outOpen' = [outOpen EXCEPT ![p] = TRUE]
      BY <1>6, Others DEF SpawnUser, SpawnJudge, Spawn, Spawned, Fail, Lives
    <2> QED BY <2>1, Others DEF Lives, Dead, TypeOK, Causes, SandboxCauses
  <1>7. CASE Run
    <2>1. SendUserStdin \/ StartForwarding \/ Finish \/ FireTimeout \/ HandleTimeout
            => phase' \notin {"spawn_user", "spawn_judge"} /\ UNCHANGED <<os, outOpen, seen>>
      BY DEF SendUserStdin, StartForwarding, Finish, FireTimeout, HandleTimeout
    <2> QED BY <1>5, <1>6, <1>7, <2>1 DEF Run
  <1>8. ASSUME NEW p \in Process, Cleanup(p) PROVE Lives'
    <2>1. phase' \notin {"spawn_user", "spawn_judge"} /\ UNCHANGED <<os, outOpen, seen>>
      BY <1>8 DEF Cleanup, CleanupClose, CleanupExited, CleanupKill, NextTarget
    <2> QED BY <1>5, <2>1
  <1>9. \A p \in Process :
          \/ Write(p) \/ Absorb(p) \/ StdinBroken(p) \/ WaitForData(p) \/ Read(p) \/ ReadEOF(p)
          \/ PollExpires(p) \/ PollTimeout(p) \/ OnReaderDone(p) \/ JudgeExited \/ OnJudgeExit \/ UNCHANGED vars
          => UNCHANGED <<os, outOpen, seen, phase>>
    BY ReadFrame DEF Write, Absorb, StdinBroken, WaitForData, ReadEOF, PollExpires, PollTimeout, OnReaderDone,
                     JudgeExited, OnJudgeExit, vars
  <1> QED BY <1>1, <1>2, <1>3, <1>4, <1>7, <1>8, <1>9, Steps, Others

-----------------------------------------------------------------------------
(* What the programs are fed. *)

LEMMA FedStep == ASSUME TypeOK, NothingYet, FedInOrder, [Next]_vars PROVE FedInOrder'
  <1>1. ASSUME UNCHANGED <<fed, taken>>,
               \A p \in Process : /\ inOpen'[p] => inOpen[p]
                                  /\ reader'[p] \in {"reading", "waiting", "expired"} => Active(p)
        PROVE  FedInOrder'
    BY <1>1, Others DEF FedInOrder, Active
  <1>2. ASSUME phase \in Early, UNCHANGED <<fed, taken>> PROVE FedInOrder'
    BY <1>2, Others DEF FedInOrder, NothingYet
  <1>3. ASSUME NEW p \in Process, Read(p) PROVE FedInOrder'
    <2> DEFINE q == Other(p)
    <2>0. /\ Active(p) /\ taken' = [taken EXCEPT ![p] = @ + 1] /\ UNCHANGED inOpen
          /\ q \in Process /\ q # p /\ Other(q) = p
      BY <1>3, ReadFrame, Others
    <2>1. /\ Active(p) /\ UNCHANGED inOpen /\ q \in Process /\ q # p /\ Other(q) = p
          /\ taken[p] \in Nat /\ fed[q] \in Seq(1..MaxOut) /\ taken'[p] = taken[p] + 1
          /\ taken'[q] = taken[q]
      BY <2>0, ProxyAssumption DEF TypeOK
    <2>2. /\ \A i \in 1..Len(fed[p]) : fed[p][i] = i
          /\ \A i \in 1..Len(fed[q]) : fed[q][i] = i
          /\ Len(fed[q]) <= taken[p] /\ Len(fed[p]) <= taken[q]
          /\ inOpen[q] => Len(fed[q]) = taken[p]
          /\ inOpen[p] /\ Active(q) => Len(fed[p]) = taken[q]
      BY <2>1 DEF FedInOrder
    <2> HIDE DEF q
    <2>3. CASE Forwarding(p)
      <3>1. /\ fed' = IF inOpen[q] THEN [fed EXCEPT ![q] = Append(@, taken[p] + 1)] ELSE fed
            /\ reader' = [reader EXCEPT ![p] = "reading"]
        BY <2>3 DEF Forwarding, Forward, q
      <3>2. fed'[p] = fed[p] /\ reader'[q] = reader[q]
        BY <2>1, <3>1 DEF TypeOK
      <3>3. CASE inOpen[q]
        <4>1. fed'[q] = Append(fed[q], taken[p] + 1)
          BY <2>1, <3>1, <3>3 DEF TypeOK
        <4>2. Len(fed'[q]) = taken[p] + 1 /\ \A i \in 1..Len(fed'[q]) : fed'[q][i] = i
          BY <2>1, <2>2, <3>3, <4>1
        <4> QED BY <2>1, <2>2, <3>2, <4>2, Others DEF FedInOrder, Active
      <3>4. CASE ~ inOpen[q]
        <4>1. fed' = fed
          BY <3>1, <3>4
        <4> QED BY <2>1, <2>2, <3>2, <3>4, <4>1, Others DEF FedInOrder, Active
      <3> QED BY <3>3, <3>4
    <2>4. CASE p = "user" /\ Stopping
      <3>1. fed' = fed /\ reader'[p] = "ended" /\ reader'[q] = reader[q]
        BY <2>1, <2>4 DEF Stopping, EndReader, TypeOK
      <3> QED BY <2>1, <2>2, <3>1, Others DEF FedInOrder, Active
    <2> QED BY <1>3, <2>3, <2>4, ReadFrame
  <1>4. ASSUME NEW p \in Process,
               \/ WaitForData(p) \/ ReadEOF(p) \/ PollExpires(p) \/ PollTimeout(p) \/ OnReaderDone(p)
               \/ StdinBroken(p)
        PROVE  FedInOrder'
    <2>1. UNCHANGED <<fed, taken>> /\ \A q \in Process : inOpen'[q] => inOpen[q]
      BY <1>4, Others DEF WaitForData, ReadEOF, PollExpires, PollTimeout, OnReaderDone, StdinBroken, CloseStdin, TypeOK
    <2>2. \A q \in Process : reader'[q] \in {"reading", "waiting", "expired"} => Active(q)
      BY <1>4 DEF WaitForData, ReadEOF, PollExpires, PollTimeout, OnReaderDone, StdinBroken, EndReader, Active, TypeOK
    <2> QED BY <1>1, <2>1, <2>2
  <1>5. ASSUME NEW p \in Process, Cleanup(p) PROVE FedInOrder'
    <2>1. UNCHANGED <<fed, taken, reader>> /\ \A q \in Process : inOpen'[q] => inOpen[q]
      BY <1>5 DEF Cleanup, CleanupClose, CleanupExited, CleanupKill, CloseStdin, TypeOK
    <2> QED BY <1>1, <2>1 DEF Active
  <1>6. CASE Run
    <2>1. CASE SpawnUser \/ SpawnJudge \/ SendUserStdin \/ StartForwarding
      <3>1. phase \in Early /\ UNCHANGED <<fed, taken>>
        BY <2>1 DEF SpawnUser, SpawnJudge, Spawn, SendUserStdin, StartForwarding, Early
      <3> QED BY <1>2, <3>1
    <2>2. CASE FireTimeout \/ Finish \/ HandleTimeout
      <3>1. /\ UNCHANGED <<fed, taken, inOpen>>
            /\ \A q \in Process : reader'[q] \in {"reading", "waiting", "expired"} => Active(q)
        BY <2>2 DEF FireTimeout, Finish, HandleTimeout, Active
      <3> QED BY <1>1, <3>1
    <2> QED BY <1>6, <2>1, <2>2 DEF Run
  <1>7. ASSUME NEW p \in Process,
               \/ Write(p) \/ Absorb(p) \/ CloseStdout(p) \/ Notice(p)
               \/ (\E how \in Causes : Die(p, how))
               \/ JudgeExited \/ OnJudgeExit \/ UNCHANGED vars
        PROVE  FedInOrder'
    <2>1. UNCHANGED <<fed, taken, inOpen, reader>>
      BY <1>7 DEF Write, Absorb, CloseStdout, Notice, Die, JudgeExited, OnJudgeExit, vars
    <2> QED BY <1>1, <2>1 DEF Active
  <1> QED BY <1>3, <1>4, <1>5, <1>6, <1>7, Steps, Others

LEMMA FedPrefix == TypeOK /\ FedInOrder => PrefixFed
  <1> SUFFICES ASSUME TypeOK, FedInOrder, NEW p \in Process
               PROVE  IsPrefix(fed[p], FirstChunks(Other(p)))
    BY DEF PrefixFed
  <1> DEFINE q == Other(p)
             first == FirstChunks(q)
  <1>1. /\ fed[p] \in Seq(1..MaxOut) /\ taken[q] <= wrote[q] /\ taken[q] \in Nat /\ wrote[q] \in Nat
        /\ Len(fed[p]) <= taken[q]
    BY Others DEF TypeOK, FedInOrder
  <1>2. first \in Seq(Nat) /\ Len(first) = wrote[q] /\ \A i \in 1..wrote[q] : first[i] = i
    BY <1>1 DEF FirstChunks
  <1> HIDE DEF q, first
  <1>3. Len(fed[p]) <= Len(first)
    BY <1>1, <1>2
  <1>4. \A i \in 1..Len(fed[p]) : fed[p][i] = first[i]
    BY <1>1, <1>2, <1>3 DEF FedInOrder
  <1>5. SubSeq(fed[p], 1, Len(fed[p])) = SubSeq(first, 1, Len(fed[p]))
    BY <1>1, <1>2, <1>3, <1>4
  <1> QED BY <1>3, <1>5 DEF IsPrefix, first, q

LEMMA BadStep == ASSUME TypeOK, NothingYet, FedInOrder, BadAhead, [Next]_vars PROVE BadAhead'
  <1>1. ASSUME UNCHANGED <<fed, taken, violation_action>>, Active("user")' => Active("user")
        PROVE  BadAhead'
    BY <1>1 DEF BadAhead, Stop
  <1>2. ASSUME NEW p \in Process, Read(p) PROVE BadAhead'
    <2> SUFFICES ASSUME Stop, NEW b \in Bad
                 PROVE  Len(fed'["judge"]) < b /\ (Active("user")' => taken'["user"] < b)
      BY <1>2, ReadFrame DEF BadAhead, Stop
    <2>1. /\ Len(fed["judge"]) < b
          /\ Active("user") => taken["user"] < b
          /\ taken["user"] \in Nat /\ b \in Nat /\ fed["judge"] \in Seq(1..MaxOut)
      BY Others, ProxyAssumption DEF BadAhead, TypeOK
    <2>2. CASE p = "judge"
      <3>1. /\ fed'["judge"] = fed["judge"] /\ reader'["user"] = reader["user"]
            /\ taken'["user"] = taken["user"]
        BY <1>2, <2>2, ReadFrame, Others DEF Forwarding, Forward, TypeOK
      <3> QED BY <2>1, <3>1 DEF Active
    <2>3. CASE p = "user" /\ taken["user"] + 1 \in Bad
      <3>1. Stopping
        BY <1>2, <2>3 DEF Read, ReadUser
      <3>2. fed' = fed /\ reader'["user"] = "ended"
        BY <3>1, Others DEF Stopping, EndReader, TypeOK
      <3> QED BY <2>1, <3>2 DEF Active
    <2>4. CASE p = "user" /\ taken["user"] + 1 \notin Bad
      <3>1. /\ Forwarding("user") /\ Active("user") /\ taken'["user"] = taken["user"] + 1
        BY <1>2, <2>4, ReadFrame, Others DEF TypeOK
      <3>2. taken["user"] + 1 < b
        BY <2>1, <2>4, <3>1
      <3>3. Len(fed["judge"]) <= taken["user"]
        BY Others DEF FedInOrder
      <3>4. \/ fed'["judge"] = Append(fed["judge"], taken["user"] + 1)
            \/ fed'["judge"] = fed["judge"]
        BY <3>1, Others DEF Forwarding, Forward, TypeOK
      <3>5. Len(fed'["judge"]) <= taken["user"] + 1
        BY <2>1, <3>3, <3>4
      <3>6. Len(fed'["judge"]) \in Nat
        BY <2>1, <3>4
      <3> QED BY <2>1, <3>1, <3>2, <3>5, <3>6
    <2> QED BY <2>2, <2>3, <2>4, Others
  <1>3. ASSUME NEW p \in Process,
               \/ WaitForData(p) \/ ReadEOF(p) \/ PollExpires(p) \/ PollTimeout(p) \/ OnReaderDone(p)
        PROVE  BadAhead'
    <2>1. UNCHANGED <<fed, taken, violation_action>> /\ (Active("user")' => Active("user"))
      BY <1>3, Others DEF WaitForData, ReadEOF, PollExpires, PollTimeout, OnReaderDone, EndReader, Active, TypeOK
    <2> QED BY <1>1, <2>1
  <1>4. CASE Run
    <2>1. CASE StartForwarding
      <3>1. taken["user"] = 0 /\ UNCHANGED <<fed, taken, violation_action>>
        BY <2>1, Others DEF StartForwarding, NothingYet, Early
      <3>2. \A b \in Bad : b \in Nat /\ 0 < b
        BY ProxyAssumption
      <3> QED BY <3>1, <3>2 DEF BadAhead, Stop
    <2>2. CASE ~ StartForwarding
      <3>1. UNCHANGED <<fed, taken, violation_action>> /\ (Active("user")' => Active("user"))
        BY <1>4, <2>2, Others DEF Run, SpawnUser, SpawnJudge, Spawn, Spawned, Fail, SendUserStdin,
           FireTimeout, Finish, HandleTimeout, Active
      <3> QED BY <1>1, <3>1
    <2> QED BY <2>1, <2>2
  <1>5. ASSUME NEW p \in Process,
               \/ Write(p) \/ Absorb(p) \/ CloseStdout(p) \/ Notice(p) \/ StdinBroken(p)
               \/ (\E how \in Causes : Die(p, how))
               \/ JudgeExited \/ OnJudgeExit \/ Cleanup(p) \/ UNCHANGED vars
        PROVE  BadAhead'
    <2>1. UNCHANGED <<fed, taken, reader, violation_action>>
      BY <1>5 DEF Write, Absorb, CloseStdout, Notice, StdinBroken, Die, JudgeExited, OnJudgeExit,
                  Cleanup, CleanupClose, CleanupExited, CleanupKill, vars
    <2> QED BY <1>1, <2>1 DEF Active
  <1> QED BY <1>2, <1>3, <1>4, <1>5, Steps, Others

LEMMA StoppedBefore == TypeOK /\ FedInOrder /\ BadAhead => StoppedAtViolation
  <1> SUFFICES ASSUME TypeOK, FedInOrder, BadAhead, Stop, NEW n \in ToSet(fed["judge"]), NEW b \in Bad
               PROVE  n < b
    BY DEF StoppedAtViolation
  <1>1. fed["judge"] \in Seq(1..MaxOut) /\ "judge" \in Process /\ b \in Nat
    BY Others, ProxyAssumption DEF TypeOK
  <1>2. PICK i \in 1..Len(fed["judge"]) : n = fed["judge"][i]
    BY <1>1 DEF ToSet
  <1>3. n = i
    BY <1>1, <1>2 DEF FedInOrder
  <1> QED BY <1>1, <1>2, <1>3 DEF BadAhead

-----------------------------------------------------------------------------
(* Signals and the cleanup. *)

LEMMA CleanedStep ==
  ASSUME TypeOK, NothingYet, Lives, CleanedUp, [Next]_vars
  PROVE  CleanedUp'
  <1>1. ASSUME UNCHANGED <<os, phase, target>> PROVE CleanedUp'
    BY <1>1 DEF CleanedUp, NoOrphans
  <1>2. ASSUME NEW p \in Process, NEW how \in Causes, Die(p, how) PROVE CleanedUp'
    <2>1. UNCHANGED <<phase, target>> /\ \A q \in Process : os'[q] = "run" => os[q] = "run"
      BY <1>2 DEF Die, TypeOK, Causes, SandboxCauses
    <2> QED BY <2>1, Others DEF CleanedUp, NoOrphans
  <1>3. CASE Run
    <2>1. phase \in Early \cup {"forward", "timeout"} /\ UNCHANGED target
      BY <1>3 DEF Run, SpawnUser, SpawnJudge, Spawn, SendUserStdin, StartForwarding, Finish,
                  FireTimeout, HandleTimeout, Early
    <2>2. target' = "user"
      BY <2>1 DEF NothingYet
    <2>3. phase' # "done"
      BY <1>3 DEF Run, SpawnUser, SpawnJudge, Spawn, Spawned, Fail, SendUserStdin, StartForwarding,
                  Finish, FireTimeout, HandleTimeout
    <2> QED BY <2>2, <2>3 DEF CleanedUp, NoOrphans
  <1>4. ASSUME NEW p \in Process, Cleanup(p) PROVE CleanedUp'
    <2>1. CASE CleanupKill(p) \/ (CleanupClose(p) /\ phase' = "grace")
      <3>1. UNCHANGED <<os, target>> /\ phase \in Cleaning /\ phase' # "done"
        BY <2>1 DEF CleanupKill, CleanupClose, NextTarget, Cleaning
      <3> QED BY <3>1 DEF CleanedUp, NoOrphans
    <2>2. CASE CleanupExited(p) \/ (CleanupClose(p) /\ phase' # "grace")
      <3>1. NextTarget(p) /\ UNCHANGED os /\ phase \in Cleaning /\ target = p /\ os[p] # "run"
        <4>1. (os[p] = "none" \/ seen[p]) => os[p] # "run"
          BY DEF Lives, Dead, Causes, SandboxCauses
        <4> QED BY <2>2, <4>1 DEF CleanupExited, CleanupClose, Cleaning
      <3>2. CASE p = "user"
        BY <3>1, <3>2 DEF NextTarget, CleanedUp, NoOrphans
      <3>3. CASE p = "judge"
        BY <3>1, <3>3, Others DEF NextTarget, CleanedUp, NoOrphans, Cleaning
      <3> QED BY <3>2, <3>3, Others
    <2> QED BY <1>4, <2>1, <2>2 DEF Cleanup
  <1>5. ASSUME NEW p \in Process,
               \/ Write(p) \/ Absorb(p) \/ CloseStdout(p) \/ Notice(p) \/ StdinBroken(p)
               \/ WaitForData(p) \/ Read(p) \/ ReadEOF(p) \/ PollExpires(p) \/ PollTimeout(p) \/ OnReaderDone(p)
               \/ JudgeExited \/ OnJudgeExit \/ UNCHANGED vars
        PROVE  CleanedUp'
    <2>1. UNCHANGED <<os, phase, target>>
      BY <1>5, ReadFrame DEF Write, Absorb, CloseStdout, Notice, StdinBroken, WaitForData, ReadEOF,
                  PollExpires, PollTimeout, OnReaderDone, JudgeExited, OnJudgeExit, vars
    <2> QED BY <1>1, <2>1
  <1> QED BY <1>2, <1>3, <1>4, <1>5, Steps, Others

LEMMA CausedStep ==
  ASSUME TypeOK, NothingYet, Caused, [Next]_vars
  PROVE  Caused'
  <1>1. ASSUME phase' # "forward" PROVE Caused'
    BY <1>1 DEF Caused, SignalsHaveCause
  <1>2. ASSUME UNCHANGED <<sig, waiter, violation, violation_action>>, phase' = "forward" => phase = "forward",
               seen["judge"] => seen'["judge"]
        PROVE  Caused'
    BY <1>2 DEF Caused, SignalsHaveCause, Stop
  <1>3. ASSUME NEW p \in Process, Read(p) PROVE Caused'
    <2>1. UNCHANGED <<seen, waiter, phase, violation_action>>
      BY <1>3, ReadFrame
    <2>2. CASE Forwarding(p)
      <3>1. UNCHANGED sig /\ (violation => violation')
        BY <1>3, <2>2 DEF Forwarding, Read, ReadUser, ReadJudge
      <3> QED BY <2>1, <3>1 DEF Caused, SignalsHaveCause, Stop
    <2>3. CASE Stop /\ violation' = TRUE
      BY <2>1, <2>3 DEF Caused, SignalsHaveCause, Stop
    <2> QED BY <1>3, <2>2, <2>3, ReadFrame
  <1>4. CASE OnJudgeExit
    <2>1. phase = "forward" => seen["judge"]
      BY <1>4 DEF OnJudgeExit, Caused
    <2>2. sig'["judge"] = sig["judge"]
      BY <1>4, Others DEF OnJudgeExit, Terminate, TypeOK
    <2> QED BY <1>4, <2>1, <2>2 DEF OnJudgeExit, Caused, SignalsHaveCause, Stop
  <1>5. CASE JudgeExited
    BY <1>5 DEF JudgeExited, Caused, SignalsHaveCause, Stop
  <1>6. CASE StartForwarding
    BY <1>6, Others DEF StartForwarding, NothingYet, Early, Caused, SignalsHaveCause
  <1>7. CASE Run /\ ~ StartForwarding
    BY <1>1, <1>7 DEF Run, SpawnUser, SpawnJudge, Spawn, Spawned, Fail, SendUserStdin, Finish,
                      FireTimeout, HandleTimeout
  <1>8. ASSUME NEW p \in Process, Cleanup(p) PROVE Caused'
    BY <1>1, <1>8 DEF Cleanup, CleanupClose, CleanupExited, CleanupKill, NextTarget
  <1>9. ASSUME NEW p \in Process,
               \/ Write(p) \/ Absorb(p) \/ CloseStdout(p) \/ Notice(p) \/ StdinBroken(p)
               \/ (\E how \in Causes : Die(p, how))
               \/ WaitForData(p) \/ ReadEOF(p) \/ PollExpires(p) \/ PollTimeout(p) \/ OnReaderDone(p)
               \/ UNCHANGED vars
        PROVE  Caused'
    <2>1. /\ UNCHANGED <<sig, waiter, violation, violation_action, phase>>
          /\ seen["judge"] => seen'["judge"]
      BY <1>9, Others DEF Write, Absorb, CloseStdout, Notice, StdinBroken, Die, WaitForData, ReadEOF,
                  PollExpires, PollTimeout, OnReaderDone, vars, TypeOK
    <2> QED BY <1>2, <2>1
  <1> QED BY <1>3, <1>4, <1>5, <1>6, <1>7, <1>8, <1>9, Steps, Others

-----------------------------------------------------------------------------
(* The ends of the inputs. *)

LEMMA EndsStep ==
  ASSUME TypeOK, NothingYet, Lives, FedInOrder, Ends, [Next]_vars
  PROVE  Ends'
  <1>1. ASSUME phase' \notin {"spawn_judge", "stdin_user", "stdin_judge", "forward"} PROVE Ends'
    BY <1>1 DEF Ends
  <1>2. ASSUME UNCHANGED <<phase, inOpen, violation, violation_action, taken, fed>>,
               \A q \in Process :
                 /\ Dead(q) => Dead(q)'
                 /\ outOpen'[q] => outOpen[q]
                 /\ wrote'[q] = wrote[q] \/ outOpen[q]
                 /\ seen[q] => seen'[q]
                 /\ reader[q] = "done" => reader'[q] = "done"
                 /\ reader'[q] \in {"ended", "done"} =>
                      \/ reader[q] \in {"ended", "done"}
                      \/ ~ outOpen'[q] /\ (taken'[q] = wrote'[q] \/ seen'[q])
        PROVE  Ends'
    BY <1>2, Others DEF Ends, Stop
  <1>3. ASSUME NEW p \in Process,
               \/ Write(p) \/ Absorb(p) \/ CloseStdout(p) \/ Notice(p)
               \/ (\E how \in Causes : Die(p, how))
               \/ JudgeExited \/ OnJudgeExit \/ UNCHANGED vars
        PROVE  Ends'
    <2>1. UNCHANGED <<phase, inOpen, violation, violation_action, taken, fed, reader>>
      BY <1>3 DEF Write, Absorb, CloseStdout, Notice, Die, JudgeExited, OnJudgeExit, vars
    <2>2. \A q \in Process : /\ outOpen'[q] => outOpen[q]
                             /\ wrote'[q] = wrote[q] \/ outOpen[q]
                             /\ seen[q] => seen'[q]
      BY <1>3 DEF Write, Absorb, CloseStdout, Notice, Die, JudgeExited, OnJudgeExit, vars, TypeOK
    <2>3. \A q \in Process : Dead(q) => Dead(q)'
      BY <1>3 DEF Write, Absorb, CloseStdout, Notice, Die, JudgeExited, OnJudgeExit, vars, TypeOK, Dead
    <2> QED BY <1>2, <2>1, <2>2, <2>3
  <1>4. ASSUME NEW p \in Process, WaitForData(p) \/ ReadEOF(p) \/ PollExpires(p) \/ PollTimeout(p)
        PROVE  Ends'
    <2>1. /\ UNCHANGED <<phase, inOpen, violation, violation_action, taken, fed, os, outOpen, wrote, seen>>
          /\ reader[p] \in {"reading", "waiting", "expired"}
          /\ \/ \E r \in {"reading", "waiting", "expired"} : reader' = [reader EXCEPT ![p] = r]
             \/ /\ reader' = [reader EXCEPT ![p] = "ended"]
                /\ ~ outOpen[p] /\ (taken[p] = wrote[p] \/ seen[p])
      BY <1>4 DEF WaitForData, ReadEOF, PollExpires, PollTimeout, EndReader, Lives
    <2>2. \A q \in Process : /\ reader[q] = "done" => reader'[q] = "done"
                             /\ reader'[q] \in {"ended", "done"} =>
                                  \/ reader[q] \in {"ended", "done"}
                                  \/ ~ outOpen[q] /\ (taken[q] = wrote[q] \/ seen[q])
      BY <2>1 DEF TypeOK
    <2> QED BY <1>2, <2>1, <2>2 DEF Dead
  <1>5. ASSUME NEW p \in Process, StdinBroken(p) PROVE Ends'
    <2>1. /\ UNCHANGED <<phase, os, reader, violation, violation_action, outOpen, taken, wrote, fed, seen>>
          /\ Dead(p) /\ \A q \in Process : inOpen'[q] = inOpen[q] \/ q = p
      BY <1>5 DEF StdinBroken, TypeOK
    <2> QED BY <2>1, Others DEF Ends, Stop, Dead
  <1>6. ASSUME NEW p \in Process, OnReaderDone(p) PROVE Ends'
    <2> DEFINE q == Other(p)
    <2>1. /\ UNCHANGED <<phase, os, violation, violation_action, outOpen, taken, wrote, fed, seen>>
          /\ reader[p] = "ended" /\ reader'[p] = "done" /\ reader'[q] = reader[q]
          /\ inOpen'[p] = inOpen[p] /\ q \in Process /\ q # p /\ Other(q) = p
      BY <1>6, Others DEF OnReaderDone, CloseStdin, TypeOK
    <2>2. phase \notin Early
      BY <2>1 DEF NothingYet
    <2> HIDE DEF q
    <2> QED BY <2>1, <2>2, Others DEF Ends, Stop, Dead, Early, q
  <1>7. ASSUME NEW p \in Process, Read(p) PROVE Ends'
    <2> DEFINE q == Other(p)
    <2>1. /\ Active(p) /\ phase = "forward" /\ q \in Process /\ q # p /\ Other(q) = p /\ Other(p) = q
          /\ \A r \in Process : r = p \/ r = q
      BY <1>7, ReadFrame, Others DEF NothingYet
    <2>2. /\ UNCHANGED <<os, wrote, outOpen, inOpen, phase, violation_action, seen>>
          /\ taken'[p] = taken[p] + 1 /\ taken'[q] = taken[q]
      <3>1. taken' = [taken EXCEPT ![p] = @ + 1]
        BY <1>7, ReadFrame
      <3>2. taken \in [Process -> 0..MaxOut]
        BY DEF TypeOK
      <3> QED BY <1>7, <2>1, <3>1, <3>2, ReadFrame
    <2> HIDE DEF q
    <2>3. inOpen[q] \/ Dead(q)
      BY <2>1 DEF Ends, Active
    <2>4. CASE Forwarding(p)
      <3>1. violation => violation'
        BY <1>7, <2>4 DEF Read, ReadUser, ReadJudge
      <3>2. reader'[p] = "reading" /\ reader'[q] = reader[q] /\ fed'[p] = fed[p]
        BY <2>1, <2>4, Others DEF Forwarding, Forward, TypeOK, q
      <3>3. ~ Dead(q) => fed'[q] = Append(fed[q], taken[p] + 1)
        BY <2>1, <2>3, <2>4 DEF Forwarding, Forward, TypeOK, q
      <3>4. fed[q] \in Seq(1..MaxOut) /\ taken[p] \in Nat
        BY <2>1 DEF TypeOK
      <3>5. ASSUME ~ (Stop /\ violation), ~ Dead(q) PROVE Len(fed'[q]) = taken'[p]
        <4>1. Len(fed[q]) = taken[p]
          BY <2>1, <3>5 DEF Ends
        <4> QED BY <2>2, <3>3, <3>4, <3>5, <4>1
      <3> QED BY <2>1, <2>2, <2>3, <3>1, <3>2, <3>5 DEF Ends, Stop, Dead, Active
    <2>5. CASE Stop /\ violation' = TRUE /\ Stopping /\ p = "user"
      <3>1. reader'[p] = "ended" /\ reader'[q] = reader[q]
        BY <2>1, <2>5 DEF Stopping, EndReader, TypeOK
      <3> QED BY <2>1, <2>2, <2>3, <2>5, <3>1 DEF Ends, Stop, Dead, Active
    <2> QED BY <1>7, <2>4, <2>5, ReadFrame
  <1>8. CASE SpawnUser \/ SpawnJudge
    <2>1. CASE SpawnUser /\ phase' # "close"
      BY <2>1, Others DEF SpawnUser, Spawn, Spawned, Fail, Ends, TypeOK
    <2>2. CASE SpawnJudge /\ phase' # "close"
      <3>1. /\ phase = "spawn_judge" /\ phase' = "stdin_user"
            /\ inOpen' = [inOpen EXCEPT !["judge"] = TRUE] /\ os' = [os EXCEPT !["judge"] = "run"]
        BY <2>2 DEF SpawnJudge, Spawn, Spawned, Fail
      <3> QED BY <3>1, Others DEF Ends, Dead, TypeOK
    <2> QED BY <1>1, <1>8, <2>1, <2>2
  <1>9. CASE SendUserStdin
    BY <1>9 DEF SendUserStdin, Ends, Dead
  <1>10. CASE StartForwarding
    <2>1. \A p \in Process : /\ fed'[p] = <<>> /\ taken'[p] = 0
                             /\ reader'[p] = "reading"
                             /\ inOpen'[p] \/ Dead(p)'
      BY <1>10 DEF StartForwarding, NothingYet, Early, Ends, All, Dead
    <2>2. phase' = "forward"
      BY <1>10 DEF StartForwarding
    <2> QED BY <2>1, <2>2, Others DEF Ends
  <1>11. CASE Finish \/ FireTimeout \/ HandleTimeout
    BY <1>1, <1>11 DEF Finish, FireTimeout, HandleTimeout
  <1>12. ASSUME NEW p \in Process, Cleanup(p) PROVE Ends'
    BY <1>1, <1>12 DEF Cleanup, CleanupClose, CleanupExited, CleanupKill, NextTarget
  <1> QED BY <1>3, <1>4, <1>5, <1>6, <1>7, <1>8, <1>9, <1>10, <1>11, <1>12, Steps, Others DEF Run

-----------------------------------------------------------------------------
(* The transcript. *)

\* The rounds after a chunk: one more, or one that got its answer.
LEMMA UserInputRounds ==
  ASSUME NEW t \in [rounds : Seq(Rounds), pending : Seq(Nat)],
         t.pending \in Seq(1..Len(t.rounds)), NEW n \in 1..MaxOut, NEW v \in BOOLEAN
  PROVE  LET u == AddUserInput(t, n, v)
         IN  /\ Len(u.rounds) = Len(t.rounds) + 1
             /\ \A i \in 1..Len(t.rounds) : u.rounds[i] = t.rounds[i]
             /\ LET new == u.rounds[Len(t.rounds) + 1]
                IN  new.user = <<n>> /\ new.judge = <<>> /\ new.violation = v
             /\ u.pending = Append(t.pending, Len(t.rounds) + 1)
  <1> DEFINE u == AddUserInput(t, n, v)
  <1>1. t.rounds \in Seq(Rounds) /\ Len(t.rounds) \in Nat /\ Round(<<n>>, <<>>, v) \in Rounds
    BY DEF Round, Rounds
  <1>2. u.rounds = Append(t.rounds, Round(<<n>>, <<>>, v)) /\ u.pending = Append(t.pending, Len(t.rounds) + 1)
    BY DEF AddUserInput
  <1> HIDE DEF u
  <1> QED BY <1>1, <1>2 DEF Round, u

LEMMA JudgeOutputRounds ==
  ASSUME NEW t \in [rounds : Seq(Rounds), pending : Seq(Nat)],
         t.pending \in Seq(1..Len(t.rounds)), NEW n \in 1..MaxOut
  PROVE  LET u == AddJudgeOutput(t, n)
         IN  /\ t.pending = <<>> =>
                  /\ Len(u.rounds) = Len(t.rounds) + 1
                  /\ \A i \in 1..Len(t.rounds) : u.rounds[i] = t.rounds[i]
                  /\ LET new == u.rounds[Len(t.rounds) + 1]
                     IN  new.user = <<>> /\ new.judge = <<n>> /\ new.violation = FALSE
                  /\ u.pending = <<>>
             /\ t.pending # <<>> =>
                  /\ Len(u.rounds) = Len(t.rounds)
                  /\ u.pending = Tail(t.pending)
                  /\ t.pending[1] \in 1..Len(t.rounds)
                  /\ \A i \in 1..Len(t.rounds) : i # t.pending[1] => u.rounds[i] = t.rounds[i]
                  /\ LET old == t.rounds[t.pending[1]]
                         new == u.rounds[t.pending[1]]
                     IN  /\ new.judge = Append(old.judge, n)
                         /\ new.user = old.user /\ new.violation = old.violation
  <1> DEFINE u == AddJudgeOutput(t, n)
  <1>0. t.rounds \in Seq(Rounds) /\ Len(t.rounds) \in Nat /\ Round(<<>>, <<n>>, FALSE) \in Rounds
        /\ DOMAIN t.rounds = 1..Len(t.rounds)
    BY DEF Round, Rounds
  <1>1. CASE t.pending = <<>>
    <2>1. u = [t EXCEPT !.rounds = Append(@, Round(<<>>, <<n>>, FALSE))]
      BY <1>1 DEF AddJudgeOutput
    <2>2. u.rounds = Append(t.rounds, Round(<<>>, <<n>>, FALSE)) /\ u.pending = t.pending
      BY <1>0, <2>1
    <2> DEFINE r == Round(<<>>, <<n>>, FALSE)
    <2> HIDE DEF r, u
    <2>3. /\ Len(u.rounds) = Len(t.rounds) + 1
          /\ \A i \in 1..Len(t.rounds) : u.rounds[i] = t.rounds[i]
          /\ u.rounds[Len(t.rounds) + 1] = r
      <3>1. u.rounds = Append(t.rounds, r) /\ r \in Rounds
        BY <1>0, <2>2 DEF r
      <3> QED BY <1>0, <3>1
    <2> QED BY <1>1, <2>2, <2>3 DEF Round, r, u
  <1>2. CASE t.pending # <<>>
    <2>1. Head(t.pending) = t.pending[1] /\ t.pending[1] \in 1..Len(t.rounds)
      BY <1>0, <1>2
    <2>2. u.rounds = [t.rounds EXCEPT ![t.pending[1]].judge = Append(@, n)]
          /\ u.pending = Tail(t.pending)
      BY <1>2, <2>1 DEF AddJudgeOutput
    <2>3. DOMAIN u.rounds = 1..Len(t.rounds) /\ u.rounds \in Seq(Rounds)
      <3>1. t.pending \in Seq(DOMAIN t.rounds)
        BY <1>0
      <3> QED BY <1>0, <1>2, <2>2, <3>1, JudgeOutputTyped
    <2>4. Len(u.rounds) = Len(t.rounds)
      BY <1>0, <2>3
    <2> DEFINE h == t.pending[1]
    <2>5. \A i \in 1..Len(t.rounds) : i # h => u.rounds[i] = t.rounds[i]
      BY <1>0, <2>1, <2>2
    <2>6. u.rounds[h] = [t.rounds[h] EXCEPT !.judge = Append(@, n)]
      BY <1>0, <2>1, <2>2
    <2>7. t.rounds[h] \in [user : Seq(1..MaxOut), judge : Seq(1..MaxOut), violation : BOOLEAN]
      <3>1. t.rounds[h] \in Rounds
        BY <1>0, <2>1
      <3> QED BY <3>1 DEF Rounds
    <2>8. /\ u.rounds[h].judge = Append(t.rounds[h].judge, n)
          /\ u.rounds[h].user = t.rounds[h].user /\ u.rounds[h].violation = t.rounds[h].violation
      BY <2>6, <2>7
    <2> HIDE DEF u, h
    <2> QED BY <1>2, <2>1, <2>2, <2>4, <2>5, <2>8 DEF u, h
  <1> QED BY <1>1, <1>2

\* The waiting rounds, in order, after one more and after one less.
LEMMA OneMoreWaits ==
  ASSUME NEW k \in Nat, NEW n \in Nat, NEW P \in Seq(Nat), n = k + Len(P),
         \A i \in 1..Len(P) : P[i] = k + i
  PROVE  /\ Len(Append(P, n + 1)) = Len(P) + 1
         /\ \A i \in 1..Len(Append(P, n + 1)) : Append(P, n + 1)[i] = k + i
  <1>1. Len(Append(P, n + 1)) = Len(P) + 1
    OBVIOUS
  <1>2. \A i \in 1..(Len(P) + 1) : Append(P, n + 1)[i] = k + i
    OBVIOUS
  <1> QED BY <1>1, <1>2

LEMMA OneLessWaits ==
  ASSUME NEW k \in Nat, NEW P \in Seq(Nat), P # <<>>, \A i \in 1..Len(P) : P[i] = k + i
  PROVE  /\ P[1] = k + 1 /\ Len(Tail(P)) = Len(P) - 1 /\ Len(P) >= 1
         /\ \A i \in 1..Len(Tail(P)) : Tail(P)[i] = (k + 1) + i
  <1>1. Len(Tail(P)) = Len(P) - 1 /\ Len(P) >= 1
    OBVIOUS
  <1>2. \A i \in 1..(Len(P) - 1) : Tail(P)[i] = P[i + 1]
    OBVIOUS
  <1> QED BY <1>1, <1>2

\* The answers, in order, after one more.
LEMMA OneMoreAnswer ==
  ASSUME NEW k \in Nat, NEW R \in Seq(Rounds), NEW S \in Seq(Rounds), Len(S) = Len(R), k < Len(R),
         \A i \in 1..Len(R) : /\ i <= k => R[i].judge = <<i>>
                              /\ i > k => R[i].judge = <<>>,
         \A i \in 1..Len(R) : i # k + 1 => S[i] = R[i],
         S[k + 1].judge = Append(R[k + 1].judge, k + 1)
  PROVE  \A i \in 1..Len(S) : /\ i <= k + 1 => S[i].judge = <<i>>
                              /\ i > k + 1 => S[i].judge = <<>>
  <1>1. Append(<<>>, k + 1) = <<k + 1>>
    OBVIOUS
  <1>2. R[k + 1].judge = <<>>
    OBVIOUS
  <1>3. S[k + 1].judge = <<k + 1>>
    BY <1>1, <1>2
  <1> QED BY <1>3

\* A round more that waits, one more that does not, and one that is answered.
LEMMA WaitingRound ==
  ASSUME NEW k \in Nat, NEW R \in Seq(Rounds), NEW P \in Seq(Nat), Ordered(R, P, k),
         NEW S \in Seq(Rounds), Len(S) = Len(R) + 1, \A i \in 1..Len(R) : S[i] = R[i],
         S[Len(R) + 1].judge = <<>>
  PROVE  Ordered(S, Append(P, Len(R) + 1), k)
  <1> DEFINE n == Len(R)
             Q == Append(P, n + 1)
  <1>1. n = k + Len(P) /\ Len(P) \in Nat /\ n \in Nat /\ \A i \in 1..Len(P) : P[i] = k + i
    BY DEF Ordered
  <1> HIDE DEF n
  <1>2. Len(Q) = Len(P) + 1 /\ \A i \in 1..Len(Q) : Q[i] = k + i
    BY <1>1, OneMoreWaits
  <1> HIDE DEF Q
  <1>3. \A i \in 1..Len(S) : /\ i <= k => S[i].judge = <<i>>
                             /\ i > k => S[i].judge = <<>>
    BY <1>1 DEF Ordered, n
  <1>4. k = Len(S) - Len(Q)
    BY <1>1, <1>2 DEF n
  <1> QED BY <1>2, <1>3, <1>4 DEF Ordered, Q, n

LEMMA JudgeRound ==
  ASSUME NEW k \in Nat, NEW R \in Seq(Rounds), Ordered(R, <<>>, k),
         NEW S \in Seq(Rounds), Len(S) = Len(R) + 1, \A i \in 1..Len(R) : S[i] = R[i],
         S[Len(R) + 1].judge = <<k + 1>>
  PROVE  Ordered(S, <<>>, k + 1)
  BY DEF Ordered

LEMMA AnsweredRound ==
  ASSUME NEW k \in Nat, NEW R \in Seq(Rounds), NEW P \in Seq(Nat), P # <<>>, Ordered(R, P, k),
         NEW S \in Seq(Rounds), Len(S) = Len(R),
         \A i \in 1..Len(R) : i # P[1] => S[i] = R[i],
         S[P[1]].judge = Append(R[P[1]].judge, k + 1)
  PROVE  Ordered(S, Tail(P), k + 1)
  <1>1. Len(R) = k + Len(P) /\ Len(P) \in Nat /\ \A i \in 1..Len(P) : P[i] = k + i
    BY DEF Ordered
  <1>2. /\ P[1] = k + 1 /\ Len(Tail(P)) = Len(P) - 1 /\ Len(P) >= 1
        /\ \A i \in 1..Len(Tail(P)) : Tail(P)[i] = (k + 1) + i
    BY <1>1, OneLessWaits
  <1>3. \A i \in 1..Len(S) : /\ i <= k + 1 => S[i].judge = <<i>>
                             /\ i > k + 1 => S[i].judge = <<>>
    <2>1. \A i \in 1..Len(R) : /\ i <= k => R[i].judge = <<i>>
                               /\ i > k => R[i].judge = <<>>
      BY DEF Ordered
    <2>2. k < Len(R)
      BY <1>1, <1>2
    <2>3. \A i \in 1..Len(R) : i # k + 1 => S[i] = R[i]
      BY <1>2
    <2>4. S[k + 1].judge = Append(R[k + 1].judge, k + 1)
      BY <1>2
    <2> QED BY <2>1, <2>2, <2>3, <2>4, OneMoreAnswer
  <1> DEFINE Q == Tail(P)
  <1>4. Len(Q) = Len(P) - 1 /\ \A i \in 1..Len(Q) : Q[i] = (k + 1) + i
    BY <1>2
  <1> HIDE DEF Q
  <1>5. k + 1 = Len(S) - Len(Q)
    BY <1>1, <1>4
  <1> QED BY <1>3, <1>4, <1>5 DEF Ordered, Q

LEMMA UserOrdered ==
  ASSUME NEW t \in [rounds : Seq(Rounds), pending : Seq(Nat)],
         t.pending \in Seq(1..Len(t.rounds)), NEW k \in Nat, Ordered(t.rounds, t.pending, k),
         NEW n \in 1..MaxOut, NEW v \in BOOLEAN
  PROVE  LET u == AddUserInput(t, n, v) IN Ordered(u.rounds, u.pending, k)
  <1> DEFINE R == t.rounds
             P == t.pending
             S == AddUserInput(t, n, v).rounds
  <1>1. R \in Seq(Rounds) /\ P \in Seq(Nat) /\ t.pending \in Seq(DOMAIN t.rounds)
    OBVIOUS
  <1>2. S \in Seq(Rounds)
    BY <1>1, UserInputTyped
  <1>3. /\ Len(S) = Len(R) + 1 /\ \A i \in 1..Len(R) : S[i] = R[i]
        /\ S[Len(R) + 1].judge = <<>>
        /\ AddUserInput(t, n, v).pending = Append(P, Len(R) + 1)
    BY UserInputRounds
  <1>4. Ordered(R, P, k)
    OBVIOUS
  <1> HIDE DEF R, P, S
  <1>5. Ordered(S, Append(P, Len(R) + 1), k)
    BY <1>1, <1>2, <1>3, <1>4, WaitingRound
  <1> QED BY <1>3, <1>5 DEF S

LEMMA JudgeOrdered ==
  ASSUME NEW t \in [rounds : Seq(Rounds), pending : Seq(Nat)],
         t.pending \in Seq(1..Len(t.rounds)), NEW k \in Nat, Ordered(t.rounds, t.pending, k),
         k + 1 \in 1..MaxOut
  PROVE  LET u == AddJudgeOutput(t, k + 1) IN Ordered(u.rounds, u.pending, k + 1)
  <1> DEFINE R == t.rounds
             P == t.pending
             S == AddJudgeOutput(t, k + 1).rounds
  <1>1. R \in Seq(Rounds) /\ P \in Seq(Nat) /\ t.pending \in Seq(DOMAIN t.rounds)
    OBVIOUS
  <1>2. S \in Seq(Rounds)
    BY <1>1, JudgeOutputTyped
  <1>3. Ordered(R, P, k)
    OBVIOUS
  <1>4. CASE P = <<>>
    <2>1. /\ Len(S) = Len(R) + 1 /\ \A i \in 1..Len(R) : S[i] = R[i]
          /\ S[Len(R) + 1].judge = <<k + 1>>
          /\ AddJudgeOutput(t, k + 1).pending = <<>>
      BY <1>4, JudgeOutputRounds
    <2> HIDE DEF R, P, S
    <2>2. Ordered(S, <<>>, k + 1)
      BY <1>1, <1>2, <1>3, <1>4, <2>1, JudgeRound
    <2> QED BY <2>1, <2>2 DEF S
  <1>5. CASE P # <<>>
    <2>1. /\ Len(S) = Len(R) /\ \A i \in 1..Len(R) : i # P[1] => S[i] = R[i]
          /\ S[P[1]].judge = Append(R[P[1]].judge, k + 1)
          /\ AddJudgeOutput(t, k + 1).pending = Tail(P)
      BY <1>5, JudgeOutputRounds
    <2> HIDE DEF R, P, S
    <2>2. Ordered(S, Tail(P), k + 1)
      BY <1>1, <1>2, <1>3, <1>5, <2>1, AnsweredRound
    <2> QED BY <2>1, <2>2 DEF S
  <1> QED BY <1>4, <1>5


\* The rounds show the first n chunks of the user.
UserIn(rounds, n) ==
  LET places == {i \in DOMAIN rounds : rounds[i].user # <<>>}
  IN  /\ \A i \in places : Len(rounds[i].user) = 1
      /\ {rounds[i].user[1] : i \in places} = 1..n
      /\ \A i, j \in places : i < j => rounds[i].user[1] < rounds[j].user[1]

LEMMA UserInShows == \A n \in Nat : Shows("user", n) <=> UserIn(transcript.rounds, n)
  BY DEF Shows, UserIn

LEMMA NoUserRound ==
  ASSUME NEW R \in Seq(Rounds), NEW S \in Seq(Rounds), NEW n \in Nat, UserIn(R, n),
         \A i \in DOMAIN R : i \in DOMAIN S /\ S[i].user = R[i].user,
         \A i \in DOMAIN S : i \in DOMAIN R \/ S[i].user = <<>>
  PROVE  UserIn(S, n)
  <1> DEFINE P == {i \in DOMAIN R : R[i].user # <<>>}
             Q == {i \in DOMAIN S : S[i].user # <<>>}
  <1>1. P = Q /\ \A i \in P : S[i].user = R[i].user
    OBVIOUS
  <1>2. /\ \A i \in P : Len(R[i].user) = 1
        /\ {R[i].user[1] : i \in P} = 1..n
        /\ \A i, j \in P : i < j => R[i].user[1] < R[j].user[1]
    BY DEF UserIn
  <1> HIDE DEF P, Q
  <1>3. {S[i].user[1] : i \in Q} = 1..n
    BY <1>1, <1>2
  <1>4. /\ \A i \in Q : Len(S[i].user) = 1
        /\ \A i, j \in Q : i < j => S[i].user[1] < S[j].user[1]
    BY <1>1, <1>2
  <1> QED BY <1>3, <1>4 DEF UserIn, Q

LEMMA UserRound ==
  ASSUME NEW R \in Seq(Rounds), NEW S \in Seq(Rounds), NEW n \in Nat, UserIn(R, n),
         Len(S) = Len(R) + 1, \A i \in 1..Len(R) : S[i].user = R[i].user,
         S[Len(R) + 1].user = <<n + 1>>
  PROVE  UserIn(S, n + 1)
  <1> DEFINE P == {i \in DOMAIN R : R[i].user # <<>>}
             Q == {i \in DOMAIN S : S[i].user # <<>>}
             m == Len(R) + 1
  <1>1. /\ m \in Nat /\ m \notin P /\ \A i \in P : i < m /\ S[i].user = R[i].user
        /\ S[m].user = <<n + 1>> /\ P \subseteq Nat
    OBVIOUS
  <1>2. Q = P \cup {m}
    <2>1. DOMAIN S = DOMAIN R \cup {m} /\ m \notin DOMAIN R
      OBVIOUS
    <2>2. \A i \in DOMAIN R : S[i].user = R[i].user
      OBVIOUS
    <2>3. S[m].user # <<>>
      OBVIOUS
    <2> HIDE DEF m
    <2> QED BY <2>1, <2>2, <2>3
  <1>3. /\ \A i \in P : Len(R[i].user) = 1
        /\ {R[i].user[1] : i \in P} = 1..n
        /\ \A i, j \in P : i < j => R[i].user[1] < R[j].user[1]
    BY DEF UserIn
  <1>4. \A i \in P : R[i].user[1] \in 1..n
    BY <1>3
  <1>5. Len(<<n + 1>>) = 1 /\ <<n + 1>>[1] = n + 1
    OBVIOUS
  <1> HIDE DEF P, Q, m
  <1>6. {S[i].user[1] : i \in Q} = {R[i].user[1] : i \in P} \cup {n + 1}
    BY <1>1, <1>2, <1>5
  <1>7. {S[i].user[1] : i \in Q} = 1..n + 1
    <2>1. 1..n + 1 = (1..n) \cup {n + 1}
      OBVIOUS
    <2> QED BY <1>3, <1>6, <2>1
  <1>8. \A i \in Q : Len(S[i].user) = 1
    BY <1>1, <1>2, <1>3, <1>5
  <1>9. ASSUME NEW i \in Q, NEW j \in Q, i < j PROVE S[i].user[1] < S[j].user[1]
    <2>1. CASE j = m
      BY <1>1, <1>2, <1>4, <1>5, <1>9, <2>1
    <2>2. CASE j # m
      BY <1>1, <1>2, <1>3, <1>9, <2>2
    <2> QED BY <2>1, <2>2
  <1> QED BY <1>7, <1>8, <1>9 DEF UserIn, Q

\* Answered in order, the first k chunks of the judge are shown, and the rounds
\* without an answer are those that wait.
LEMMA JudgeShown ==
  ASSUME NEW R \in Seq(Rounds), NEW P \in Seq(Nat), NEW k \in Nat, Ordered(R, P, k)
  PROVE  LET places == {i \in DOMAIN R : R[i].judge # <<>>}
         IN  /\ \A i \in places : Len(R[i].judge) = 1
             /\ {R[i].judge[1] : i \in places} = 1..k
             /\ \A i, j \in places : i < j => R[i].judge[1] < R[j].judge[1]
             /\ \A i \in DOMAIN R : R[i].judge = <<>> <=> i \in ToSet(P)
  <1> DEFINE Q == {i \in DOMAIN R : R[i].judge # <<>>}
  <1>1. /\ Len(R) = k + Len(P) /\ Len(R) \in Nat /\ Len(P) \in Nat /\ DOMAIN R = 1..Len(R)
        /\ \A i \in 1..Len(P) : P[i] = k + i
        /\ \A i \in 1..Len(R) : /\ i <= k => R[i].judge = <<i>>
                                /\ i > k => R[i].judge = <<>>
    BY DEF Ordered
  <1>2. ASSUME NEW i \in 1..k
        PROVE  i \in DOMAIN R /\ R[i].judge # <<>> /\ Len(R[i].judge) = 1 /\ R[i].judge[1] = i
    <2>1. i \in DOMAIN R /\ R[i].judge = <<i>>
      BY <1>1
    <2>2. Len(<<i>>) = 1 /\ <<i>>[1] = i /\ <<i>> # <<>>
      OBVIOUS
    <2> QED BY <2>1, <2>2
  <1>3. Q = 1..k
    <2>1. \A i \in DOMAIN R : i \in 1..k \/ R[i].judge = <<>>
      BY <1>1
    <2> QED BY <1>2, <2>1
  <1>4. \A i \in Q : Len(R[i].judge) = 1 /\ R[i].judge[1] = i
    BY <1>2, <1>3
  <1>5. {R[i].judge[1] : i \in Q} = 1..k
    BY <1>3, <1>4
  <1>6. \A i \in DOMAIN R : R[i].judge = <<>> <=> i \in k + 1..k + Len(P)
    <2>1. DOMAIN R = 1..k + Len(P)
      BY <1>1
    <2>2. \A i \in DOMAIN R : R[i].judge = <<>> <=> i \notin Q
      OBVIOUS
    <2> HIDE DEF Q
    <2> QED BY <1>1, <1>3, <2>1, <2>2
  <1>7. ToSet(P) = k + 1..k + Len(P)
    <2>1. ToSet(P) = {P[i] : i \in 1..Len(P)}
      BY DEF ToSet
    <2>2. \A j \in k + 1..k + Len(P) : j - k \in 1..Len(P) /\ P[j - k] = j
      BY <1>1
    <2>3. \A i \in 1..Len(P) : P[i] \in k + 1..k + Len(P)
      BY <1>1
    <2> QED BY <2>1, <2>2, <2>3
  <1> HIDE DEF Q
  <1> QED BY <1>3, <1>4, <1>5, <1>6, <1>7 DEF Q


LEMMA TranscriptParts ==
  TypeOK => /\ transcript \in [rounds : Seq(Rounds), pending : Seq(Nat)]
            /\ transcript.pending \in Seq(1..Len(transcript.rounds))
            /\ transcript.rounds \in Seq(Rounds) /\ transcript.pending \in Seq(Nat)
  <1> SUFFICES ASSUME TypeOK
               PROVE  /\ transcript \in [rounds : Seq(Rounds), pending : Seq(Nat)]
                      /\ transcript.pending \in Seq(1..Len(transcript.rounds))
                      /\ transcript.rounds \in Seq(Rounds) /\ transcript.pending \in Seq(Nat)
    OBVIOUS
  <1>1. /\ transcript \in [rounds : Seq(Rounds), pending : Seq(DOMAIN transcript.rounds)]
        /\ transcript.rounds \in Seq(Rounds) /\ transcript.pending \in Seq(DOMAIN transcript.rounds)
    BY DEF TypeOK
  <1>2. DOMAIN transcript.rounds = 1..Len(transcript.rounds)
    BY <1>1
  <1> QED BY <1>1, <1>2

LEMMA Faithful == TypeOK /\ RoundsInOrder /\ UserShown => TranscriptFaithful
  <1> SUFFICES ASSUME TypeOK, RoundsInOrder, UserShown, RecordTranscript
               PROVE  TranscriptFaithful
    BY DEF TranscriptFaithful
  <1>1. /\ taken["judge"] \in Nat /\ Ordered(transcript.rounds, transcript.pending, taken["judge"])
        /\ transcript.rounds \in Seq(Rounds) /\ transcript.pending \in Seq(Nat)
    BY TranscriptParts, Others DEF TypeOK, RoundsInOrder
  <1>2. /\ Shows("judge", taken["judge"])
        /\ \A i \in DOMAIN transcript.rounds :
             transcript.rounds[i].judge = <<>> <=> i \in ToSet(transcript.pending)
    BY <1>1, JudgeShown DEF Shows
  <1> QED BY <1>2 DEF TranscriptFaithful, UserShown

\* Only reading records; a reader that stopped does not start again.
LEMMA OnlyReads ==
  ASSUME TypeOK, NothingYet, [Next]_vars, \A p \in Process : ~ Read(p)
  PROVE  /\ UNCHANGED <<violation, transcript, taken, violation_action>>
         /\ Active("user")' => Active("user") \/ phase \in Early
  <1>1. ASSUME NEW p \in Process,
               \/ WaitForData(p) \/ ReadEOF(p) \/ PollExpires(p) \/ PollTimeout(p) \/ OnReaderDone(p)
        PROVE  /\ UNCHANGED <<violation, transcript, taken, violation_action>>
               /\ Active("user")' => Active("user")
    BY <1>1, Others DEF WaitForData, ReadEOF, PollExpires, PollTimeout, OnReaderDone, EndReader, Active, TypeOK
  <1>2. CASE Run
    BY <1>2, Others DEF Run, SpawnUser, SpawnJudge, Spawn, Spawned, Fail, SendUserStdin, Early,
           StartForwarding, FireTimeout, Finish, HandleTimeout, Active
  <1>3. ASSUME NEW p \in Process,
               \/ Write(p) \/ Absorb(p) \/ CloseStdout(p) \/ Notice(p) \/ StdinBroken(p)
               \/ (\E how \in Causes : Die(p, how))
               \/ JudgeExited \/ OnJudgeExit \/ Cleanup(p) \/ UNCHANGED vars
        PROVE  UNCHANGED <<violation, transcript, taken, violation_action, reader>>
    BY <1>3 DEF Write, Absorb, CloseStdout, Notice, StdinBroken, Die, JudgeExited, OnJudgeExit,
                Cleanup, CleanupClose, CleanupExited, CleanupKill, vars
  <1> QED BY <1>1, <1>2, <1>3, Steps, Others DEF Active

\* What a chunk that is read does to the record.
LEMMA ReadRecords ==
  ASSUME TypeOK, NEW p \in Process, Read(p)
  PROVE  LET n == taken[p] + 1
         IN  /\ n \in 1..MaxOut /\ taken[p] \in Nat /\ taken'[p] = n
             /\ \A q \in Process : q # p => taken'[q] = taken[q] /\ reader'[q] = reader[q]
             /\ Active(p) /\ UNCHANGED violation_action /\ (violation => violation')
             /\ p = "judge" => UNCHANGED violation /\ Record(AddJudgeOutput(transcript, n))
             /\ p = "user" =>
                  \/ /\ Record(AddUserInput(transcript, n, n \in Bad))
                     /\ violation' = (violation \/ n \in Bad)
                  \/ /\ Stop /\ violation' /\ ~ Active(p)'
                     /\ \/ Record(AddUserInput(transcript, n, TRUE))
                        \/ (\E q \in Process : seen[q]) /\ UNCHANGED transcript
  <1> DEFINE n == taken[p] + 1
  <1>1. /\ taken \in [Process -> 0..MaxOut] /\ wrote[p] \in 0..MaxOut /\ MaxOut \in Nat
        /\ taken[p] < wrote[p] /\ taken' = [taken EXCEPT ![p] = n] /\ Active(p)
        /\ UNCHANGED violation_action
    BY ReadFrame, ProxyAssumption DEF TypeOK
  <1>2. /\ n \in 1..MaxOut /\ taken[p] \in Nat /\ taken'[p] = n
        /\ \A q \in Process : q # p => taken'[q] = taken[q]
    BY <1>1
  <1>3. CASE p = "judge"
    <2>1. /\ Record(AddJudgeOutput(transcript, n)) /\ Forwarding(p) /\ UNCHANGED violation
      BY <1>3 DEF Read, ReadJudge
    <2>2. \A q \in Process : q # p => reader'[q] = reader[q]
      BY <2>1 DEF Forwarding, TypeOK
    <2> QED BY <1>1, <1>2, <1>3, <2>1, <2>2
  <1>4. CASE p = "user" /\ n \in Bad /\ Stop
    <2>1. violation' = TRUE /\ Stopping
      BY <1>4 DEF Read, ReadUser
    <2>2. reader'[p] = "ended" /\ \A q \in Process : q # p => reader'[q] = reader[q]
      BY <1>4, <2>1 DEF Stopping, EndReader, TypeOK
    <2>3. \/ Record(AddUserInput(transcript, n, TRUE))
          \/ (\E q \in Process : seen[q]) /\ UNCHANGED transcript
      BY <1>4, <2>1, Others DEF Stopping
    <2> QED BY <1>1, <1>2, <1>4, <2>1, <2>2, <2>3 DEF Active
  <1>5. CASE p = "user" /\ ~ (n \in Bad /\ Stop)
    <2>1. /\ violation' = (violation \/ n \in Bad)
          /\ Record(AddUserInput(transcript, n, n \in Bad))
          /\ Forwarding(p)
      BY <1>5 DEF Read, ReadUser
    <2>2. \A q \in Process : q # p => reader'[q] = reader[q]
      BY <2>1 DEF Forwarding, TypeOK
    <2> QED BY <1>1, <1>2, <1>5, <2>1, <2>2
  <1> QED BY <1>3, <1>4, <1>5, Others


LEMMA RoundsStep ==
  ASSUME TypeOK, NothingYet, RoundsInOrder, [Next]_vars
  PROVE  RoundsInOrder'
  <1> SUFFICES ASSUME RecordTranscript
               PROVE  Ordered(transcript'.rounds, transcript'.pending, taken'["judge"])
    BY DEF RoundsInOrder
  <1>1. /\ Ordered(transcript.rounds, transcript.pending, taken["judge"])
        /\ taken["judge"] \in Nat
    BY Others DEF RoundsInOrder, TypeOK
  <1>2. CASE \A p \in Process : ~ Read(p)
    BY <1>1, <1>2, OnlyReads
  <1>3. CASE Read("user")
    <2>1. taken'["judge"] = taken["judge"] /\ taken["user"] + 1 \in 1..MaxOut
      BY <1>3, ReadRecords, Others
    <2>2. \/ UNCHANGED transcript
          \/ \E v \in BOOLEAN : transcript' = AddUserInput(transcript, taken["user"] + 1, v)
      <3>1. (taken["user"] + 1 \in Bad) \in BOOLEAN
        OBVIOUS
      <3> QED BY <1>3, <3>1, ReadRecords, Others DEF Record
    <2> QED BY <1>1, <2>1, <2>2, UserOrdered, TranscriptParts
  <1>4. CASE Read("judge")
    <2>1. /\ transcript' = AddJudgeOutput(transcript, taken["judge"] + 1)
          /\ taken'["judge"] = taken["judge"] + 1 /\ taken["judge"] + 1 \in 1..MaxOut
      BY <1>4, ReadRecords, Others DEF Record
    <2> QED BY <1>1, <2>1, JudgeOrdered, TranscriptParts
  <1> QED BY <1>2, <1>3, <1>4, Others

\* The user's chunks after one of the user and after one of the judge.
LEMMA UserInGrows ==
  ASSUME NEW t \in [rounds : Seq(Rounds), pending : Seq(Nat)],
         t.pending \in Seq(1..Len(t.rounds)), NEW n \in Nat, UserIn(t.rounds, n),
         n + 1 \in 1..MaxOut, NEW v \in BOOLEAN
  PROVE  UserIn(AddUserInput(t, n + 1, v).rounds, n + 1)
  <1> DEFINE R == t.rounds
             S == AddUserInput(t, n + 1, v).rounds
  <1>1. R \in Seq(Rounds) /\ t.pending \in Seq(DOMAIN t.rounds) /\ UserIn(R, n)
    OBVIOUS
  <1>2. S \in Seq(Rounds)
    BY <1>1, UserInputTyped
  <1>3. /\ Len(S) = Len(R) + 1 /\ \A i \in 1..Len(R) : S[i] = R[i]
        /\ S[Len(R) + 1].user = <<n + 1>>
    BY UserInputRounds
  <1> HIDE DEF R, S
  <1>4. UserIn(S, n + 1)
    BY <1>1, <1>2, <1>3, UserRound
  <1> QED BY <1>4 DEF S

LEMMA UserInStays ==
  ASSUME NEW t \in [rounds : Seq(Rounds), pending : Seq(Nat)],
         t.pending \in Seq(1..Len(t.rounds)), NEW n \in Nat, UserIn(t.rounds, n),
         NEW m \in 1..MaxOut
  PROVE  UserIn(AddJudgeOutput(t, m).rounds, n)
  <1> DEFINE R == t.rounds
             S == AddJudgeOutput(t, m).rounds
  <1>1. R \in Seq(Rounds) /\ t.pending \in Seq(DOMAIN t.rounds) /\ UserIn(R, n)
    OBVIOUS
  <1>2. S \in Seq(Rounds)
    BY <1>1, JudgeOutputTyped
  <1>3. /\ \A i \in 1..Len(R) : i \in 1..Len(S) /\ S[i].user = R[i].user
        /\ \A i \in 1..Len(S) : i \in 1..Len(R) \/ S[i].user = <<>>
    <2>1. CASE t.pending = <<>>
      <3>1. /\ Len(S) = Len(R) + 1 /\ \A i \in 1..Len(R) : S[i] = R[i]
            /\ S[Len(R) + 1].user = <<>>
        BY <2>1, JudgeOutputRounds
      <3> HIDE DEF R, S
      <3> QED BY <1>1, <3>1
    <2>2. CASE t.pending # <<>>
      <3>1. /\ Len(S) = Len(R)
            /\ \A i \in 1..Len(R) : i # t.pending[1] => S[i] = R[i]
            /\ S[t.pending[1]].user = R[t.pending[1]].user
        BY <2>2, JudgeOutputRounds
      <3> HIDE DEF R, S
      <3> QED BY <1>1, <3>1
    <2> QED BY <2>1, <2>2
  <1> HIDE DEF R, S
  <1>4. DOMAIN R = 1..Len(R) /\ DOMAIN S = 1..Len(S)
    BY <1>1, <1>2
  <1>5. UserIn(S, n)
    BY <1>1, <1>2, <1>3, <1>4, NoUserRound
  <1> QED BY <1>5 DEF S

LEMMA UserShownStep ==
  ASSUME TypeOK, NothingYet, UserShown, [Next]_vars
  PROVE  UserShown'
  <1> SUFFICES ASSUME RecordTranscript PROVE UserShown'
    BY DEF UserShown
  <1> DEFINE In(n) == UserIn(transcript.rounds, n)
  <1>1. /\ taken["user"] \in Nat
        /\ In(taken["user"]) \/ (Stop /\ violation /\ taken["user"] # 0 /\ In(taken["user"] - 1))
        /\ Active("user") => In(taken["user"])
        /\ phase \in Early => In(taken["user"])
    <2>1. taken["user"] \in Nat
      BY Others DEF TypeOK
    <2>2. phase \in Early => ~ violation
      BY DEF NothingYet
    <2> QED BY <2>1, <2>2 DEF UserShown, Shows, UserIn
  <1>2. ASSUME \/ In(taken["user"])'
               \/ (Stop /\ violation /\ taken["user"] # 0 /\ In(taken["user"] - 1))',
               Active("user")' => In(taken["user"])'
        PROVE  UserShown'
    BY <1>2 DEF UserShown, Shows, UserIn
  <1>3. CASE \A p \in Process : ~ Read(p)
    <2>1. /\ UNCHANGED <<violation, transcript, taken, violation_action>>
          /\ Active("user")' => Active("user") \/ phase \in Early
      BY <1>3, OnlyReads
    <2> QED BY <1>1, <1>2, <2>1 DEF Stop
  <1>4. CASE Read("user")
    <2>1. /\ Active("user") /\ taken'["user"] = taken["user"] + 1 /\ taken["user"] + 1 \in 1..MaxOut
          /\ \/ \E v \in BOOLEAN : transcript' = AddUserInput(transcript, taken["user"] + 1, v)
             \/ Stop' /\ violation' /\ ~ Active("user")' /\ UNCHANGED transcript
      <3>1. (taken["user"] + 1 \in Bad) \in BOOLEAN
        OBVIOUS
      <3> QED BY <1>4, <3>1, ReadRecords, Others DEF Record, Stop
    <2>2. CASE \E v \in BOOLEAN : transcript' = AddUserInput(transcript, taken["user"] + 1, v)
      <3>1. In(taken["user"])'
        BY <1>1, <2>1, <2>2, UserInGrows, TranscriptParts
      <3> QED BY <1>2, <3>1
    <2>3. CASE Stop' /\ violation' /\ ~ Active("user")' /\ UNCHANGED transcript
      <3>1. taken'["user"] - 1 = taken["user"] /\ taken'["user"] # 0
        BY <1>1, <2>1
      <3> QED BY <1>1, <1>2, <2>1, <2>3, <3>1
    <2> QED BY <2>1, <2>2, <2>3
  <1>5. CASE Read("judge")
    <2>1. /\ transcript' = AddJudgeOutput(transcript, taken["judge"] + 1)
          /\ taken["judge"] + 1 \in 1..MaxOut
          /\ taken'["user"] = taken["user"] /\ reader'["user"] = reader["user"]
          /\ UNCHANGED <<violation, violation_action>>
      BY <1>5, ReadRecords, Others DEF Record
    <2>2. \A n \in Nat : In(n) => In(n)'
      BY <2>1, UserInStays, TranscriptParts
    <2>3. taken["user"] # 0 => taken["user"] - 1 \in Nat
      BY <1>1
    <2> QED BY <1>1, <1>2, <2>1, <2>2, <2>3 DEF Stop, Active
  <1> QED BY <1>3, <1>4, <1>5, Others


LEMMA MarkedByUser ==
  ASSUME NEW t \in [rounds : Seq(Rounds), pending : Seq(Nat)],
         t.pending \in Seq(1..Len(t.rounds)), NEW n \in 1..MaxOut, NEW v \in BOOLEAN,
         Marked(t.rounds) \/ v
  PROVE  Marked(AddUserInput(t, n, v).rounds)
  <1> DEFINE R == t.rounds
             S == AddUserInput(t, n, v).rounds
  <1>1. R \in Seq(Rounds) /\ t.pending \in Seq(DOMAIN t.rounds) /\ (Marked(R) \/ v)
    OBVIOUS
  <1>2. S \in Seq(Rounds)
    BY <1>1, UserInputTyped
  <1>3. /\ Len(S) = Len(R) + 1 /\ \A i \in 1..Len(R) : S[i] = R[i]
        /\ S[Len(R) + 1].violation = v
    BY UserInputRounds
  <1> HIDE DEF R, S
  <1>4. DOMAIN R = 1..Len(R) /\ Len(R) \in Nat /\ DOMAIN S = 1..Len(R) + 1
    BY <1>1, <1>2, <1>3
  <1>5. CASE Marked(R)
    <2>1. \A i \in DOMAIN R : i \in DOMAIN S /\ S[i] = R[i]
      BY <1>3, <1>4
    <2> QED BY <1>5, <2>1 DEF Marked, S
  <1>6. CASE v
    <2>1. Len(R) + 1 \in DOMAIN S
      BY <1>4
    <2> QED BY <1>3, <1>6, <2>1 DEF Marked, S
  <1> QED BY <1>1, <1>5, <1>6

LEMMA MarkedByJudge ==
  ASSUME NEW t \in [rounds : Seq(Rounds), pending : Seq(Nat)],
         t.pending \in Seq(1..Len(t.rounds)), NEW n \in 1..MaxOut, Marked(t.rounds)
  PROVE  Marked(AddJudgeOutput(t, n).rounds)
  <1> DEFINE R == t.rounds
             S == AddJudgeOutput(t, n).rounds
  <1>1. R \in Seq(Rounds) /\ t.pending \in Seq(DOMAIN t.rounds) /\ Marked(R)
    OBVIOUS
  <1>2. S \in Seq(Rounds)
    BY <1>1, JudgeOutputTyped
  <1>3. \A i \in 1..Len(R) : i \in 1..Len(S) /\ S[i].violation = R[i].violation
    <2>1. CASE t.pending = <<>>
      <3>1. Len(S) = Len(R) + 1 /\ \A i \in 1..Len(R) : S[i] = R[i]
        BY <2>1, JudgeOutputRounds
      <3> HIDE DEF R, S
      <3> QED BY <1>1, <3>1
    <2>2. CASE t.pending # <<>>
      <3>1. /\ Len(S) = Len(R)
            /\ \A i \in 1..Len(R) : i # t.pending[1] => S[i] = R[i]
            /\ S[t.pending[1]].violation = R[t.pending[1]].violation
        BY <2>2, JudgeOutputRounds
      <3> HIDE DEF R, S
      <3> QED BY <1>1, <3>1
    <2> QED BY <2>1, <2>2
  <1> HIDE DEF R, S
  <1>4. DOMAIN R = 1..Len(R) /\ DOMAIN S = 1..Len(S)
    BY <1>1, <1>2
  <1> QED BY <1>1, <1>3, <1>4 DEF Marked, S

\* How a program died stays.
LEMMA DeadStays ==
  ASSUME TypeOK, Lives, [Next]_vars, NEW q \in Process, Dead(q)
  PROVE  os'[q] = os[q]
  <1>1. os[q] # "run" /\ os[q] # "none"
    BY DEF Dead, Causes, SandboxCauses
  <1>2. ASSUME NEW p \in Process, NEW how \in Causes, Die(p, how) PROVE os'[q] = os[q]
    BY <1>1, <1>2 DEF Die, TypeOK
  <1>3. CASE SpawnUser \/ SpawnJudge
    <2>1. PICK p \in Process : /\ os[p] = "none"
                               /\ UNCHANGED os \/ os' = [os EXCEPT ![p] = "run"]
      BY <1>3, Others DEF SpawnUser, SpawnJudge, Spawn, Spawned, Lives
    <2> QED BY <1>1, <2>1 DEF TypeOK
  <1>4. CASE SendUserStdin \/ StartForwarding \/ Finish \/ FireTimeout \/ HandleTimeout
             \/ JudgeExited \/ OnJudgeExit \/ UNCHANGED vars
    BY <1>4 DEF SendUserStdin, StartForwarding, Finish, FireTimeout, HandleTimeout, JudgeExited,
                OnJudgeExit, vars
  <1>5. ASSUME NEW p \in Process,
               \/ Write(p) \/ Absorb(p) \/ CloseStdout(p) \/ Notice(p) \/ StdinBroken(p)
               \/ WaitForData(p) \/ Read(p) \/ ReadEOF(p) \/ PollExpires(p) \/ PollTimeout(p)
               \/ OnReaderDone(p) \/ Cleanup(p)
        PROVE  os'[q] = os[q]
    BY <1>5, ReadFrame DEF Write, Absorb, CloseStdout, Notice, StdinBroken, WaitForData, ReadEOF,
       PollExpires, PollTimeout, OnReaderDone, Cleanup, CleanupClose, CleanupExited, CleanupKill
  <1> QED BY <1>2, <1>3, <1>4, <1>5, Steps DEF Run

\* A verdict of a violation is given for one.
LEMMA VerdictStep ==
  ASSUME [Next]_vars
  PROVE  verdict' = verdict \/ verdict' # "FIREWALL_VIOLATION" \/ violation
  <1>1. CASE Run
    BY <1>1 DEF Run, SpawnUser, SpawnJudge, Spawn, Spawned, Fail, SendUserStdin, StartForwarding,
                Finish, BuildResult, FireTimeout, HandleTimeout
  <1>2. ASSUME NEW p \in Process,
               \/ Write(p) \/ Absorb(p) \/ CloseStdout(p) \/ Notice(p) \/ StdinBroken(p)
               \/ (\E how \in Causes : Die(p, how))
               \/ WaitForData(p) \/ Read(p) \/ ReadEOF(p) \/ PollExpires(p) \/ PollTimeout(p)
               \/ OnReaderDone(p) \/ Cleanup(p)
        PROVE  verdict' = verdict
    BY <1>2, ReadFrame DEF Write, Absorb, CloseStdout, Notice, StdinBroken, Die, WaitForData, ReadEOF,
       PollExpires, PollTimeout, OnReaderDone, Cleanup, CleanupClose, CleanupExited, CleanupKill
  <1>3. JudgeExited \/ OnJudgeExit \/ UNCHANGED vars => verdict' = verdict
    BY DEF JudgeExited, OnJudgeExit, vars
  <1> QED BY <1>1, <1>2, <1>3, Steps

LEMMA ExcusedStep ==
  ASSUME TypeOK, NothingYet, Lives, Caused, Excused, [Next]_vars
  PROVE  Excused'
  <1> DEFINE Ended == \E p \in Process : Dead(p) /\ os[p] # "term"
  <1>1. Ended => Ended'
    BY DeadStays DEF Dead
  <1>2. violation => violation'
    BY OnlyReads, ReadRecords
  <1>3. UNCHANGED violation_action
    BY OnlyReads, ReadRecords
  <1>4. verdict' = "FIREWALL_VIOLATION" => violation'
    BY <1>2, VerdictStep DEF Excused
  <1>5. ASSUME RecordTranscript, violation' PROVE Marked(transcript'.rounds) \/ (Stop' /\ Ended')
    <2>1. violation => Marked(transcript.rounds) \/ (Stop /\ Ended)
      BY <1>5 DEF Excused
    <2>2. CASE \A p \in Process : ~ Read(p)
      BY <1>1, <1>3, <1>5, <2>1, <2>2, OnlyReads DEF Stop
    <2>3. CASE Read("judge")
      <3>1. /\ transcript' = AddJudgeOutput(transcript, taken["judge"] + 1)
            /\ UNCHANGED violation /\ taken["judge"] + 1 \in 1..MaxOut
        BY <1>5, <2>3, ReadRecords, Others DEF Record
      <3>2. Marked(transcript.rounds) => Marked(transcript'.rounds)
        BY <3>1, MarkedByJudge, TranscriptParts
      <3> QED BY <1>1, <1>3, <1>5, <2>1, <3>1, <3>2 DEF Stop
    <2>4. ASSUME Read("user"),
                 NEW v \in BOOLEAN, transcript' = AddUserInput(transcript, taken["user"] + 1, v),
                 violation \/ v
          PROVE  Marked(transcript'.rounds) \/ (Stop' /\ Ended')
      <3>1. taken["user"] + 1 \in 1..MaxOut
        BY <2>4, ReadRecords, Others
      <3>2. Marked(transcript.rounds) \/ v => Marked(transcript'.rounds)
        BY <2>4, <3>1, MarkedByUser, TranscriptParts
      <3> QED BY <1>1, <1>3, <2>1, <2>4, <3>2 DEF Stop
    <2>5. ASSUME Read("user"), Stop, NEW q \in Process, seen[q], UNCHANGED transcript
          PROVE  Marked(transcript'.rounds) \/ (Stop' /\ Ended')
      <3>1. phase = "forward"
        BY <2>5, ReadFrame, Others DEF NothingYet
      <3>2. ~ violation => Ended
        <4>1. /\ \A p \in Process : seen[p] => Dead(p)
              /\ \A p \in Process : os[p] = "term" => sig[p] # "none"
          BY DEF Lives
        <4>2. /\ sig["user"] # "none" => seen["judge"] \/ violation
              /\ sig["judge"] # "none" => violation
          BY <3>1 DEF Caused, SignalsHaveCause
        <4> QED BY <2>5, <4>1, <4>2, Others
      <3> QED BY <1>1, <1>3, <2>1, <2>5, <3>2 DEF Stop
    <2>6. CASE Read("user")
      <3>1. CASE Record(AddUserInput(transcript, taken["user"] + 1, taken["user"] + 1 \in Bad))
                 /\ violation' = (violation \/ taken["user"] + 1 \in Bad)
        <4>1. (taken["user"] + 1 \in Bad) \in BOOLEAN
          OBVIOUS
        <4>2. violation \/ taken["user"] + 1 \in Bad
          BY <1>5, <3>1
        <4> QED BY <1>5, <2>4, <2>6, <3>1, <4>1, <4>2 DEF Record
      <3>2. CASE Stop /\ Record(AddUserInput(transcript, taken["user"] + 1, TRUE))
        BY <1>5, <2>4, <2>6, <3>2 DEF Record
      <3>3. CASE Stop /\ (\E q \in Process : seen[q]) /\ UNCHANGED transcript
        BY <2>5, <2>6, <3>3
      <3> QED BY <2>6, <3>1, <3>2, <3>3, ReadRecords, Others
    <2> QED BY <2>2, <2>3, <2>6, Others
  <1> QED BY <1>4, <1>5 DEF Excused, Stop

-----------------------------------------------------------------------------
(* The theorems. *)

LEMMA InvInit == Init => ProxyInv
  <1> SUFFICES ASSUME Init PROVE ProxyInv
    OBVIOUS
  <1>1. TypeOK
    BY TypeInit
  <1>2. /\ \A p \in Process : /\ os[p] = "none" /\ sig[p] = "none" /\ reader[p] = "off" /\ taken[p] = 0
                              /\ fed[p] = <<>> /\ ~ outOpen[p] /\ ~ inOpen[p] /\ ~ seen[p]
        /\ waiter = "off" /\ violation = FALSE /\ transcript = EmptyTranscript
        /\ phase = "spawn_user" /\ target = "user" /\ verdict = "none"
    BY DEF Init, All
  <1>3. NothingYet
    BY <1>2 DEF NothingYet, Early, Active
  <1>4. Lives
    BY <1>2, Others DEF Lives, Dead, Causes, SandboxCauses
  <1>5. FedInOrder
    <2>1. Len(<<>>) = 0
      OBVIOUS
    <2> QED BY <1>2, <2>1, Others DEF FedInOrder, Active
  <1>6. BadAhead
    <2>1. \A b \in Bad : b \in Nat /\ 0 < b
      BY ProxyAssumption
    <2>2. Len(fed["judge"]) = 0 /\ taken["user"] = 0
      BY <1>2, Others
    <2> QED BY <2>1, <2>2 DEF BadAhead
  <1>7. CleanedUp /\ Caused /\ Ends
    BY <1>2, Others DEF CleanedUp, NoOrphans, Cleaning, Caused, SignalsHaveCause, Ends
  <1>8. transcript.rounds = <<>> /\ transcript.pending = <<>>
    BY <1>2 DEF EmptyTranscript
  <1>9. RoundsInOrder
    <2>1. Len(<<>>) = 0 /\ taken["judge"] = 0
      BY <1>2, Others
    <2> QED BY <1>8, <2>1 DEF RoundsInOrder, Ordered
  <1>10. UserShown
    <2>1. Shows("user", 0)
      BY <1>8 DEF Shows
    <2> QED BY <1>2, <2>1, Others DEF UserShown
  <1>11. Excused
    BY <1>2 DEF Excused
  <1> QED BY <1>1, <1>3, <1>4, <1>5, <1>6, <1>7, <1>9, <1>10, <1>11 DEF ProxyInv

LEMMA InvStep == ProxyInv /\ [Next]_vars => ProxyInv'
  <1> SUFFICES ASSUME ProxyInv, [Next]_vars PROVE ProxyInv'
    OBVIOUS
  <1>1. /\ TypeOK /\ NothingYet /\ Lives /\ FedInOrder /\ BadAhead /\ CleanedUp
        /\ Caused /\ Ends /\ RoundsInOrder /\ UserShown /\ Excused
    BY DEF ProxyInv
  <1>2. TypeOK' /\ NothingYet' /\ Lives'
    BY <1>1, TypeStep, NothingYetStep, LivesStep
  <1>3. FedInOrder' /\ BadAhead'
    BY <1>1, FedStep, BadStep
  <1>4. CleanedUp' /\ Caused' /\ Ends'
    BY <1>1, CleanedStep, CausedStep, EndsStep
  <1>5. RoundsInOrder' /\ UserShown' /\ Excused'
    BY <1>1, RoundsStep, UserShownStep, ExcusedStep
  <1> QED BY <1>2, <1>3, <1>4, <1>5 DEF ProxyInv

(* The invariant of an execution: what has been read, fed, recorded and
   signalled at every point of run(). *)
THEOREM ProxyInvariant == Spec => []ProxyInv
  BY InvInit, InvStep, PTL DEF Spec

(* proxy.py:464-501: for any outputs, endings and timeouts, each program is fed
   a prefix of what the other one wrote. *)
THEOREM FedAPrefix == Spec => []PrefixFed
  <1>1. ProxyInv => PrefixFed
    BY FedPrefix DEF ProxyInv
  <1> QED BY <1>1, ProxyInvariant, PTL

(* proxy.py:471-485: under STOP nothing from the first offending chunk on
   reaches the judge. *)
THEOREM NothingBadFed == Spec => []StoppedAtViolation
  <1>1. ProxyInv => StoppedAtViolation
    BY StoppedBefore DEF ProxyInv
  <1> QED BY <1>1, ProxyInvariant, PTL

(* proxy.py:522-542: no program runs on when run() has returned. *)
THEOREM NobodyLeftBehind == Spec => []NoOrphans
  <1>1. ProxyInv => NoOrphans
    BY DEF ProxyInv, CleanedUp
  <1> QED BY <1>1, ProxyInvariant, PTL

(* proxy.py:398-410, 479-481: while the proxy forwards it signals a program for
   the judge's exit or a violation only. *)
THEOREM SignalledWithCause == Spec => []SignalsHaveCause
  <1>1. ProxyInv => SignalsHaveCause
    BY DEF ProxyInv, Caused
  <1> QED BY <1>1, ProxyInvariant, PTL

(* proxy.py:389-408, 446-456: a program is told the end of its input only when
   the other one can write no more; what it misses then is only what a reader
   dropped that knew of the exit. *)
THEOREM EndAfterTheEnd == Spec => []EOFAfterEnd
  <1>1. ProxyInv => EOFAfterEnd
    <2> SUFFICES ASSUME ProxyInv, NEW p \in Process, ToldTheEnd(p)
                 PROVE  ~ outOpen[Other(p)] /\ (fed[p] = FirstChunks(Other(p)) \/ seen[Other(p)])
      BY DEF EOFAfterEnd
    <2> DEFINE q == Other(p)
    <2>1. ~ outOpen[q] /\ (taken[q] = wrote[q] \/ seen[q]) /\ Len(fed[p]) = taken[q]
      BY Others DEF ProxyInv, Ends, ToldTheEnd
    <2>2. /\ fed[p] \in Seq(1..MaxOut) /\ \A i \in 1..Len(fed[p]) : fed[p][i] = i
          /\ wrote[q] \in Nat
      BY Others DEF ProxyInv, TypeOK, FedInOrder
    <2>3. taken[q] = wrote[q] => fed[p] = [n \in 1..wrote[q] |-> n]
      BY <2>1, <2>2
    <2> QED BY <2>1, <2>3 DEF FirstChunks
  <1> QED BY <1>1, ProxyInvariant, PTL

(* proxy.py:164-194: the transcript shows what was exchanged, in order, and no
   answer is given away before an older round has its own. *)
THEOREM TranscriptIsFaithful == Spec => []TranscriptFaithful
  <1>1. ProxyInv => TranscriptFaithful
    BY Faithful DEF ProxyInv
  <1> QED BY <1>1, ProxyInvariant, PTL

(* proxy.py:474-485: a violation that ends an execution is in its transcript,
   unless a program had ended by itself. *)
THEOREM ViolationIsShown == Spec => []ViolationShown
  <1>1. ProxyInv => ViolationShown
    BY DEF ProxyInv, Excused, Marked, ViolationShown
  <1> QED BY <1>1, ProxyInvariant, PTL
=============================================================================
