------------------------------ MODULE Firewall ------------------------------
(***************************************************************************)
(* FirewallRules.validate_data (camisole.proxy) over the reads of          *)
(* _read_process_stream: the user's output arrives cut into chunks at      *)
(* arbitrary bytes, each chunk is validated on its own, and the length of  *)
(* the current line is carried from one chunk to the next.                 *)
(***************************************************************************)
EXTENDS Naturals, Sequences, SequencesExt, FiniteSetsExt

CONSTANTS
  Byte,          \* the kinds of bytes the user writes, a subset of Kinds
  MaxStream,     \* bounds the user's output
  LineLimit,     \* the values of max_line_length; 0 (or None) switches the check off
  TotalLimit     \* the values of max_total_bytes; 0 (or None) switches the check off

\* An allowed letter, a forbidden one, a newline (allowed), and the two bytes
\* of an allowed character that UTF-8 encodes in two bytes.
Kinds == {"letter", "forbidden", "newline", "lead", "trail"}

ASSUME FirewallAssumption ==
  /\ Byte \subseteq Kinds
  /\ MaxStream \in Nat /\ LineLimit \subseteq Nat /\ TotalLimit \subseteq Nat

\* filter: allowed_chars is set; stop: violation_action is "STOP" (else "WARN").
Rules == [filter : BOOLEAN, line : LineLimit, total : TotalLimit, stop : BOOLEAN]

VARIABLES
  rules,         \* the FirewallRules of the test
  stream,        \* all that the user will have written
  at,            \* how many bytes of it the proxy has read
  forwarded,     \* how many it has forwarded; also total_user_bytes_sent
  lineLength,    \* _current_line_length
  found,         \* the kinds of violations reported
  stopped,       \* the reader returned because of a violation
  last           \* history: where the last read began, its alarm, and where the latest
                 \* earlier read with an alarm ended (0 if there is none)

vars == <<rules, stream, at, forwarded, lineLength, found, stopped, last>>

\* Where the latest read with an alarm ended.
Alarmed == IF last.alarm = "none" THEN last.since ELSE at

-----------------------------------------------------------------------------
(* validate_data *)

\* data.decode('utf-8') succeeds: no character is cut.
Decodable(data) ==
  \A i \in 1..Len(data) :
    /\ data[i] = "lead" => i < Len(data) /\ data[i + 1] = "trail"
    /\ data[i] = "trail" => i > 1 /\ data[i - 1] = "lead"

CharsValid(data) ==
  rules.filter => Decodable(data) /\ \A i \in 1..Len(data) : data[i] # "forbidden"

\* The counter after byte n of data, had it begun at start.
LineAfter(data, n, start) ==
  LET newlines == {i \in 1..n : data[i] = "newline"}
  IN  IF newlines = {} THEN start + n ELSE n - Max(newlines)

TooLong(data, start) ==
  {n \in 1..Len(data) : LineAfter(data, n, start) > rules.line}

ValidateForgetsLine(data) ==
  IF ~ CharsValid(data)
    THEN [violation |-> "INVALID_CHARACTER", line |-> lineLength]
  ELSE IF rules.line > 0 /\ TooLong(data, 0) # {}
    THEN [violation |-> "LINE_TOO_LONG", line |-> rules.line + 1]
  ELSE [violation |-> IF rules.total > 0 /\ forwarded + Len(data) > rules.total
                        THEN "TOTAL_BYTES_EXCEEDED" ELSE "none",
        line |-> LineAfter(data, Len(data), 0)]

ValidateKeepsLine(data) ==
  IF ~ CharsValid(data)
    THEN [violation |-> "INVALID_CHARACTER", line |-> lineLength]
  ELSE IF rules.line > 0 /\ TooLong(data, lineLength) # {}
    THEN [violation |-> "LINE_TOO_LONG", line |-> lineLength + Len(data)]
  ELSE [violation |-> IF rules.total > 0 /\ forwarded + Len(data) > rules.total
                        THEN "TOTAL_BYTES_EXCEEDED" ELSE "none",
        line |-> lineLength + Len(data)]

ValidateWarnsOnce(data) ==
  IF found # {} THEN [violation |-> "none", line |-> lineLength]
  ELSE IF ~ CharsValid(data)
    THEN [violation |-> "INVALID_CHARACTER", line |-> lineLength]
  ELSE IF rules.line > 0 /\ TooLong(data, lineLength) # {}
    THEN [violation |-> "LINE_TOO_LONG", line |-> rules.line + 1]
  ELSE [violation |-> IF rules.total > 0 /\ forwarded + Len(data) > rules.total
                        THEN "TOTAL_BYTES_EXCEEDED" ELSE "none",
        line |-> LineAfter(data, Len(data), lineLength)]

\* The violation, "none" if there is none, and the counter it leaves behind:
\* a character violation returns before the count, a long line in its middle.
Validate(data) ==
  IF ~ CharsValid(data)
    THEN [violation |-> "INVALID_CHARACTER", line |-> lineLength]
  ELSE IF rules.line > 0 /\ TooLong(data, lineLength) # {}
    THEN [violation |-> "LINE_TOO_LONG",
          line |-> LineAfter(data, Min(TooLong(data, lineLength)), lineLength)]
  ELSE [violation |-> IF rules.total > 0 /\ forwarded + Len(data) > rules.total
                        THEN "TOTAL_BYTES_EXCEEDED" ELSE "none",
        line |-> IF rules.line > 0 THEN LineAfter(data, Len(data), lineLength) ELSE lineLength]

-----------------------------------------------------------------------------
\* A UTF-8 text: the user's encoder writes whole characters.
Texts == {s \in BoundedSeq(Byte, MaxStream) : Decodable(s)}

Init ==
  /\ rules \in Rules
  /\ stream \in Texts
  /\ at = 0 /\ forwarded = 0 /\ lineLength = 0 /\ found = {} /\ stopped = FALSE
  /\ last = [from |-> 0, alarm |-> "none", since |-> 0]

ReadChunkForwardsFirst(n) ==
  LET data == SubSeq(stream, at + 1, n)
      result == Validate(data)
  IN  /\ ~ stopped
      /\ at' = n
      /\ lineLength' = result.line
      /\ found' = found \cup ({result.violation} \ {"none"})
      /\ forwarded' = forwarded + Len(data)
      /\ stopped' = (result.violation # "none" /\ rules.stop)
      /\ last' = [from |-> at, alarm |-> result.violation, since |-> Alarmed]
      /\ UNCHANGED <<rules, stream>>

ReadChunkPastEnd(n) ==
  /\ ~ stopped
  /\ at' = n + 1
  /\ UNCHANGED <<rules, stream, forwarded, lineLength, found, stopped, last>>

\* One read that returns data, up to byte n of the stream.
ReadChunk(n) ==
  LET data == SubSeq(stream, at + 1, n)
      result == Validate(data)
  IN  /\ ~ stopped
      /\ at' = n
      /\ lineLength' = result.line
      /\ found' = found \cup ({result.violation} \ {"none"})
      /\ IF result.violation # "none" /\ rules.stop
           THEN stopped' = TRUE /\ UNCHANGED forwarded
           ELSE forwarded' = forwarded + Len(data) /\ UNCHANGED stopped
      /\ last' = [from |-> at, alarm |-> result.violation, since |-> Alarmed]
      /\ UNCHANGED <<rules, stream>>

Next == \E n \in at + 1..Len(stream) : ReadChunk(n)

Spec == Init /\ [][Next]_vars

-----------------------------------------------------------------------------
Alarms == {"INVALID_CHARACTER", "LINE_TOO_LONG", "TOTAL_BYTES_EXCEEDED"}

(* The type invariant of the firewall. *)
TypeOK ==
  /\ rules \in Rules
  /\ stream \in Texts
  /\ at \in 0..Len(stream) /\ forwarded \in 0..at
  /\ lineLength \in 0..Len(stream)
  /\ found \subseteq Alarms
  /\ stopped \in BOOLEAN
  /\ last \in [from : 0..at, alarm : Alarms \cup {"none"}, since : 0..at]

\* The rules, as they read on a text that is not cut: its first n bytes ...
HasLongLine(n) ==
  /\ rules.line > 0
  /\ \E i, j \in 1..n : /\ j - i >= rules.line
                        /\ \A k \in i..j : stream[k] # "newline"

HasForbidden(n) == rules.filter /\ \E i \in 1..n : stream[i] = "forbidden"

\* ... break no rule.
Clean(n) == ~ HasLongLine(n) /\ ~ HasForbidden(n) /\ (rules.total > 0 => n <= rules.total)

(* proxy.py:118-140, 471-485: with STOP the judge only ever gets a beginning of
   the output that obeys the rules, however the reads cut it: a long line or
   an excess that no single chunk shows is stopped. *)
JudgeGetsCleanPrefix == rules.stop => Clean(forwarded)

(* proxy.py:464-487: no output that breaks a rule passes unnoticed, in either
   mode and for every way to cut it. *)
Detected == ~ Clean(at) => found # {}

\* What the last read brought: a forbidden character, a byte beyond the limit of
\* its line, a byte beyond the total; and whether one of its ends cut a character.
NewBytes == last.from + 1..at

BadCharacter == rules.filter /\ \E i \in NewBytes : stream[i] = "forbidden"

LongLine ==
  /\ rules.line > 0
  /\ \E j \in NewBytes : \E i \in 1..j : /\ j - i >= rules.line
                                         /\ \A k \in i..j : stream[k] # "newline"

Excess == rules.total > 0 /\ at > rules.total

CutCharacter == \E i \in {last.from, at} \ {0} : stream[i] = "lead"

\* The line in which an earlier read raised an alarm still went on when the last
\* read began: such a read leaves the counter where it stood.
Disturbed ==
  /\ last.since > 0
  /\ \A k \in last.since + 1..last.from + 1 : stream[k] # "newline"

(* proxy.py:100-145: each alarm is about something in the bytes just read,
   whatever was read before and however it was cut, with two exceptions: a
   character that a read cuts is taken for an invalid one, and an earlier alarm
   (with WARN) may make the line that it left unfinished too long. *)
AlarmHasCause ==
  /\ last.alarm = "INVALID_CHARACTER" => BadCharacter \/ (rules.filter /\ CutCharacter)
  /\ last.alarm = "LINE_TOO_LONG" => LongLine \/ Disturbed
  /\ last.alarm = "TOTAL_BYTES_EXCEEDED" => Excess

(* proxy.py:124-134: each read that takes a line beyond the limit raises an
   alarm, also the reads after a warning, as soon as the line is over that the
   warning left unfinished. *)
LongLineNoticed == LongLine => last.alarm # "none" \/ Disturbed
=============================================================================
