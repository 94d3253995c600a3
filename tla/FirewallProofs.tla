--------------------------- MODULE FirewallProofs ----------------------------
(***************************************************************************)
(* What the firewall guarantees for outputs of any length, cut anywhere,   *)
(* and for any limits.                                                     *)
(***************************************************************************)
EXTENDS Firewall, NumberLemmas, TLAPS

-----------------------------------------------------------------------------
(* Lines. *)

Bytes == Seq(Kinds)

\* The line that n bytes of s end with has len of them.
IsLine(s, n, len) ==
  /\ len \in 0..n
  /\ \A k \in n - len + 1..n : s[k] # "newline"
  /\ len = n \/ s[n - len] = "newline"

\* The counter after m bytes of a chunk is the length of the current line, if it
\* was so before or a line began in the chunk.
LEMMA LineCounted ==
  ASSUME NEW s \in Bytes, NEW a \in Nat, NEW n \in a + 1..Len(s), NEW start, NEW m \in 1..n - a,
         IsLine(s, a, start) \/ \E k \in a + 1..a + m : s[k] = "newline"
  PROVE  LET data == SubSeq(s, a + 1, n)
         IN  IsLine(s, a + m, LineAfter(data, m, start))
  <1> DEFINE data == SubSeq(s, a + 1, n)
             newlines == {i \in 1..m : data[i] = "newline"}
  <1>1. \A i \in 1..m : data[i] = s[a + i]
    BY DEF Bytes
  <1>3. CASE newlines = {}
    <2>1. \A i \in 1..m : s[a + i] # "newline"
      BY <1>1, <1>3
    <2>5. ASSUME NEW k \in a + 1..a + m PROVE s[k] # "newline"
      <3>1. k - a \in 1..m /\ a + (k - a) = k
        OBVIOUS
      <3> QED BY <2>1, <3>1
    <2>6. /\ start \in 0..a /\ \A k \in a - start + 1..a : s[k] # "newline"
          /\ start = a \/ s[a - start] = "newline"
      BY <2>5 DEF IsLine
    <2>2. ASSUME NEW k \in a - start + 1..a + m PROVE s[k] # "newline"
      <3>1. CASE k <= a
        BY <2>6, <3>1
      <3>2. CASE k > a
        BY <2>5, <2>6, <3>2
      <3> QED BY <2>6, <3>1, <3>2
    <2>3. IsLine(s, a + m, start + m)
      <3>1. (a + m) - (start + m) = a - start /\ start + m \in 0..a + m
        BY <2>6
      <3> QED BY <2>2, <2>6, <3>1 DEF IsLine
    <2>4. LineAfter(data, m, start) = start + m
      BY <1>3 DEF LineAfter
    <2> QED BY <2>3, <2>4
  <1>4. CASE newlines # {}
    <2> DEFINE x == Max(newlines)
    <2>1. newlines \in SUBSET (1..m) /\ m \in Nat
      OBVIOUS
    <2>2. x \in newlines /\ \A y \in newlines : y <= x
      <3> HIDE DEF newlines
      <3> QED BY <1>4, <2>1, Greatest
    <2>3. x \in 1..m /\ data[x] = "newline"
      BY <2>2
    <2>4. ASSUME NEW i \in x + 1..m PROVE data[i] # "newline"
      <3> HIDE DEF x, newlines, data
      <3>1. i \in 1..m /\ ~ (i <= x)
        BY <2>3
      <3> USE DEF newlines
      <3> QED BY <2>2, <3>1
    <2>5. x \in 1..m /\ s[a + x] = "newline" /\ \A i \in x + 1..m : s[a + i] # "newline"
      <3> HIDE DEF data, x
      <3>1. \A i \in x + 1..m : i \in 1..m
        BY <2>3
      <3> QED BY <1>1, <2>3, <2>4, <3>1
    <2>6. LineAfter(data, m, start) = m - x
      BY <1>4 DEF LineAfter
    <2> HIDE DEF x
    <2>7. ASSUME NEW k \in a + x + 1..a + m PROVE s[k] # "newline"
      <3>1. k - a \in x + 1..m /\ a + (k - a) = k
        BY <2>5
      <3> QED BY <2>5, <3>1
    <2>8. IsLine(s, a + m, m - x)
      <3>1. (a + m) - (m - x) = a + x /\ m - x \in 0..a + m
        BY <2>5
      <3> QED BY <2>5, <2>7, <3>1 DEF IsLine
    <2> QED BY <2>6, <2>8
  <1> QED BY <1>3, <1>4

\* The counter never exceeds what was read, whatever it began with.
LEMMA LineBounded ==
  ASSUME NEW data \in Bytes, NEW m \in Nat, NEW start \in Nat
  PROVE  LineAfter(data, m, start) \in 0..start + m
  <1> DEFINE newlines == {i \in 1..m : data[i] = "newline"}
  <1>1. CASE newlines = {}
    BY <1>1 DEF LineAfter
  <1>2. CASE newlines # {}
    <2>1. Max(newlines) \in 1..m
      BY <1>2, Greatest
    <2> QED BY <1>2, <2>1 DEF LineAfter
  <1> QED BY <1>1, <1>2

-----------------------------------------------------------------------------
(* The inductive invariant. *)

\* Nothing found yet: all that was read was forwarded and breaks no rule, and
\* the counter is the length of the current line.
Quiet ==
  found = {} =>
    /\ forwarded = at
    /\ Clean(at)
    /\ rules.line > 0 => IsLine(stream, at, lineLength)

\* With STOP the first violation is the last, and is not forwarded.
FirstIsLast == rules.stop => Clean(forwarded) /\ (~ stopped => found = {})

\* The counter is the length of the current line, or that line is still the one
\* that the latest alarm left.
Counted ==
  ~ stopped /\ rules.line > 0 =>
    \/ IsLine(stream, at, lineLength)
    \/ Alarmed > 0 /\ \A k \in Alarmed + 1..at : stream[k] # "newline"

\* As long as the reader goes on, all that was read was forwarded.
AllForwarded == ~ stopped => forwarded = at

FirewallInv ==
  /\ TypeOK
  /\ lineLength <= at
  /\ Quiet
  /\ FirstIsLast
  /\ AllForwarded
  /\ Counted
  /\ AlarmHasCause
  /\ LongLineNoticed

-----------------------------------------------------------------------------
(* One chunk. *)

Chunk(n) == SubSeq(stream, at + 1, n)

LEMMA StreamIsText ==
  ASSUME TypeOK
  PROVE  stream \in Bytes /\ Decodable(stream) /\ Len(stream) \in Nat /\ at \in Nat
  <1>1. stream \in UNION {[1..m -> Byte] : m \in 0..MaxStream} /\ Decodable(stream)
    BY DEF TypeOK, Texts, BoundedSeq, SeqOf
  <1>2. PICK m \in 0..MaxStream : stream \in [1..m -> Byte]
    BY <1>1
  <1>3. m \in Nat
    BY FirewallAssumption
  <1>4. stream \in Seq(Kinds)
    BY <1>2, <1>3, FirewallAssumption
  <1> QED BY <1>1, <1>4 DEF Bytes, TypeOK

LEMMA ChunkFacts ==
  ASSUME TypeOK, NEW n \in at + 1..Len(stream)
  PROVE  /\ n \in Nat /\ n > at
         /\ Chunk(n) \in Bytes
         /\ Len(Chunk(n)) = n - at
         /\ n - at \in 1..n
         /\ \A i \in 1..n - at : Chunk(n)[i] = stream[at + i] /\ at + i \in at + 1..n
         /\ \A k \in at + 1..n : k - at \in 1..n - at /\ Chunk(n)[k - at] = stream[k]
  <1>1. stream \in Seq(Kinds) /\ Len(stream) \in Nat /\ at \in Nat
    BY StreamIsText DEF Bytes
  <1>2. Chunk(n) \in Seq(Kinds) /\ Len(Chunk(n)) = n - at
    BY <1>1 DEF Chunk
  <1>3. \A i \in 1..n - at : Chunk(n)[i] = stream[at + i] /\ at + i \in at + 1..n
    BY <1>1 DEF Chunk
  <1>4. \A k \in at + 1..n : k - at \in 1..n - at /\ at + (k - at) = k
    BY <1>1
  <1> QED BY <1>1, <1>2, <1>3, <1>4 DEF Bytes

\* What can be wrong with the characters of a chunk of a text: one of them is
\* forbidden, or one is cut, at this end of the chunk or at the other.
LEMMA CharacterAlarm ==
  ASSUME TypeOK, NEW n \in at + 1..Len(stream), ~ CharsValid(Chunk(n))
  PROVE  rules.filter /\ \/ \E i \in at + 1..n : stream[i] = "forbidden"
                         \/ \E i \in {at, n} \ {0} : stream[i] = "lead"
  <1> DEFINE data == Chunk(n)
  <1>1. /\ n \in Nat /\ n > at /\ at \in Nat /\ Len(stream) \in Nat
        /\ Len(data) = n - at
        /\ \A i \in 1..n - at : data[i] = stream[at + i] /\ at + i \in at + 1..n
    BY ChunkFacts, StreamIsText
  <1>2. Decodable(stream)
    BY StreamIsText
  <1> HIDE DEF data
  <1>3. rules.filter /\ (~ Decodable(data) \/ \E i \in 1..Len(data) : data[i] = "forbidden")
    BY DEF CharsValid, data
  <1>4. ASSUME NEW i \in 1..Len(data), data[i] = "forbidden"
        PROVE  \E k \in at + 1..n : stream[k] = "forbidden"
    <2>1. stream[at + i] = "forbidden" /\ at + i \in at + 1..n
      BY <1>1, <1>4
    <2> QED BY <2>1
  <1>5. ASSUME NEW i \in 1..Len(data), data[i] = "lead",
               ~ (i < Len(data) /\ data[i + 1] = "trail")
        PROVE  stream[n] = "lead"
    <2>1. at + i \in 1..Len(stream) /\ stream[at + i] = "lead"
      BY <1>1, <1>5
    <2>2. stream[(at + i) + 1] = "trail"
      BY <1>2, <2>1 DEF Decodable
    <2>3. ASSUME i < Len(data) PROVE FALSE
      <3>1. i + 1 \in 1..n - at /\ at + (i + 1) = (at + i) + 1
        BY <1>1, <2>3
      <3> QED BY <1>1, <1>5, <2>2, <2>3, <3>1
    <2>4. at + i = n
      BY <1>1, <2>3
    <2> QED BY <2>1, <2>4
  <1>6. ASSUME NEW i \in 1..Len(data), data[i] = "trail",
               ~ (i > 1 /\ data[i - 1] = "lead")
        PROVE  at > 0 /\ stream[at] = "lead"
    <2>1. at + i \in 1..Len(stream) /\ stream[at + i] = "trail"
      BY <1>1, <1>6
    <2>2. at + i > 1 /\ stream[(at + i) - 1] = "lead"
      BY <1>2, <2>1 DEF Decodable
    <2>3. ASSUME i > 1 PROVE FALSE
      <3>1. i - 1 \in 1..n - at /\ at + (i - 1) = (at + i) - 1
        BY <1>1, <2>3
      <3> QED BY <1>1, <1>6, <2>2, <2>3, <3>1
    <2>4. i = 1
      BY <1>1, <2>3
    <2> QED BY <1>1, <2>2, <2>4
  <1> QED BY <1>1, <1>3, <1>4, <1>5, <1>6 DEF Decodable

\* Whatever line is counted in a chunk, the count is right, or the line is still
\* the one that the latest alarm left.
LEMMA ChunkCounted ==
  ASSUME TypeOK, Counted, ~ stopped, rules.line > 0, NEW n \in at + 1..Len(stream), NEW m \in 1..n - at
  PROVE  \/ IsLine(stream, at + m, LineAfter(Chunk(n), m, lineLength))
         \/ Alarmed > 0 /\ \A k \in Alarmed + 1..at + m : stream[k] # "newline"
  <1>1. n \in Nat /\ at \in Nat /\ stream \in Bytes
    BY ChunkFacts, StreamIsText
  <1>2. Alarmed \in 0..at
    BY <1>1 DEF TypeOK, Alarmed
  <1>3. CASE IsLine(stream, at, lineLength) \/ \E k \in at + 1..at + m : stream[k] = "newline"
    BY <1>1, <1>3, LineCounted DEF Chunk
  <1>4. CASE /\ ~ IsLine(stream, at, lineLength)
             /\ \A k \in at + 1..at + m : stream[k] # "newline"
    <2>1. Alarmed > 0 /\ \A k \in Alarmed + 1..at : stream[k] # "newline"
      BY <1>4 DEF Counted
    <2>2. ASSUME NEW k \in Alarmed + 1..at + m PROVE stream[k] # "newline"
      BY <1>1, <1>2, <1>4, <2>1
    <2> QED BY <2>1, <2>2
  <1> QED BY <1>3, <1>4

\* The line that an alarm left goes on: as Disturbed will say of this read.
Unfinished == Alarmed > 0 /\ \A k \in Alarmed + 1..at + 1 : stream[k] # "newline"

\* A byte in at + 1..n that makes a line too long.
LongLineUpTo(n) ==
  \E j \in at + 1..n : \E i \in 1..j : /\ j - i >= rules.line
                                       /\ \A k \in i..j : stream[k] # "newline"

\* A counter above the limit is a line above the limit.
LEMMA LineAlarm ==
  ASSUME TypeOK, Counted, ~ stopped, NEW n \in at + 1..Len(stream),
         rules.line > 0, TooLong(Chunk(n), lineLength) # {}
  PROVE  LongLineUpTo(n) \/ Unfinished
  <1>1. n \in Nat /\ at \in Nat /\ Len(Chunk(n)) = n - at /\ stream \in Bytes
    BY ChunkFacts, StreamIsText
  <1>2. PICK m \in 1..n - at : LineAfter(Chunk(n), m, lineLength) > rules.line
    BY <1>1 DEF TooLong
  <1> DEFINE len == LineAfter(Chunk(n), m, lineLength)
  <1>3. CASE IsLine(stream, at + m, len)
    <2>1. rules.line \in Nat
      BY FirewallAssumption DEF TypeOK, Rules
    <2>2. len > rules.line
      BY <1>2
    <2> HIDE DEF len
    <2>3. len \in 0..at + m /\ \A k \in (at + m) - len + 1..at + m : stream[k] # "newline"
      BY <1>3 DEF IsLine
    <2>4. /\ (at + m) - len + 1 \in 1..at + m /\ at + m \in at + 1..n
          /\ (at + m) - ((at + m) - len + 1) >= rules.line
      BY <1>1, <2>1, <2>2, <2>3
    <2> QED BY <2>3, <2>4 DEF LongLineUpTo
  <1>4. CASE Alarmed > 0 /\ \A k \in Alarmed + 1..at + m : stream[k] # "newline"
    <2>1. \A k \in Alarmed + 1..at + 1 : k \in Alarmed + 1..at + m
      BY <1>1 DEF TypeOK, Alarmed
    <2> QED BY <1>4, <2>1 DEF Unfinished
  <1> QED BY <1>3, <1>4, ChunkCounted

\* And a line above the limit a counter above it.
LEMMA LineNoticed ==
  ASSUME TypeOK, Counted, ~ stopped, NEW n \in at + 1..Len(stream),
         rules.line > 0, TooLong(Chunk(n), lineLength) = {}, LongLineUpTo(n)
  PROVE  Unfinished
  <1>1. /\ n \in Nat /\ at \in Nat /\ Len(Chunk(n)) = n - at /\ stream \in Bytes
        /\ rules.line \in Nat
    BY ChunkFacts, StreamIsText, FirewallAssumption DEF TypeOK, Rules
  <1>2. PICK j \in at + 1..n : \E i \in 1..j : /\ j - i >= rules.line
                                             /\ \A k \in i..j : stream[k] # "newline"
    BY DEF LongLineUpTo
  <1> DEFINE m == j - at
             len == LineAfter(Chunk(n), m, lineLength)
  <1>3. m \in 1..n - at /\ at + m = j
    BY <1>1
  <1>4. ~ (len > rules.line)
    BY <1>1, <1>3 DEF TooLong
  <1>5. ASSUME IsLine(stream, j, len) PROVE FALSE
    <2> HIDE DEF len, m
    <2>1. len \in 0..j /\ (len = j \/ stream[j - len] = "newline")
      BY <1>5 DEF IsLine
    <2>2. PICK i \in 1..j : j - i >= rules.line /\ \A k \in i..j : stream[k] # "newline"
      BY <1>2
    <2>3. len # j /\ j - len \in i..j
      BY <1>1, <1>4, <2>1, <2>2
    <2> QED BY <2>1, <2>2, <2>3
  <1>6. IsLine(stream, at + m, len) \/ (Alarmed > 0 /\ \A k \in Alarmed + 1..at + m : stream[k] # "newline")
    <2> HIDE DEF m
    <2> QED BY <1>3, ChunkCounted
  <1>7. Alarmed > 0 /\ \A k \in Alarmed + 1..j : stream[k] # "newline"
    <2> HIDE DEF m, len
    <2> QED BY <1>3, <1>5, <1>6
  <1>8. \A k \in Alarmed + 1..at + 1 : k \in Alarmed + 1..j
    BY <1>1 DEF TypeOK, Alarmed
  <1> QED BY <1>7, <1>8 DEF Unfinished

\* A chunk that passes adds nothing that breaks a rule.
LEMMA PassedIsClean ==
  ASSUME TypeOK, NEW n \in at + 1..Len(stream), forwarded = at, Clean(at),
         rules.line > 0 => IsLine(stream, at, lineLength),
         CharsValid(Chunk(n)),
         ~ (rules.line > 0 /\ TooLong(Chunk(n), lineLength) # {}),
         ~ (rules.total > 0 /\ forwarded + Len(Chunk(n)) > rules.total)
  PROVE  Clean(n)
  <1>1. /\ n \in Nat /\ at \in Nat /\ n > at /\ Len(Chunk(n)) = n - at /\ stream \in Bytes
        /\ \A k \in at + 1..n : k - at \in 1..n - at /\ Chunk(n)[k - at] = stream[k]
    BY ChunkFacts, StreamIsText
  <1>2. rules.line \in Nat /\ rules.total \in Nat
    BY FirewallAssumption DEF TypeOK, Rules
  <1>3. ASSUME rules.line > 0, NEW i \in 1..n, NEW j \in 1..n, j - i >= rules.line,
               \A k \in i..j : stream[k] # "newline"
        PROVE  FALSE
    <2>1. CASE j <= at
      <3>1. i \in 1..at /\ j \in 1..at
        BY <1>1, <1>2, <1>3, <2>1
      <3>2. HasLongLine(at)
        BY <1>3, <3>1 DEF HasLongLine
      <3> QED BY <3>2 DEF Clean
    <2>2. CASE j > at
      <3> DEFINE m == j - at
                 len == LineAfter(Chunk(n), m, lineLength)
      <3>1. m \in 1..n - at /\ at + m = j
        BY <1>1, <2>2
      <3>2. IsLine(stream, at + m, len)
        <4> HIDE DEF m
        <4> QED BY <1>1, <1>3, <3>1, LineCounted DEF Chunk
      <3>3. ~ (len > rules.line)
        BY <1>1, <1>3, <3>1 DEF TooLong
      <3> HIDE DEF len, m
      <3>4. len \in 0..j /\ (len = j \/ stream[j - len] = "newline")
        BY <3>1, <3>2 DEF IsLine
      <3>5. len # j /\ j - len \in i..j
        BY <1>1, <1>2, <1>3, <3>3, <3>4
      <3> QED BY <1>3, <3>4, <3>5
    <2> QED BY <1>1, <2>1, <2>2
  <1>4. ASSUME rules.filter, NEW i \in 1..n, stream[i] = "forbidden"
        PROVE  FALSE
    <2>1. CASE i <= at
      <3>1. i \in 1..at
        BY <1>1, <2>1
      <3> QED BY <1>4, <3>1 DEF Clean, HasForbidden
    <2>2. CASE i > at
      <3>1. i - at \in 1..Len(Chunk(n)) /\ Chunk(n)[i - at] = "forbidden"
        BY <1>1, <1>4, <2>2
      <3> QED BY <1>4, <3>1 DEF CharsValid
    <2> QED BY <1>1, <2>1, <2>2
  <1>5. rules.total > 0 => n <= rules.total
    BY <1>1, <1>2
  <1> QED BY <1>3, <1>4, <1>5 DEF Clean, HasLongLine, HasForbidden

-----------------------------------------------------------------------------
(* What a validation says. *)

\* The three ways out of the checks, and the one without a violation.
LEMMA ValidateCases ==
  ASSUME NEW data
  PROVE  LET v == Validate(data).violation
         IN  \/ v = "INVALID_CHARACTER" /\ ~ CharsValid(data)
             \/ v = "LINE_TOO_LONG" /\ rules.line > 0 /\ TooLong(data, lineLength) # {}
             \/ v = "TOTAL_BYTES_EXCEEDED" /\ rules.total > 0 /\ forwarded + Len(data) > rules.total
             \/ /\ v = "none"
                /\ CharsValid(data)
                /\ ~ (rules.line > 0 /\ TooLong(data, lineLength) # {})
                /\ ~ (rules.total > 0 /\ forwarded + Len(data) > rules.total)
                /\ rules.line > 0 => Validate(data).line = LineAfter(data, Len(data), lineLength)
  <1> DEFINE long == rules.line > 0 /\ TooLong(data, lineLength) # {}
             total == rules.total > 0 /\ forwarded + Len(data) > rules.total
  <1>1. ~ CharsValid(data) => Validate(data).violation = "INVALID_CHARACTER"
    BY DEF Validate
  <1>2. CharsValid(data) /\ long => Validate(data).violation = "LINE_TOO_LONG"
    BY DEF Validate
  <1>3. CharsValid(data) /\ ~ long /\ total => Validate(data).violation = "TOTAL_BYTES_EXCEEDED"
    BY DEF Validate
  <1>4. CharsValid(data) /\ ~ long /\ ~ total => Validate(data).violation = "none"
    BY DEF Validate
  <1>5. CharsValid(data) /\ ~ long /\ rules.line > 0
          => Validate(data).line = LineAfter(data, Len(data), lineLength)
    BY DEF Validate
  <1> QED BY <1>1, <1>2, <1>3, <1>4, <1>5

\* The counter it leaves behind is at most what was read.
LEMMA ValidateLine ==
  ASSUME TypeOK, lineLength <= at, NEW n \in at + 1..Len(stream)
  PROVE  Validate(Chunk(n)).line \in 0..n
  <1> DEFINE data == Chunk(n)
             all == LineAfter(data, Len(data), lineLength)
             some == LineAfter(data, Min(TooLong(data, lineLength)), lineLength)
  <1>1. n \in Nat /\ n > at /\ at \in Nat /\ data \in Bytes /\ Len(data) = n - at
    BY ChunkFacts, StreamIsText
  <1>2. lineLength \in Nat /\ lineLength <= at
    BY <1>1, StreamIsText DEF TypeOK
  <1> HIDE DEF data
  <1>3. all \in 0..n
    <2>1. all \in 0..lineLength + Len(data)
      <3>1. Len(data) \in Nat
        BY <1>1
      <3> QED BY <1>1, <1>2, <3>1, LineBounded, Zenon
    <2> HIDE DEF all
    <2> QED BY <1>1, <1>2, <2>1
  <1>4. ASSUME TooLong(data, lineLength) # {} PROVE some \in 0..n
    <2> DEFINE m == Min(TooLong(data, lineLength))
    <2>1. TooLong(data, lineLength) \in SUBSET Nat
      BY <1>1 DEF TooLong
    <2>2. m \in TooLong(data, lineLength)
      BY <1>4, <2>1, Least
    <2>3. m \in 1..n - at
      BY <1>1, <2>2 DEF TooLong
    <2>4. LineAfter(data, m, lineLength) \in 0..lineLength + m
      <3>1. m \in Nat
        BY <1>1, <2>3
      <3> QED BY <1>1, <1>2, <3>1, LineBounded, Zenon
    <2>5. some = LineAfter(data, m, lineLength)
      OBVIOUS
    <2> HIDE DEF m, some
    <2> QED BY <1>1, <1>2, <2>3, <2>4, <2>5
  <1>5. \/ Validate(data).line = lineLength
        \/ TooLong(data, lineLength) # {} /\ Validate(data).line = some
        \/ Validate(data).line = all
    BY DEF Validate
  <1> HIDE DEF all, some
  <1>6. lineLength \in 0..n
    BY <1>1, <1>2
  <1> QED BY <1>3, <1>4, <1>5, <1>6 DEF data

-----------------------------------------------------------------------------
(* The steps. *)

LEMMA FirewallInit == Init => FirewallInv
  <1> SUFFICES ASSUME Init PROVE FirewallInv
    OBVIOUS
  <1>1. stream \in Bytes /\ Len(stream) \in Nat
    <2>1. stream \in UNION {[1..m -> Byte] : m \in 0..MaxStream}
      BY DEF Init, Texts, BoundedSeq, SeqOf
    <2>2. PICK m \in 0..MaxStream : stream \in [1..m -> Byte]
      BY <2>1
    <2>3. m \in Nat
      BY FirewallAssumption
    <2> QED BY <2>2, <2>3, FirewallAssumption DEF Bytes
  <1>2. TypeOK
    <2>1. rules \in Rules /\ stream \in Texts
      BY DEF Init
    <2>2. at \in 0..Len(stream) /\ forwarded \in 0..at /\ lineLength \in 0..Len(stream)
      BY <1>1 DEF Init
    <2>3. found = {} /\ stopped \in BOOLEAN
      BY DEF Init
    <2>4. last \in [from : 0..at, alarm : Alarms \cup {"none"}, since : 0..at]
      <3>1. at = 0 /\ last = [from |-> 0, alarm |-> "none", since |-> 0]
        BY DEF Init
      <3>2. 0 \in 0..at
        BY <3>1
      <3> QED BY <3>1, <3>2
    <2> QED BY <2>1, <2>2, <2>3, <2>4 DEF TypeOK
  <1>3. rules.line \in Nat /\ rules.total \in Nat
    BY FirewallAssumption DEF Init, Rules
  <1>4. Clean(0)
    BY <1>3 DEF Clean, HasLongLine, HasForbidden
  <1>5. IsLine(stream, 0, 0)
    BY DEF IsLine
  <1>6. Quiet /\ FirstIsLast /\ AllForwarded /\ Counted /\ AlarmHasCause /\ lineLength <= at
    BY <1>4, <1>5 DEF Init, Quiet, FirstIsLast, AllForwarded, Counted, AlarmHasCause
  <1>7. LongLineNoticed
    BY DEF Init, LongLineNoticed, LongLine, NewBytes
  <1> QED BY <1>2, <1>6, <1>7 DEF FirewallInv

LEMMA FirewallStep ==
  ASSUME FirewallInv, NEW n \in at + 1..Len(stream), ReadChunk(n)
  PROVE  FirewallInv'
  <1> DEFINE data == Chunk(n)
             v == Validate(data).violation
             line == Validate(data).line
  <1>1. TypeOK /\ lineLength <= at /\ Quiet /\ FirstIsLast /\ AllForwarded /\ Counted
    BY DEF FirewallInv
  <1>2. /\ n \in Nat /\ n > at /\ at \in Nat /\ Len(data) = n - at /\ Len(stream) \in Nat
        /\ stream \in Bytes /\ n - at \in 1..n
    BY <1>1, ChunkFacts, StreamIsText
  <1>3. line \in 0..n
    BY <1>1, ValidateLine
  <1>4. /\ ~ stopped /\ at' = n /\ lineLength' = line /\ rules' = rules /\ stream' = stream
        /\ found' = found \cup ({v} \ {"none"})
        /\ last' = [from |-> at, alarm |-> v, since |-> Alarmed]
        /\ v # "none" /\ rules.stop => stopped' = TRUE /\ forwarded' = forwarded
        /\ ~ (v # "none" /\ rules.stop)
             => forwarded' = forwarded + Len(data) /\ stopped' = stopped
    BY DEF ReadChunk, Chunk
  <1>5. \/ v = "INVALID_CHARACTER" /\ ~ CharsValid(data)
        \/ v = "LINE_TOO_LONG" /\ rules.line > 0 /\ TooLong(data, lineLength) # {}
        \/ v = "TOTAL_BYTES_EXCEEDED" /\ rules.total > 0 /\ forwarded + Len(data) > rules.total
        \/ /\ v = "none"
           /\ CharsValid(data)
           /\ ~ (rules.line > 0 /\ TooLong(data, lineLength) # {})
           /\ ~ (rules.total > 0 /\ forwarded + Len(data) > rules.total)
           /\ rules.line > 0 => line = LineAfter(data, Len(data), lineLength)
    BY ValidateCases
  <1>6. /\ v = "INVALID_CHARACTER" =>
             rules.filter /\ \/ \E i \in at + 1..n : stream[i] = "forbidden"
                             \/ \E i \in {at, n} \ {0} : stream[i] = "lead"
        /\ v = "LINE_TOO_LONG" => rules.line > 0 /\ (LongLineUpTo(n) \/ Unfinished)
        /\ v = "TOTAL_BYTES_EXCEEDED" => rules.total > 0 /\ n > rules.total
    <2>1. CASE v = "INVALID_CHARACTER"
      BY <1>1, <1>5, <2>1, CharacterAlarm
    <2>2. CASE v = "LINE_TOO_LONG"
      BY <1>1, <1>4, <1>5, <2>2, LineAlarm
    <2>3. CASE v = "TOTAL_BYTES_EXCEEDED"
      <3>1. rules.total \in Nat /\ forwarded = at
        BY <1>1, <1>4, FirewallAssumption DEF TypeOK, Rules, AllForwarded
      <3>2. rules.total > 0 /\ forwarded + Len(data) > rules.total
        BY <1>5, <2>3
      <3> HIDE DEF data
      <3> QED BY <1>2, <2>3, <3>1, <3>2
    <2> QED BY <2>1, <2>2, <2>3
  <1>7. ASSUME found = {}, v = "none"
        PROVE  Clean(n) /\ (rules.line > 0 => IsLine(stream, n, line))
    <2>1. forwarded = at /\ Clean(at) /\ (rules.line > 0 => IsLine(stream, at, lineLength))
      BY <1>1, <1>7 DEF Quiet
    <2>2. /\ CharsValid(data)
          /\ ~ (rules.line > 0 /\ TooLong(data, lineLength) # {})
          /\ ~ (rules.total > 0 /\ forwarded + Len(data) > rules.total)
          /\ rules.line > 0 => line = LineAfter(data, Len(data), lineLength)
      BY <1>5, <1>7
    <2>3. Clean(n)
      BY <1>1, <2>1, <2>2, PassedIsClean
    <2>4. ASSUME rules.line > 0 PROVE IsLine(stream, n, line)
      <3>1. n - at \in 1..n - at /\ at + (n - at) = n
        BY <1>2
      <3>2. IsLine(stream, at + (n - at), LineAfter(data, n - at, lineLength))
        BY <1>2, <2>1, <2>4, <3>1, LineCounted DEF Chunk
      <3> QED BY <1>2, <2>2, <2>4, <3>1, <3>2
    <2> QED BY <2>3, <2>4
  <1> HIDE DEF data, v, line
  <1>9. (forwarded' = n /\ forwarded = at) \/ forwarded' \in 0..n
    <2>1. forwarded \in 0..at
      BY <1>1 DEF TypeOK
    <2> QED BY <1>2, <1>4, <2>1
  <1>10. TypeOK' /\ (lineLength <= at)'
    <2>1. forwarded' \in 0..n
      BY <1>2, <1>9
    <2>2. v \in Alarms \cup {"none"} /\ found' \subseteq Alarms
      BY <1>1, <1>4, <1>5 DEF TypeOK, Alarms
    <2>3. n \in 0..Len(stream) /\ line \in 0..Len(stream) /\ line <= n
      BY <1>2, <1>3
    <2>4. stopped' \in BOOLEAN
      BY <1>1, <1>4 DEF TypeOK
    <2>7. last' \in [from : 0..n, alarm : Alarms \cup {"none"}, since : 0..n]
      <3>1. Alarmed \in 0..n
        BY <1>1, <1>2 DEF TypeOK, Alarmed
      <3> QED BY <1>2, <1>4, <2>2, <3>1
    <2>5. rules' \in Rules /\ stream' \in Texts
      BY <1>1, <1>4 DEF TypeOK
    <2>6. /\ at' = n /\ lineLength' = line /\ stream' = stream
      BY <1>4
    <2> QED BY <2>1, <2>2, <2>3, <2>4, <2>5, <2>6, <2>7 DEF TypeOK
  <1>11. \A m : Clean(m)' <=> Clean(m)
    BY <1>4 DEF Clean, HasLongLine, HasForbidden
  <1>12. \A len : IsLine(stream, n, len)' <=> IsLine(stream, n, len)
    BY <1>4
  <1>13. found' = {} <=> found = {} /\ v = "none"
    BY <1>4
  <1>14. Quiet'
    <2> SUFFICES ASSUME found' = {}
                 PROVE  forwarded' = n /\ Clean(n) /\ (rules.line > 0 => IsLine(stream, n, line))
      BY <1>4, <1>11 DEF Quiet
    <2>1. found = {} /\ v = "none"
      BY <1>13
    <2>2. forwarded' = n
      BY <1>1, <1>2, <1>4, <2>1 DEF Quiet
    <2> QED BY <1>7, <2>1, <2>2
  <1>15. FirstIsLast'
    <2> SUFFICES ASSUME rules.stop
                 PROVE  Clean(forwarded') /\ (~ stopped' => found' = {})
      BY <1>4, <1>11 DEF FirstIsLast
    <2>1. found = {} /\ Clean(forwarded)
      BY <1>1, <1>4 DEF FirstIsLast
    <2>2. CASE v = "none"
      <3>1. forwarded' = n
        BY <1>1, <1>2, <1>4, <2>1, <2>2 DEF Quiet
      <3> QED BY <1>7, <1>13, <2>1, <2>2, <3>1
    <2>3. CASE v # "none"
      BY <1>4, <2>1, <2>3
    <2> QED BY <2>2, <2>3
  <1>16. AllForwarded'
    <2>1. forwarded = at
      BY <1>1, <1>4 DEF AllForwarded
    <2> QED BY <1>2, <1>4, <2>1 DEF AllForwarded
  <1>17. last'.from = at /\ last'.alarm = v /\ last'.since = Alarmed
    BY <1>4
  <1>18. /\ LongLine' <=> rules.line > 0 /\ LongLineUpTo(n)
         /\ Disturbed' <=> Unfinished
    BY <1>4, <1>17 DEF LongLine, NewBytes, LongLineUpTo, Disturbed, Unfinished
  <1>19. AlarmHasCause'
    BY <1>4, <1>6, <1>17, <1>18 DEF AlarmHasCause, BadCharacter, CutCharacter, Excess, NewBytes
  <1>20. LongLineNoticed'
    <2> SUFFICES ASSUME rules.line > 0, LongLineUpTo(n), v = "none" PROVE Unfinished
      BY <1>17, <1>18 DEF LongLineNoticed
    <2>1. TooLong(data, lineLength) = {}
      BY <1>5
    <2> QED BY <1>1, <1>4, <2>1, LineNoticed DEF data
  <1>21. Counted'
    <2> SUFFICES ASSUME ~ stopped', rules.line > 0
                 PROVE  \/ IsLine(stream, n, line)
                        \/ Alarmed' > 0 /\ \A k \in Alarmed' + 1..n : stream[k] # "newline"
      BY <1>4 DEF Counted
    <2>1. CASE v = "none"
      <3>1. Alarmed' = Alarmed
        BY <1>17, <2>1 DEF Alarmed
      <3>2. line = LineAfter(data, n - at, lineLength)
        BY <1>2, <1>5, <2>1
      <3>3. n - at \in 1..n - at /\ at + (n - at) = n
        BY <1>2
      <3>4. \/ IsLine(stream, at + (n - at), LineAfter(Chunk(n), n - at, lineLength))
            \/ Alarmed > 0 /\ \A k \in Alarmed + 1..at + (n - at) : stream[k] # "newline"
        BY <1>1, <1>4, <3>3, ChunkCounted
      <3> QED BY <3>1, <3>2, <3>3, <3>4 DEF data
    <2>2. CASE v # "none"
      <3>1. Alarmed' = n
        BY <1>4, <1>17, <2>2 DEF Alarmed
      <3> QED BY <1>2, <3>1
    <2> QED BY <2>1, <2>2
  <1> QED BY <1>10, <1>14, <1>15, <1>16, <1>19, <1>20, <1>21 DEF FirewallInv

-----------------------------------------------------------------------------
(* The theorems. *)

(* proxy.py:85-146: the firewall's invariant holds of every output, every way
   to cut it, and every setting of the rules. *)
THEOREM FirewallInvariant == Spec => []FirewallInv
  <1>1. FirewallInv /\ [Next]_vars => FirewallInv'
    <2> SUFFICES ASSUME FirewallInv, [Next]_vars PROVE FirewallInv'
      OBVIOUS
    <2>1. CASE Next
      BY <2>1, FirewallStep DEF Next
    <2>2. CASE UNCHANGED vars
      <3>1. TypeOK' /\ (lineLength <= at)' /\ AllForwarded'
        BY <2>2 DEF vars, FirewallInv, TypeOK, AllForwarded
      <3>2. Quiet' /\ FirstIsLast'
        BY <2>2 DEF vars, FirewallInv, Quiet, FirstIsLast, Clean, HasLongLine, HasForbidden, IsLine
      <3>3. (LongLine' <=> LongLine) /\ (Disturbed' <=> Disturbed)
        BY <2>2 DEF vars, LongLine, NewBytes, Disturbed
      <3>4. AlarmHasCause' /\ LongLineNoticed'
        BY <2>2, <3>3 DEF vars, FirewallInv, AlarmHasCause, BadCharacter, CutCharacter, Excess,
                          NewBytes, LongLineNoticed
      <3>5. Counted'
        BY <2>2 DEF vars, FirewallInv, Counted, Alarmed, IsLine
      <3> QED BY <3>1, <3>2, <3>4, <3>5 DEF FirewallInv
    <2> QED BY <2>1, <2>2
  <1> QED BY <1>1, FirewallInit, PTL DEF Spec

(* proxy.py:44-75: what the firewall keeps is of its type; in particular the
   counter of the current line never exceeds the output. *)
THEOREM FirewallTypes == Spec => []TypeOK
  BY FirewallInvariant, PTL DEF FirewallInv

(* proxy.py:118-140, 471-485: with STOP what reaches the judge obeys the rules. *)
THEOREM JudgeIsProtected == Spec => []JudgeGetsCleanPrefix
  <1>1. FirewallInv => JudgeGetsCleanPrefix
    BY DEF FirewallInv, FirstIsLast, JudgeGetsCleanPrefix
  <1> QED BY <1>1, FirewallInvariant, PTL

(* proxy.py:464-487: output that breaks a rule is noticed, however it is cut. *)
THEOREM NothingUnnoticed == Spec => []Detected
  <1>1. FirewallInv => Detected
    BY DEF FirewallInv, Quiet, Detected
  <1> QED BY <1>1, FirewallInvariant, PTL

(* proxy.py:100-145: each alarm is about the bytes just read, except for a
   character that a read cuts, and the line that an earlier alarm left. *)
THEOREM AlarmsHaveCause == Spec => []AlarmHasCause
  BY FirewallInvariant, PTL DEF FirewallInv

(* proxy.py:124-134: after a warning, too, each read with a line that is too
   long raises an alarm, once the line is over that the warning left. *)
THEOREM LongLinesNoticed == Spec => []LongLineNoticed
  BY FirewallInvariant, PTL DEF FirewallInv
=============================================================================
