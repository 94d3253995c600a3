----------------------------- MODULE Negotiation -----------------------------
(***************************************************************************)
(* The Accept header (camisole.utils.AcceptHeader) and the encoding of an  *)
(* answer (json_msgpack_handler of camisole.httpserver).                   *)
(***************************************************************************)
EXTENDS Naturals, Sequences, SequencesExt, FiniteSets, FiniteSetsExt

CONSTANTS
  MaxRanges,     \* bounds the number of media ranges in a header
  Weight         \* the q values of the ranges

ASSUME NegotiationAssumption == MaxRanges \in Nat /\ Weight \subseteq Nat

Types == {"json", "msgpack"}

\* In the server's order of preference.
CONTENT_TYPES == <<"json", "msgpack">>

\* A media range and the types its pattern matches.  A "bad" one has no valid
\* MIME type; the q value, or the pattern, of a "raising" one raises something
\* else than the expected ValueError.
Ranges == [kind : {"good"}, matches : SUBSET Types, weight : Weight]
            \cup [kind : {"bad", "raising"}, matches : {{}}, weight : {0}]

Headers == BoundedSeq(Ranges, MaxRanges)

HeaderRaises(header) == \E i \in DOMAIN header : header[i].kind = "raising"

Good(header) == {i \in DOMAIN header : header[i].kind = "good"}

\* sorted() keeps the header's order among equals.
Heavier(header, i, j) == \/ header[i].weight > header[j].weight
                         \/ header[i].weight = header[j].weight /\ i < j

\* parse_header without its sort.
Unsorted(header) ==
  [k \in 1..Cardinality(Good(header)) |->
     CHOOSE i \in Good(header) : Cardinality({j \in Good(header) : j < i}) = k - 1]

\* parse_header: the places of the good ranges, the heaviest first.
Sorted(header) ==
  [k \in 1..Cardinality(Good(header)) |->
     CHOOSE i \in Good(header) : Cardinality({j \in Good(header) : Heavier(header, j, i)}) = k - 1]

\* One turn of the inner loop: a range takes a type that it matches and that no
\* earlier one took.
Offer(range, taken, type) ==
  IF type \in range.matches /\ ~ Contains(taken, type) THEN Append(taken, type) ELSE taken

\* get_best_accepted_types, after so many of the sorted ranges.
Taken(header) ==
  LET sorted == Sorted(header)
      taken[k \in 0..Len(sorted)] ==
        IF k = 0 THEN <<>>
        ELSE LET range == header[sorted[k]]
             IN  Offer(range, Offer(range, taken[k - 1], CONTENT_TYPES[1]), CONTENT_TYPES[2])
  IN  taken

AcceptedTypes(header) == Taken(header)[Len(Sorted(header))]

Answer(status, type, body) == [status |-> status, type |-> type, body |-> body]

\* aiohttp's answer to an exception that leaves the handler.
Uncaught == Answer(500, "plain", "none")

RespondInAny(accepted, encodable, status, body) ==
  LET possible == {i \in DOMAIN CONTENT_TYPES : CONTENT_TYPES[i] \in encodable}
  IN  IF possible # {} THEN Answer(status, CONTENT_TYPES[Min(possible)], body)
      ELSE IF "msgpack" \in ToSet(accepted) THEN Answer(406, "none", "none")
      ELSE IF accepted # <<>> THEN Answer(406, accepted[1], "explanation")
      ELSE Uncaught

\* response(): the first accepted type that can encode the payload.  If there is
\* none, the client is told about msgpack through response() again, any type
\* can encode that; with no accepted type at all it calls itself until Python
\* gives up.
Respond(accepted, encodable, status, body) ==
  LET possible == {i \in DOMAIN accepted : accepted[i] \in encodable}
  IN  IF possible # {} THEN Answer(status, accepted[Min(possible)], body)
      ELSE IF "msgpack" \in ToSet(accepted) THEN Answer(406, "none", "none")
      ELSE IF accepted # <<>> THEN Answer(406, accepted[1], "explanation")
      ELSE Uncaught

Answers == [status : {200, 400, 406, 413, 500}, type : Types \cup {"none", "plain"},
            body : {"result", "error", "explanation", "none"}]
=============================================================================
