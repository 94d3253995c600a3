------------------------------- MODULE Server -------------------------------
(***************************************************************************)
(* The HTTP server (camisole.httpserver) over the languages it loaded: one *)
(* request goes through json_msgpack_handler, which negotiates, reads and  *)
(* decodes, calls the endpoint's handler and encodes the answer.  What a   *)
(* submission does is the matter of Submission.                            *)
(***************************************************************************)
EXTENDS Negotiation, Registry

VARIABLES
  phase,
  header,        \* the Accept header under negotiation
  accepted,      \* accepted_types
  answer         \* the HTTP response

vars == <<classes, definitions, executers, df, phase, header, accepted, answer>>

NoAnswer == Answer(0, "none", "none")

Init ==
  /\ RegistryInit
  /\ phase = "loading" /\ header = <<>> /\ accepted = <<>>
  /\ answer = NoAnswer

\* load_builtins and load_from_environ import one module after the other.
Load ==
  /\ phase = "loading"
  /\ DefineSome
  /\ UNCHANGED <<phase, header, accepted, answer>>

Serve ==
  /\ phase = "loading"
  /\ phase' = "idle"
  /\ UNCHANGED <<classes, definitions, executers, df, header, accepted, answer>>

Send(response) == phase' = "answered" /\ answer' = response

Receive ==
  /\ phase = "idle"
  /\ header' \in Headers
  /\ IF HeaderRaises(header')
       THEN Send(Uncaught) /\ UNCHANGED accepted
       ELSE /\ accepted' = AcceptedTypes(header')
            /\ phase' = "negotiated" /\ UNCHANGED answer
  /\ UNCHANGED <<classes, definitions, executers, df>>

Reply(encodable, status, body) == Send(Respond(accepted, encodable, status, body))

ReadBodyGoesOn ==
  /\ phase = "negotiated"
  /\ header' = <<>>
  /\ phase' = "decoded"
  /\ \/ UNCHANGED answer
     \/ \E status \in {400, 413, 500} : answer' = Respond(accepted, Types, status, "error")
  /\ UNCHANGED <<classes, definitions, executers, df, accepted>>

\* Reading the body may fail, for a body that is too large (413) or otherwise,
\* and so may decoding it (400).
ReadBody ==
  /\ phase = "negotiated"
  /\ header' = <<>>
  /\ \/ phase' = "decoded" /\ UNCHANGED answer
     \/ \E status \in {400, 413, 500} : Reply(Types, status, "error")
  /\ UNCHANGED <<classes, definitions, executers, df, accepted>>

\* An exception of the handler: its traceback is text, but text that msgpack
\* may refuse.
Failed == \E encodable \in {Types, {"json"}} : Reply(encodable, 500, "error")

\* Any data in the result may be beyond one encoding or both.
Done == \E encodable \in SUBSET Types : Reply(encodable, 200, "result")

\* A submission that was started may well fail as a whole.
Started == Done \/ Failed

KeepRegistry == UNCHANGED <<classes, definitions, executers, df, header, accepted>>

\* validate_run refuses the payload, with a result.
RunMalformed ==
  /\ phase = "decoded"
  /\ \E encodable \in {Types, {"json"}} : Reply(encodable, 200, "result")
  /\ KeepRegistry

RunHandler ==
  /\ phase = "decoded"
  /\ \E lang \in Names :
       IF lang.key \in DOMAIN definitions /\ Instantiates(lang) THEN Started ELSE Failed
  /\ KeepRegistry

\* ref.test gives no "lang": the name is that of the executer's definition.
ReferenceName(key) == classes[df[executers[key]]].name

\* Data that is no mapping, or excludes what is no list, raises too.
TestHandler ==
  /\ phase = "decoded"
  /\ \/ \E excluded \in SUBSET Key :
          IF \A key \in DOMAIN definitions \ excluded : Instantiates(ReferenceName(key))
            THEN Started ELSE Failed
     \/ Failed
  /\ KeepRegistry

\* A definition has no attribute df.
LanguagesHandler ==
  /\ phase = "decoded"
  /\ IF DOMAIN definitions = {} THEN Reply(Types, 200, "result") ELSE Failed
  /\ KeepRegistry

SystemHandler ==
  /\ phase = "decoded"
  /\ Reply(Types, 200, "result") \/ Failed
  /\ KeepRegistry

Next == \/ Load \/ Serve \/ Receive \/ ReadBody
        \/ RunMalformed \/ RunHandler \/ TestHandler \/ LanguagesHandler \/ SystemHandler

Spec == Init /\ [][Next]_vars

-----------------------------------------------------------------------------
(* The type invariant of the server. *)
TypeOK ==
  /\ RegistryTypeOK
  /\ phase \in {"loading", "idle", "negotiated", "decoded", "answered"}
  /\ header \in Headers
  /\ accepted \in Seq(Types)
  /\ answer \in Answers \cup {NoAnswer}
  /\ phase = "answered" <=> answer # NoAnswer

\* The best range of the header for a type: the first among the heaviest.
Best(type) ==
  LET fits == {i \in DOMAIN header : header[i].kind = "good" /\ type \in header[i].matches}
  IN  CHOOSE i \in fits : \A j \in fits : \/ header[i].weight > header[j].weight
                                          \/ header[i].weight = header[j].weight /\ i <= j

Matched(type) == \E i \in DOMAIN header : header[i].kind = "good" /\ type \in header[i].matches

\* Would the client rather have a than b?
Prefers(a, b) ==
  \/ header[Best(a)].weight > header[Best(b)].weight
  \/ header[Best(a)].weight = header[Best(b)].weight /\ Best(a) < Best(b)
  \/ Best(a) = Best(b) /\ a = "json" /\ b = "msgpack"

(* utils.py:177-199, doc/usage.rst:203-207: exactly the types of the Accept
   header are accepted, in the order of their best ranges. *)
BestAcceptable ==
  phase = "negotiated" =>
    /\ ToSet(accepted) = {type \in Types : Matched(type)}
    /\ \A i, j \in DOMAIN accepted : i < j => Prefers(accepted[i], accepted[j])

(* httpserver.py:53-87, doc/usage.rst:203-212: the answer is in a type that the
   client accepts; a client is told to accept msgpack only when it does not. *)
AnswersInAcceptedType ==
  phase = "answered" =>
    /\ answer.type \in Types => answer.type \in ToSet(accepted)
    /\ answer.body = "explanation" => answer.type = "json" /\ "msgpack" \notin ToSet(accepted)
=============================================================================
