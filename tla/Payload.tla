------------------------------ MODULE Payload -------------------------------
(***************************************************************************)
(* The containers of a payload of /run that are optional, given in an      *)
(* unusual shape: what camisole.schema lets through, and what the code     *)
(* that reads them later can work with.                                    *)
(***************************************************************************)

\* Besides null, an empty mapping, list or text, and a number.
Shape == {"null", "mapping", "list", "text", "number"}

HasGet == {"mapping"}                      \* obj.get(key) works
Unpacks == {"mapping"}                     \* {**obj} works
Iterates == {"mapping", "list", "text"}    \* enumerate(obj) works

\* The test of explore() for what the schema wraps in O.
Schema == [compile |-> HasGet, execute |-> HasGet, judge_compile |-> HasGet, tests |-> Iterates,
           user_execution |-> HasGet, judge |-> HasGet, judge_execution |-> HasGet,
           use_judge |-> {}, firewall_rules |-> HasGet]

Field == DOMAIN Schema

\* What the reader of the field copes with: a mere truth value is asked of the
\* last three, and any empty value is a false one.
Reader == [compile |-> HasGet, execute |-> Unpacks, judge_compile |-> Unpacks, tests |-> Iterates,
           user_execution |-> Unpacks, judge_execution |-> Unpacks,
           judge |-> Shape, use_judge |-> Shape, firewall_rules |-> Shape \ {"number"}]

\* One field of a payload is odd, or none is.
Regular == [field |-> "none", shape |-> "regular"]
Odd == [field : Field, shape : Shape]

AcceptsFalsy(odd) == odd = Regular \/ odd.shape \in Schema[odd.field] \cup {"null", "list", "text"}

\* validate_schema: O() lets null through before it looks at the wrapped type.
Accepts(odd) == odd = Regular \/ odd.shape \in Schema[odd.field] \cup {"null"}

\* Reading the field raises a TypeError or an AttributeError.
Breaks(odd, field) == odd.field = field /\ odd.shape \notin Reader[field]
=============================================================================
