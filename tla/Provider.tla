------------------------------ MODULE Provider ------------------------------
(***************************************************************************)
(* probe/providers.py: one chat completion, from the payload that is sent  *)
(* to the CompletionResult or the ProviderError it comes to.               *)
(*                                                                         *)
(* What the endpoint and the network do with a request is an exchange, a   *)
(* record with a field "end":                                              *)
(*   reply       2xx with a JSON body (message, content, calls, usage,...) *)
(*   status      an HTTP error: its status and its body                    *)
(*   timeout     no answer in time                                         *)
(*   unreachable URLError without a timeout                                *)
(*   garbled     2xx whose body is not JSON                                *)
(*   raised      any other exception of the transport                      *)
(***************************************************************************)
EXTENDS Integers, SequencesExt

CONSTANT None   \* Python's None

ASSUME NoneAssumption == None \notin BOOLEAN /\ None \notin {0, 1}

-----------------------------------------------------------------------------
(* JSON values as far as the provider looks at them: a scalar has a type,  *)
(* its integral value or name, and whether it is 1..64 characters of the   *)
(* token alphabet.                                                         *)

SafeCode(v) == IF v.type \in {"int", "str"} /\ v.token THEN v.value ELSE None

\* error.code, error.type, code, type: the first that is a safe token.
ErrorCodeFromBody(body) ==
  IF body.shape # "dict" THEN None
  ELSE LET codes == [i \in 1 .. Len(body.nested \o body.top) |->
                       SafeCode((body.nested \o body.top)[i])]
           safe == SelectSeq(codes, LAMBDA c : c # None)
       IN  IF safe = <<>> THEN None ELSE Head(safe)

IntOrNone(v) == IF v.type \in {"int", "float"} THEN v.value ELSE None

\* Token counts; a level that is missing or not a dict leaves them None.
ParseUsage(usage) ==
  [output |-> IF usage.shape = "dict" THEN IntOrNone(usage.completion) ELSE None,
   reasoning |-> IF usage.shape = "dict" /\ usage.details = "dict"
                 THEN IntOrNone(usage.reasoning) ELSE None]

-----------------------------------------------------------------------------
(* ProviderError and CompletionResult.                                     *)

ProviderError(status, code, kind) ==
  [ok |-> FALSE, status |-> status, code |-> code, kind |-> kind]

\* The constructor refuses a key that no header can carry.
KeyRefused(key) == key = "non-ascii"

\* The keys of the request body.
PayloadKeys(tools, send_temperature) ==
  {"model", "max_tokens", "messages"}
    \cup (IF send_temperature THEN {"temperature"} ELSE {})
    \cup (IF tools THEN {"tools"} ELSE {})

\* _urllib_transport's errors, and complete_ex's wrapping of any other one.
TransportError(x) ==
  CASE x.end = "status" ->
         ProviderError(x.status, ErrorCodeFromBody(x.body), "http")
    [] x.end = "timeout" -> ProviderError(None, None, "timeout")
    [] x.end = "unreachable" -> ProviderError(None, None, "network")
    [] x.end = "garbled" -> ProviderError(None, None, "bad_body")
    [] x.end = "raised" -> ProviderError(None, None, "transport")

\* Content that is not a string is an error for a text prompt and the empty
\* string for a tool prompt; null is data for a caller that allows it.
ContentRefused(x, tools, allow_null) ==
  /\ x.content \in {"null", "object"}
  /\ ~tools
  /\ ~(x.content = "null" /\ allow_null)

Completion(x, tools, allow_null) ==
  LET usage == ParseUsage(x.usage)
  IN  [ok |-> TRUE,
       text |-> IF x.content = "text" THEN x.text ELSE <<>>,
       tool_calls |-> IF x.calls = <<>> THEN None ELSE x.calls,
       output_tokens |-> usage.output,
       reasoning_tokens |-> usage.reasoning,
       finish_reason |-> x.finish,
       returned_model |-> x.model,
       content_null |-> x.content = "null" /\ allow_null]

CompleteEx(x, tools, allow_null) ==
  IF x.end # "reply" THEN TransportError(x)
  ELSE IF ~x.message \/ ContentRefused(x, tools, allow_null)
       THEN ProviderError(None, None, "bad_schema")
       ELSE Completion(x, tools, allow_null)

\* The text-only entry point: no usage comes with it.
Complete(x) ==
  LET r == CompleteEx(x, FALSE, FALSE)
  IN  IF r.ok THEN [r EXCEPT !.output_tokens = None, !.reasoning_tokens = None] ELSE r
=============================================================================
