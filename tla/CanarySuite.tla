----------------------------- MODULE CanarySuite -----------------------------
(***************************************************************************)
(* probe/canary.py: the frozen suites, the validators of an answer, the    *)
(* result derived from it and the offline answers.                         *)
(*                                                                         *)
(* A prompt is its id and its category; a text is a sequence of tokens: a  *)
(* code fence, "json" for a JSON document, words; a list of tool calls is  *)
(* a sequence of calls.  A hash stands for what it is computed from.       *)
(***************************************************************************)
EXTENDS Provider, FiniteSets

-----------------------------------------------------------------------------
(* The suites.                                                             *)

CategoriesV2 ==
  {"logic_reasoning", "structured_output", "refusal_tone", "tool_calling",
   "reasoning_length", "multilingual"}

CategoryIdSlug ==
  [logic_reasoning |-> "logic", structured_output |-> "format",
   refusal_tone |-> "refusal", tool_calling |-> "toolcall",
   reasoning_length |-> "reason", multilingual |-> "multiling"]

\* number 0: an id without a number ("v1.0.0-logic").
Prompt(version, category, number) ==
  [id |-> <<version, CategoryIdSlug[category], number>>,
   category |-> category]

SuiteV1 == <<Prompt("v1.0.0", "logic_reasoning", 0),
             Prompt("v1.0.0", "structured_output", 0),
             Prompt("v1.0.0", "refusal_tone", 0)>>

ToolCanaryPrompt == Prompt("v1.1.0", "tool_calling", 0)

SuiteV1_1 == Append(SuiteV1, ToolCanaryPrompt)

Family(category, size) ==
  [n \in 1 .. size |-> Prompt("v2.0.0", category, n)]

V2Logic == Family("logic_reasoning", 8)
V2Format == Family("structured_output", 8)
V2Refusal == Family("refusal_tone", 7)
V2Toolcall == Family("tool_calling", 7)
V2Reason == Family("reasoning_length", 8)
V2Multiling == Family("multilingual", 8)

SuiteV2New ==
  V2Logic \o V2Format \o V2Refusal \o V2Toolcall \o V2Reason \o V2Multiling

SuiteV2 == SuiteV1_1 \o SuiteV2New

IsTool(p) == p.category = "tool_calling"

-----------------------------------------------------------------------------
(* Validators.                                                             *)

Fences == {"fence json", "fence"}

\* An opening and a closing fence are taken off, each by itself.
Unfenced(text) ==
  LET inner == IF text # <<>> /\ Head(text) \in Fences THEN Tail(text) ELSE text
  IN  IF inner # <<>> /\ Last(inner) = "fence" THEN Front(inner) ELSE inner

IsJsonValid(text) == Unfenced(text) = <<"json">>

FrozenParameters ==
  [properties |->
     [location |-> [type |-> "string", enum |-> {}],
      unit |-> [type |-> "string", enum |-> {"celsius", "fahrenheit"}]],
   required |-> {"location", "unit"},
   additionalProperties |-> FALSE]

\* args: what arguments parsed to; fields maps a key to its type and value.
ValidateToolArgs(args, schema) ==
  LET keys == DOMAIN args.fields
      declared == DOMAIN schema.properties
  IN  /\ args.type = "object"
      /\ schema.additionalProperties \/ keys \subseteq declared
      /\ schema.required \subseteq keys
      /\ \A k \in keys \cap declared :
           LET v == args.fields[k]
               prop == schema.properties[k]
           IN  /\ prop.type = "string" => v.type = "str"
               /\ prop.enum # {} => v.value \in prop.enum

\* Only the first call counts.  arguments is a string that parses to args.
IsToolCallValid(calls) ==
  /\ calls # None
  /\ calls # <<>>
  /\ LET call == Head(calls)
     IN  /\ call.shape = "function"
         /\ call.name = "get_weather"
         /\ call.arguments = "json"
         /\ ValidateToolArgs(call.args, FrozenParameters)

-----------------------------------------------------------------------------
(* Results.                                                                *)

\* tool_call_valid is None, not FALSE, for a prompt that is not about tools.
CanaryResult(p, version, raw, json_valid, tool_call_valid, output, reasoning) ==
  [prompt_id |-> p.id, suite_version |-> version,
   response_hash |-> raw, json_valid |-> json_valid,
   tool_call_valid |-> tool_call_valid,
   output_tokens |-> output, reasoning_tokens |-> reasoning]

\* JSON counts only for structured output.
ScoredJson(p, text) == p.category = "structured_output" /\ IsJsonValid(text)

Derived(p, version, r) ==
  IF IsTool(p)
  THEN CanaryResult(p, version,
         IF r.tool_calls # None THEN r.tool_calls ELSE <<r.text>>,
         FALSE, IsToolCallValid(r.tool_calls), r.output_tokens, r.reasoning_tokens)
  ELSE CanaryResult(p, version, <<r.text>>, ScoredJson(p, r.text),
         None, r.output_tokens, r.reasoning_tokens)

-----------------------------------------------------------------------------
(* Offline answers.                                                        *)

FrozenToolCall(unit) ==
  <<[shape |-> "function", name |-> "get_weather", arguments |-> "json",
     args |-> [type |-> "object",
               fields |-> [location |-> [type |-> "str", value |-> "somewhere"],
                           unit |-> [type |-> "str", value |-> unit]]]]>>

MockToolCalls == [id \in {ToolCanaryPrompt.id} |-> FrozenToolCall("celsius")]

MockToolCallsV2 ==
  [id \in {p.id : p \in ToSet(V2Toolcall)} |->
     FrozenToolCall(IF id[3] \in {2, 5, 7} THEN "fahrenheit" ELSE "celsius")]

\* A number is a JSON document too.
MockText(p) ==
  IF \/ p.category \in {"structured_output", "reasoning_length"}
     \/ p.id = <<"v2.0.0", "logic", 5>>
  THEN <<"json">> ELSE <<"prose">>

MockResponses == [id \in {p.id : p \in ToSet(SuiteV1)} |->
  MockText(CHOOSE p \in ToSet(SuiteV1) : p.id = id)]

MockResponsesV2 ==
  LET texts == {p \in ToSet(SuiteV2New) : ~IsTool(p)}
  IN  [id \in {p.id : p \in texts} |-> MockText(CHOOSE p \in texts : p.id = id)]

\* v1 first; an unknown id is the empty text.
MockTextFor(id) ==
  IF id \in DOMAIN MockResponses THEN MockResponses[id]
  ELSE IF id \in DOMAIN MockResponsesV2 THEN MockResponsesV2[id] ELSE <<>>

MockToolCallsFor(id) ==
  IF id \in DOMAIN MockToolCalls THEN MockToolCalls[id]
  ELSE IF id \in DOMAIN MockToolCallsV2 THEN MockToolCallsV2[id] ELSE None

MockAnswer(p) ==
  [ok |-> TRUE, text |-> IF IsTool(p) THEN <<>> ELSE MockTextFor(p.id),
   tool_calls |-> IF IsTool(p) THEN MockToolCallsFor(p.id) ELSE None,
   output_tokens |-> None, reasoning_tokens |-> None]

-----------------------------------------------------------------------------
(* execute_canary.                                                         *)

\* provider: "none", "complete" (the text entry point only) or "complete_ex".
Misconfigured(suite, mock, provider) ==
  /\ ~mock
  /\ \/ provider = "none"
     \/ provider = "complete" /\ \E p \in ToSet(suite) : IsTool(p)

\* One prompt: the result, or the error of the exchange x.
ExecuteOne(p, version, mock, provider, x) ==
  LET r == IF mock THEN MockAnswer(p)
           ELSE IF provider = "complete" THEN Complete(x)
           ELSE CompleteEx(x, IsTool(p), FALSE)
  IN  IF r.ok THEN [ok |-> TRUE, result |-> Derived(p, version, r)]
      ELSE [ok |-> FALSE, error |-> r]
=============================================================================
