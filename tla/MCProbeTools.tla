----------------------------- MODULE MCProbeTools -----------------------------
(***************************************************************************)
(* The command-line tools of the probe, for TLC.                           *)
(***************************************************************************)
EXTENDS ProbeTools

\* Endpoints.
NoUsage == [shape |-> "dict", completion |-> [type |-> "float", value |-> 7],
            details |-> "missing"]

Reply(text, calls) ==
  [end |-> "reply", message |-> TRUE, content |-> "text", text |-> text,
   calls |-> calls, usage |-> NoUsage, finish |-> "stop", model |-> "m"]

Code(c) == [shape |-> "dict", nested |-> <<[type |-> "str", token |-> FALSE, value |-> "prose"],
                                           [type |-> "str", token |-> TRUE, value |-> c]>>,
            top |-> <<>>]

Status(n, c) == [end |-> "status", status |-> n, body |-> Code(c)]

Wrong == <<[FrozenToolCall("celsius")[1] EXCEPT !.args.fields =
             [location |-> [type |-> "str", value |-> "somewhere"]]]>>

LegExchanges ==
  {Reply(<<"fence json", "json", "fence">>, FrozenToolCall("celsius")),
   Reply(<<"prose">>, Wrong), Status(429, "rate"), [end |-> "timeout"]}

McSuite == <<SuiteV1[2], ToolCanaryPrompt>>

AskedExchanges ==
  {Reply(<<"json">>, <<>>), Reply(<<"refusal", "prose">>, <<>>),
   Status(429, "rate"), Status(400, "param"), Status(429, "billing_hard_limit"),
   [end |-> "timeout"]}

\* The corpus: v2 only appends to what came before, ids are unique, and the
\* offline answers score in every category that is scored.
ASSUME Corpus ==
  /\ Len(SuiteV2) = 50
  /\ IsPrefix(SuiteV1, SuiteV1_1) /\ IsPrefix(SuiteV1_1, SuiteV2)
  /\ \A i, j \in DOMAIN SuiteV2 : SuiteV2[i].id = SuiteV2[j].id => i = j
  /\ {p.category : p \in ToSet(SuiteV2)} = CategoriesV2
  /\ \A p \in ToSet(SuiteV2) :
       LET r == ExecuteOne(p, "v2.0.0", TRUE, "none", None).result
       IN  /\ r.json_valid <=> p.category = "structured_output"
           /\ IF IsTool(p) THEN r.tool_call_valid ELSE r.tool_call_valid = None

Line(id, json) == [shape |-> "object", id |-> id, user |-> "u", system |-> None,
                   expect_json |-> json]

McFiles == {<<Line("i", TRUE), Line("j", FALSE)>>, <<Line("i", TRUE), Line("i", FALSE)>>, <<>>}
=============================================================================
