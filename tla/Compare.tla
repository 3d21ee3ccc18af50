------------------------------- MODULE Compare -------------------------------
(***************************************************************************)
(* probe/compare.py: two models answer the user's own suite several times, *)
(* call by call, and each metric's difference between them is judged       *)
(* against how much each model differs from itself.                        *)
(*                                                                         *)
(* A call is a step; what it comes to is an exchange of Provider.  Means   *)
(* are fractions.  The permutation test is a sample, so wherever it could  *)
(* come out either way the model lets it.                                  *)
(***************************************************************************)
EXTENDS CanarySuite

CONSTANTS
  SuiteFiles,       \* the suite files a user may give
  Repeats,          \* what --repeats may be
  CompareExchanges, \* what an endpoint may answer
  CompareKeys,      \* the API keys
  CompareMetrics,   \* the METRICS that are evaluated
  MaxItems,         \* MAX_ITEMS (200)
  MinItems,         \* MIN_ITEMS_PER_METRIC (5)
  FailureLimit,     \* INFRA_FAILURE_LIMIT, in percent (10)
  MaxCallRetries,   \* MAX_RETRIES (2)
  RefusalWindow,    \* REFUSAL_WINDOW (300), in tokens
  TopN,             \* TOP_N (10)
  MaxFailing        \* bound: exchanges of a comparison that fail

\* METRICS but latency, which no state determines.
METRICS == {"agreement", "length", "json_valid", "truncated", "empty",
            "refusal", "output_tokens", "reasoning_tokens"}

FailureNames == {"auth", "quota", "rate_limit", "timeout", "network", "provider_error",
                 "bad_request", "not_attempted"}

ASSUME CompareAssumption ==
  /\ Repeats \subseteq Int
  /\ MaxItems \in Nat /\ MinItems \in Nat /\ TopN \in Nat
  /\ MaxCallRetries \in Nat /\ MaxFailing \in Nat
  /\ FailureLimit \in 0 .. 100
  /\ CompareMetrics \subseteq METRICS
  /\ None \notin FailureNames
  \* A file is a sequence of lines, a text one of tokens; usage counts are integers.
  /\ \A f \in SuiteFiles : f \in Seq(ToSet(f))
  /\ \A x \in CompareExchanges :
       /\ x.end \in {"reply", "status", "timeout", "unreachable", "garbled", "raised"}
       /\ x.end = "reply" =>
            /\ Len(x.text) \in Nat
            /\ LET usage == ParseUsage(x.usage)
               IN  \A n \in {usage.output, usage.reasoning} : n = None \/ n \in Int

Sides == <<"A", "B">>

VARIABLES
  cstage,     \* "args", "calling", "fallback", "report", "ended"
  items,      \* the suite
  repeats,
  turn,       \* the planned calls done, in the order of run_calls
  retries,    \* of the call being made
  side,       \* per side: the fields of Side
  obs,        \* side -> item -> the observations
  report,     \* evidence.json, as far as it is modelled
  code,       \* exit code
  ways        \* history: side -> with/without temperature of its answers

compareVars ==
  <<cstage, items, repeats, turn, retries, side, obs, report, code, ways>>

-----------------------------------------------------------------------------
(* The suite.                                                              *)

\* A line: what json.loads made of it and its fields.  "bad" is a value of
\* the wrong type, "" the empty string.
SoundLine(l) ==
  /\ l.shape = "object"
  /\ l.id \notin {"", "bad"} /\ l.user \notin {"", "bad"}
  /\ l.system # "bad" /\ l.expect_json \in BOOLEAN

\* Too many items are refused, never truncated.
LoadSuite(lines) ==
  /\ Len(lines) \in 1 .. MaxItems
  /\ \A i \in DOMAIN lines : SoundLine(lines[i])
  /\ \A i, j \in DOMAIN lines : lines[i].id = lines[j].id => i = j

-----------------------------------------------------------------------------
(* Observations.                                                           *)

RefusalPatterns == {"refusal"}

IsRefusal(text) ==
  \E i \in DOMAIN text : i <= RefusalWindow /\ text[i] \in RefusalPatterns

Bit(b) == IF b THEN 1 ELSE 0

\* [x for x in s if Test(x)]: SelectSeq, in terms a proof can expand.
Select(s, Test(_)) ==
  LET upto[n \in 0 .. Len(s)] ==
        IF n = 0 THEN <<>>
        ELSE IF Test(s[n]) THEN Append(upto[n - 1], s[n]) ELSE upto[n - 1]
  IN  upto[Len(s)]

Failure(class) == [failure |-> class]

Valid(o) == o.failure = None

Observe(item, r) ==
  [failure |-> None, hash |-> r.text, length |-> Len(r.text),
   json_valid |-> IF item.expect_json THEN Bit(IsJsonValid(r.text)) ELSE None,
   truncated |-> Bit(r.finish_reason = "length"),
   empty |-> Bit(\A i \in DOMAIN r.text : r.text[i] = "blank"),
   refusal |-> Bit(IsRefusal(r.text)),
   output_tokens |-> r.output_tokens,
   reasoning_tokens |-> r.reasoning_tokens,
   returned_model |-> r.returned_model]

\* Codes in which one of QUOTA_CODE_HINTS occurs.
QuotaCodes == {"insufficient_quota", "billing_hard_limit", "no_credit"}

Classify(e) ==
  CASE e.status = None -> IF e.kind = "timeout" THEN "timeout"
                          ELSE IF e.kind \in {"bad_body", "bad_schema"}
                               THEN "provider_error" ELSE "network"
    [] e.status \in {401, 403} -> "auth"
    [] e.status = 402 -> "quota"
    [] e.status = 429 -> IF e.code \in QuotaCodes THEN "quota" ELSE "rate_limit"
    [] OTHER -> IF e.status >= 500 THEN "provider_error" ELSE "bad_request"

Retryable == {"rate_limit", "provider_error"}
Fatal == {"auth", "quota"}

-----------------------------------------------------------------------------
(* Calls.                                                                  *)

NewSide == [send_temperature |-> TRUE, temperature |-> "0",
            fallback_tried |-> FALSE, fatal |-> None, calls_made |-> 0]

Planned == repeats * Len(items) * Len(Sides)

\* repeat -> item -> side
SideAt == Sides[(turn % Len(Sides)) + 1]
ItemAt == items[((turn \div Len(Sides)) % Len(items)) + 1]

CompareInit ==
  /\ cstage = "args"
  /\ items = <<>>
  /\ repeats = 0
  /\ turn = 0
  /\ retries = 0
  /\ side = [s \in ToSet(Sides) |-> NewSide]
  /\ obs = [s \in ToSet(Sides) |-> <<>>]
  /\ report = None
  /\ code = None
  /\ ways = [s \in ToSet(Sides) |-> {}]

\* main up to the first call: a usage error, a missing --yes and a key that
\* no header can carry end it with nothing sent.
CompareMain(lines, n, sound, yes, key) ==
  LET usage == LoadSuite(lines) /\ n \in 2 .. 5 /\ sound
  IN  /\ cstage = "args"
      /\ IF usage /\ yes /\ ~KeyRefused(key)
         THEN /\ cstage' = "calling"
              /\ items' = [i \in DOMAIN lines |->
                             [id |-> lines[i].id, expect_json |-> lines[i].expect_json]]
              /\ repeats' = n
              /\ obs' = [s \in ToSet(Sides) |-> [i \in {l.id : l \in ToSet(lines)} |-> <<>>]]
              /\ UNCHANGED code
         ELSE /\ cstage' = "ended"
              /\ code' = IF usage /\ ~yes THEN 3 ELSE 1
              /\ UNCHANGED <<items, repeats, obs>>
      /\ UNCHANGED <<turn, retries, side, report, ways>>

Answers(s, id) == Select(obs[s][id], Valid)

RecordOneMore(o) ==
  /\ obs' = [obs EXCEPT ![SideAt][ItemAt.id] = Append(@, o)]
  /\ turn' = turn + 1
  /\ retries' = 0
  /\ cstage' = IF turn' > Planned THEN "report" ELSE "calling"

\* Side.ask returns o, and run_calls goes on.
Record(o) ==
  /\ obs' = [obs EXCEPT ![SideAt][ItemAt.id] = Append(@, o)]
  /\ turn' = turn + 1
  /\ retries' = 0
  /\ cstage' = IF turn' = Planned THEN "report" ELSE "calling"

SkipAfterFatal ==
  /\ cstage = "calling"
  /\ side[SideAt].fatal # None
  /\ Record(Failure("not_attempted"))
  /\ UNCHANGED <<items, repeats, side, report, code, ways>>

\* The call's failure is final.
Fails(class) ==
  /\ side' = [side EXCEPT ![SideAt].calls_made = @ + 1,
                          ![SideAt].fatal = IF class \in Fatal THEN class ELSE @]
  /\ Record(Failure(class))
  /\ UNCHANGED ways

\* The exchanges that failed so far.
Failing ==
  MapThenSumSet(LAMBDA s : side[s].calls_made
    - MapThenSumSet(LAMBDA id : Len(Answers(s, id)), DOMAIN obs[s]), ToSet(Sides))

WithinBound(r) == r.ok \/ Failing < MaxFailing

Sent == PayloadKeys(FALSE, side[SideAt].send_temperature)

\* Only the first 400 of a side, and only while temperature is sent.
TemperatureSuspected(r) ==
  /\ r.status = 400
  /\ side[SideAt].send_temperature
  /\ ~side[SideAt].fallback_tried

Ask(x) ==
  LET r == CompleteEx(x, FALSE, TRUE)
  IN  /\ cstage = "calling"
      /\ side[SideAt].fatal = None
      /\ WithinBound(r)
      /\ IF r.ok
         THEN /\ side' = [side EXCEPT ![SideAt].calls_made = @ + 1]
              /\ ways' = [ways EXCEPT ![SideAt] = @ \cup {"temperature" \in Sent}]
              /\ Record(Observe(ItemAt, r))
         ELSE IF TemperatureSuspected(r)
         THEN /\ side' = [side EXCEPT ![SideAt].calls_made = @ + 1,
                                      ![SideAt].fallback_tried = TRUE]
              /\ cstage' = "fallback"
              /\ UNCHANGED <<obs, turn, retries, ways>>
         ELSE IF Classify(r) \in Retryable /\ retries < MaxCallRetries
         THEN /\ side' = [side EXCEPT ![SideAt].calls_made = @ + 1]
              /\ retries' = retries + 1
              /\ UNCHANGED <<cstage, obs, turn, ways>>
         ELSE Fails(Classify(r))
      /\ UNCHANGED <<items, repeats, report, code>>

\* The one call without temperature is not retried, whatever it meets.
TemperatureFallback(x) ==
  LET r == CompleteEx(x, FALSE, TRUE)
  IN  /\ cstage = "fallback"
      /\ WithinBound(r)
      /\ IF r.ok
         THEN /\ side' = [side EXCEPT ![SideAt].calls_made = @ + 1,
                                      ![SideAt].send_temperature = FALSE,
                                      ![SideAt].temperature = "provider default"]
              /\ ways' = [ways EXCEPT ![SideAt] = @ \cup {FALSE}]
              /\ Record(Observe(ItemAt, r))
         ELSE Fails(Classify(r))
      /\ UNCHANGED <<items, repeats, report, code>>

-----------------------------------------------------------------------------
(* Statistics, over fractions <<numerator, denominator>>.                  *)

Zero == <<0, 1>>
Plus(p, q) == <<p[1] * q[2] + q[1] * p[2], p[2] * q[2]>>
Minus(p, q) == Plus(p, <<-q[1], q[2]>>)
Below(p, q) == p[1] * q[2] < q[1] * p[2]
Total(ps) == FoldSeq(Plus, Zero, ps)
Halved(p) == <<p[1], 2 * p[2]>>

Dist(metric, x, y) ==
  IF metric = "agreement" THEN Bit(x # y) ELSE IF x < y THEN y - x ELSE x - y

ValueOf(metric, o) == IF metric = "agreement" THEN o.hash ELSE o[metric]

PairMean(metric, v, pairs) ==
  IF pairs = {} THEN Zero
  ELSE <<MapThenSumSet(LAMBDA p : Dist(metric, v[p[1]], v[p[2]]), pairs), Cardinality(pairs)>>

Pairs(I) == {p \in I \X I : p[1] < p[2]}

\* The statistic when v is split into the places I and the others.
Split(metric, v, I) ==
  LET J == DOMAIN v \ I
      wa == PairMean(metric, v, Pairs(I))
      wb == PairMean(metric, v, Pairs(J))
      cross == PairMean(metric, v, I \X J)
  IN  [wa |-> wa, wb |-> wb, cross |-> cross, t |-> Minus(cross, Halved(Plus(wa, wb)))]

ItemStat(metric, a, b) == Split(metric, a \o b, 1 .. Len(a))

LeastSplit(metric, a, b) ==
  LET v == a \o b
      ts == {Split(metric, v, I).t : I \in kSubset(Len(a), DOMAIN v)}
  IN  CHOOSE t \in ts : \A u \in ts : ~Below(u, t)

\* The sample can only call a difference significant if some exchange of
\* labels makes it smaller; it need not.
MayBeSignificant(metric, pairs) ==
  LET n == DOMAIN pairs
      observed == [i \in n |-> ItemStat(metric, pairs[i].a, pairs[i].b).t]
      least == [i \in n |-> LeastSplit(metric, pairs[i].a, pairs[i].b)]
  IN  Below(Total(least), Total(observed))

-----------------------------------------------------------------------------
(* Verdicts.                                                               *)

Values(metric, s, id) ==
  LET answers == Answers(s, id)
  IN  Select([i \in DOMAIN answers |-> ValueOf(metric, answers[i])],
                LAMBDA v : v # None)

Eligible(metric) ==
  LET asked == Select(items, LAMBDA it : metric # "json_valid" \/ it.expect_json)
      pairs == [i \in DOMAIN asked |-> [a |-> Values(metric, "A", asked[i].id),
                                        b |-> Values(metric, "B", asked[i].id)]]
  IN  Select(pairs, LAMBDA p : Len(p.a) >= 2 /\ Len(p.b) >= 2)

Failures(s) ==
  MapThenSumSet(LAMBDA it : Len(obs[s][it.id]) - Len(Answers(s, it.id)), ToSet(items))

MeasuredAlways(s) == TRUE

Measured(s) == 100 * Failures(s) <= FailureLimit * repeats * Len(items)

\* Changed: significant, and a difference larger than either side's own.
EvaluateMetric(metric, significant) ==
  LET pairs == Eligible(metric)
      stat == [i \in DOMAIN pairs |-> ItemStat(metric, pairs[i].a, pairs[i].b)]
      wa == Total([i \in DOMAIN pairs |-> stat[i].wa])
      wb == Total([i \in DOMAIN pairs |-> stat[i].wb])
      cross == Total([i \in DOMAIN pairs |-> stat[i].cross])
  IN  IF \/ ~(Measured("A") /\ Measured("B")) \/ Len(pairs) < MinItems
      THEN "NOT MEASURED"
      ELSE IF significant /\ Below(wa, cross) /\ Below(wb, cross)
           THEN "CHANGED" ELSE "WITHIN NOISE"

-----------------------------------------------------------------------------
(* The report.                                                             *)

\* The most frequent answer: the times it was given.
Modal(s, id) ==
  LET answers == Answers(s, id)
      hashes == {o.hash : o \in ToSet(answers)}
      times(h) == Quantify(DOMAIN answers, LAMBDA i : answers[i].hash = h)
  IN  CHOOSE h \in hashes : \A k \in hashes : times(h) >= times(k)

BothAnswered(id) == Answers("A", id) # <<>> /\ Answers("B", id) # <<>>

ModalMatch == {it.id : it \in {x \in ToSet(items) :
                BothAnswered(x.id) /\ Modal("A", x.id) = Modal("B", x.id)}}

\* The items that differ beyond noise, largest difference first, then the
\* largest difference of length.
TopChanges ==
  LET score(it) == ItemStat("agreement", Values("agreement", "A", it.id),
                            Values("agreement", "B", it.id)).t
      dlen(it) == Dist("length", Len(Modal("A", it.id)), Len(Modal("B", it.id)))
      scored == Select(items, LAMBDA it : BothAnswered(it.id) /\ Below(Zero, score(it)))
      ranked == SortSeq(scored, LAMBDA p, q :
                  \/ Below(score(q), score(p))
                  \/ ~Below(score(p), score(q)) /\ dlen(p) > dlen(q))
  IN  SubSeq(ranked, 1, IF Len(ranked) < TopN THEN Len(ranked) ELSE TopN)

\* The answers of side s with the value x in a field.
Count(s, field, x) ==
  LET times(answers) == Quantify(DOMAIN answers, LAMBDA i : answers[i][field] = x)
  IN  MapThenSumSet(LAMBDA it : times(Answers(s, it.id)), ToSet(items))

SideLevels(s) ==
  [valid_responses |-> Count(s, "failure", None)]
    @@ [f \in {"json_valid", "truncated", "empty", "refusal"} |-> Count(s, f, 1)]

\* The notes under the header of the page.
Notes(s) ==
  (IF side[s].temperature = "provider default" THEN {"ran at provider default"} ELSE {})
    \cup (IF Measured(s) THEN {} ELSE {"over the failure limit"})

\* The failures of a side by class.
FailureClasses(s) ==
  LET all == FlattenSeq([i \in DOMAIN items |->
               Select(obs[s][items[i].id], LAMBDA o : ~Valid(o))])
  IN  [c \in {o.failure : o \in ToSet(all)} |->
         Quantify(DOMAIN all, LAMBDA i : all[i].failure = c)]

\* What report.html shows beside the verdicts and the levels: answers appear
\* for the largest differences only, and not at all with --no-text.
RenderReport(no_text) ==
  [notes |-> [s \in ToSet(Sides) |-> Notes(s)],
   failures |-> [s \in ToSet(Sides) |-> FailureClasses(s)],
   texts |-> IF no_text THEN {}
             ELSE {Modal(s, it.id) : s \in ToSet(Sides), it \in ToSet(TopChanges)}]

WriteReport ==
  /\ cstage = "report"
  /\ \E significant \in SUBSET {m \in CompareMetrics : MayBeSignificant(m, Eligible(m))},
        no_text \in BOOLEAN :
       report' =
         [verdict |-> [m \in CompareMetrics |-> EvaluateMetric(m, m \in significant)],
          levels |-> [s \in ToSet(Sides) |-> SideLevels(s)],
          returned |-> [s \in ToSet(Sides) |->
            {o.returned_model : o \in UNION {ToSet(Answers(s, it.id)) : it \in ToSet(items)}} \ {None}],
          page |-> RenderReport(no_text),
          modal_match |-> ModalMatch,
          top |-> [i \in DOMAIN TopChanges |-> TopChanges[i].id]]
  /\ code' = IF Measured("A") /\ Measured("B") THEN 0 ELSE 2
  /\ cstage' = "ended"
  /\ UNCHANGED <<items, repeats, turn, retries, side, obs, ways>>

CompareNext ==
  \/ \E lines \in SuiteFiles, n \in Repeats, sound, yes \in BOOLEAN, key \in CompareKeys :
       CompareMain(lines, n, sound, yes, key)
  \/ SkipAfterFatal
  \/ \E x \in CompareExchanges : Ask(x) \/ TemperatureFallback(x)
  \/ WriteReport

-----------------------------------------------------------------------------
(* What the report promises.                                               *)

CompareTypeOK ==
  /\ cstage \in {"args", "calling", "fallback", "report", "ended"}
  /\ turn \in 0 .. Planned
  /\ retries \in 0 .. MaxCallRetries
  /\ code \in {None, 0, 1, 2, 3}
  /\ \A s \in ToSet(Sides) :
       /\ side[s].fatal \in Fatal \cup {None}
       /\ side[s].send_temperature <=> side[s].temperature = "0"
       /\ \A id \in DOMAIN obs[s] : Len(obs[s][id]) <= repeats

\* How often side s answered item id with the value v.
Share(metric, s, id, v) ==
  LET values == Values(metric, s, id)
  IN  <<Quantify(DOMAIN values, LAMBDA i : values[i] = v), Len(values)>>

\* A metric is CHANGED only if both sides answered enough of the calls and
\* enough items, and some item is answered with other frequencies by A than
\* by B: two models that behave alike are never told apart by the sample.
VerdictEarned ==
  report # None => \A m \in CompareMetrics : report.verdict[m] = "CHANGED" =>
    /\ \A s \in ToSet(Sides) :
         100 * MapThenSumSet(LAMBDA it : Len(Answers(s, it.id)), ToSet(items))
           >= (100 - FailureLimit) * repeats * Len(items)
    /\ MinItems <= Cardinality({it \in ToSet(items) :
         \A s \in ToSet(Sides) : Len(Values(m, s, it.id)) >= 2})
    /\ \E it \in ToSet(items) :
         /\ \A s \in ToSet(Sides) : Len(Values(m, s, it.id)) >= 2
         /\ \E v \in ToSet(Values(m, "A", it.id) \o Values(m, "B", it.id)) :
              LET a == Share(m, "A", it.id, v)
                  b == Share(m, "B", it.id, v)
              IN  a[1] * b[2] # b[1] * a[2]

\* A side without the note was asked at temperature 0 whenever it answered,
\* and one with it has answered without.
TemperatureStated ==
  report # None => \A s \in ToSet(Sides) :
    IF "ran at provider default" \in report.page.notes[s]
    THEN FALSE \in ways[s] ELSE ways[s] \subseteq {TRUE}

\* A planned call costs at most 1 + MAX_RETRIES requests; only one call of a side may
\* cost one more, for the temperature.
CallsBounded ==
  \A s \in ToSet(Sides) :
    LET asked == MapThenSumSet(LAMBDA id : Len(obs[s][id]), DOMAIN obs[s])
        open == Bit(cstage \in {"calling", "fallback"} /\ SideAt = s)
    IN  side[s].calls_made <= (asked + open) * (1 + MaxCallRetries)
                                + Bit(side[s].fallback_tried)

\* The report and what it cost are as the tool says.
HonestReport == VerdictEarned /\ TemperatureStated /\ CallsBounded

CompareSpec == CompareInit /\ [][CompareNext]_compareVars
=============================================================================
