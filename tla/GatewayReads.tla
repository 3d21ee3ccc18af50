----------------------------- MODULE GatewayReads -----------------------------
(***************************************************************************)
(* The other endpoints of gateway/main.py over the repository: the public  *)
(* weather, the registration of webhooks and the audit export with its     *)
(* report of engine/audit.py.  A handler runs to its end in one step; a    *)
(* second worker of the same database may call it between two writes.      *)
(*                                                                         *)
(* Averages and rates are fractions <<numerator, denominator>>.            *)
(***************************************************************************)
EXTENDS Store

CONSTANTS
  StaleAfter,    \* STALE_AFTER_HOURS, in units of the clock
  WeatherRows,   \* the window of the weather (10)
  EvidenceRows,  \* the window of the evidence (50)
  Urls           \* webhook targets

ASSUME ReadsAssumption ==
  /\ StaleAfter \in Nat
  /\ WeatherRows \in Nat \ {0} /\ EvidenceRows \in Nat \ {0}

\* history: alert id -> what its first export showed
VARIABLE exported

readVars == <<storeVars, exported>>

ReadsInit == StoreInit /\ exported = [id \in {} |-> None]

ToReads(r) == reply' = r /\ UNCHANGED <<backend, columns, open, now, setBacks, signals,
                                        local, public, request, seen>>

-----------------------------------------------------------------------------
(* Weather.                                                                *)

Plus(p, q) == <<p[1] * q[2] + q[1] * p[2], p[2] * q[2]>>
Below(p, q) == p[1] * q[2] < q[1] * p[2]

\* Prompts of a suite, and those that score JSON.
JsonBaseBySuite == [v \in {"v1.0.0", "v1.1.0", "v2.0.0"} |->
  CASE v = "v1.0.0" -> [total |-> 3, scorable |-> 1]
    [] v = "v1.1.0" -> [total |-> 4, scorable |-> 1]
    [] v = "v2.0.0" -> [total |-> 50, scorable |-> 9]]

Clamped(p) ==
  IF Below(p, <<0, 1>>) THEN <<0, 1>> ELSE IF Below(<<1, 1>>, p) THEN <<1, 1>> ELSE p

ScorableJsonRateAnyCount(raw, count, suite) ==
  IF raw = None \/ suite \notin DOMAIN JsonBaseBySuite THEN None
  ELSE LET base == JsonBaseBySuite[suite]
       IN  Clamped(<<raw[1] * base.total, raw[2] * base.scorable>>)

\* Only a complete run of a known suite has a scale.
ScorableJsonRate(raw, count, suite) ==
  IF raw = None \/ count <= 0 \/ suite \notin DOMAIN JsonBaseBySuite THEN None
  ELSE LET base == JsonBaseBySuite[suite]
       IN  IF count # base.total THEN None
           ELSE Clamped(<<raw[1] * base.total, raw[2] * base.scorable>>)

\* The mean of f over the rows where it is not None.
Average(f) ==
  LET rows == {r \in DOMAIN f : f[r] # None}
      sum == FoldFunctionOnSet(Plus, <<0, 1>>, f, rows)
  IN  IF rows = {} THEN None ELSE <<sum[1], sum[2] * Cardinality(rows)>>

Counted(f) == Cardinality({r \in DOMAIN f : f[r] # None})

WindowAge(end) == IF end = None THEN None ELSE now - end

\* DRIFTING over STALE over STABLE.
StatusOf(alerts, age) ==
  IF alerts # {} THEN "DRIFTING"
  ELSE IF age = None THEN "STALE"
  ELSE IF age > StaleAfter THEN "STALE" ELSE "STABLE"

ModelWeather(model, window, alerts) ==
  LET lengths == [r \in window |->
                    IF r.avg_output_length = None THEN None ELSE <<r.avg_output_length, 1>>]
      rates == [r \in window |->
                  ScorableJsonRate(r.json_success_rate, r.result_count, r.suite_version)]
      stamps == {r.timestamp : r \in window}
      end == IF stamps = {} THEN None ELSE Max(stamps)
  IN  [status |-> StatusOf(alerts, WindowAge(end)),
       last_alert |-> IF alerts = {} THEN None ELSE Max({r.timestamp : r \in alerts}),
       avg_length |-> Average(lengths), json_rate |-> Average(rates),
       sample_count |-> Cardinality(window),
       json_samples |-> Counted(rates), length_samples |-> Counted(lengths),
       window_start |-> IF stamps = {} THEN None ELSE Min(stamps),
       window_end |-> end]

Weathers(model) ==
  {ModelWeather(model, window, alerts) :
     window \in RecentSignals(model, WeatherRows), alerts \in RecentAlerts(model, Day)}

\* GET /v1/weather.
Weather ==
  /\ open
  /\ \E f \in [ModelTuples -> UNION {Weathers(m) : m \in ModelTuples}] :
       /\ \A m \in ModelTuples : f[m] \in Weathers(m)
       /\ ToReads([status |-> 200, weather |-> f])
  /\ UNCHANGED <<hooks, exported>>

-----------------------------------------------------------------------------
(* Webhooks.                                                               *)

\* POST /v1/webhooks.
RegisterWebhook(admin, sound, fleet, url, token) ==
  /\ open
  /\ IF ~admin THEN ToReads([status |-> 401]) /\ UNCHANGED hooks
     ELSE IF ~sound THEN ToReads([status |-> 422]) /\ UNCHANGED hooks
     ELSE IF backend = "clickhouse" THEN ToReads([status |-> 500]) /\ UNCHANGED hooks
     ELSE /\ hooks' = SQLite!RegisterWebhook(hooks, fleet, url, token)
          /\ ToReads([status |-> 201])
  /\ UNCHANGED exported

-----------------------------------------------------------------------------
(* Audit export.                                                           *)

Details(type, r) == [type |-> type, row |-> r]

ResolutionsPublicFirst(id) ==
  {IF p # None THEN Details("public", p)
   ELSE IF r # None THEN Details("local", r) ELSE None :
     r \in SQLite!GetLocalAlertById(local, id),
     p \in SQLite!GetPublicAlertById(public, id)}

\* AuditReportGenerator.generate: local alerts first.
Resolutions(id) ==
  {IF r # None THEN Details("local", r)
   ELSE IF p # None THEN Details("public", p) ELSE None :
     r \in SQLite!GetLocalAlertById(local, id),
     p \in SQLite!GetPublicAlertById(public, id)}

FleetOf(d) == IF d.type = "local" THEN d.row.fleet_id ELSE None

\* The report without its time of export, which the checksum covers as well.
Reports(d) ==
  {[details |-> d, evidence |-> A] :
     A \in SQLite!GetSignalsBeforeTimestamp(signals, d.row.model_tuple,
             d.row.timestamp, FleetOf(d), EvidenceRows)}

Remembering(id, d) ==
  [i \in DOMAIN exported \cup {id} |-> IF i \in DOMAIN exported THEN exported[i] ELSE d]

\* GET /v1/alerts/{alert_id}/export; token: "unset", "wrong" or "right".
Export(id, token) ==
  /\ open
  /\ IF token = "unset" THEN ToReads([status |-> 503]) /\ UNCHANGED exported
     ELSE IF token = "wrong" THEN ToReads([status |-> 401]) /\ UNCHANGED exported
     ELSE IF backend = "clickhouse" THEN ToReads([status |-> 500]) /\ UNCHANGED exported
     ELSE \E d \in Resolutions(id) :
            IF d = None THEN ToReads([status |-> 404]) /\ UNCHANGED exported
            ELSE \E report \in Reports(d) :
                   /\ ToReads([status |-> 200, id |-> id, report |-> report])
                   /\ exported' = Remembering(id, d)
  /\ UNCHANGED hooks

Write ==
  /\ \/ OpenStore \/ StorePublicAlert \/ Accept \/ Tick \/ SetBack
     \/ \E b \in Batches, id \in 1 .. Len(signals) + 1 : Receive(b, id)
     \/ \E metric \in Metrics : StoreLocalAlert(metric)
  /\ UNCHANGED exported

Fleets == {b.fleet_id : b \in Batches} \ {None}

Read ==
  \/ Weather
  \/ \E admin, sound \in BOOLEAN, fleet \in Fleets, url \in Urls :
       RegisterWebhook(admin, sound, fleet, url, None)
  \/ \E id \in 1 .. MaxAlerts, token \in {"unset", "wrong", "right"} : Export(id, token)

Next == Write \/ Read

Spec == ReadsInit /\ [][Next]_readVars

-----------------------------------------------------------------------------
(* What a reader may rely on.                                              *)

\* The newest row of a model among those a reader can expect.
Heard(model, age) ==
  \E r \in ToSet(signals) : r.model_tuple = model /\ now - r.timestamp <= age

Alarmed(model, age) ==
  \E r \in ToSet(public) : r.model_tuple = model /\ now - r.timestamp <= age

\* The light says what the tables say: DRIFTING for every quorum of the last
\* day and for no other alert, STABLE only for a model that was heard of, and
\* STALE only for one that was not, unless the clock was set back.
LightTrue(model, w) ==
  /\ Alarmed(model, Day) => w.status = "DRIFTING"
  /\ w.status = "DRIFTING" => Alarmed(model, Day + Second - 1)
  /\ w.status = "STABLE" => Heard(model, StaleAfter)
  /\ w.status = "STALE" /\ setBacks = 0 => ~Heard(model, StaleAfter)

\* Whole runs in which every scored prompt came back as JSON, or whose noise
\* says so, are published as 1 and never as less, whatever partial or unknown
\* runs lie between, and a rate is a rate whatever came over the wire.
RateTrue(model, w) ==
  w.json_rate # None =>
    /\ ~Below(w.json_rate, <<0, 1>>) /\ ~Below(<<1, 1>>, w.json_rate)
    /\ w.json_samples \in 1 .. w.sample_count
    /\ (\A r \in ToSet(signals) :
          /\ r.model_tuple = model
          /\ r.suite_version \in DOMAIN JsonBaseBySuite
          /\ r.json_success_rate # None
          /\ r.result_count = JsonBaseBySuite[r.suite_version].total
          => ~Below(r.json_success_rate,
                    <<JsonBaseBySuite[r.suite_version].scorable, r.result_count>>))
       => ~Below(w.json_rate, <<1, 1>>)

WeatherHonest ==
  reply # None /\ "weather" \in DOMAIN reply =>
    \A m \in ModelTuples : LightTrue(m, reply.weather[m]) /\ RateTrue(m, reply.weather[m])

\* An alert id means one alert for ever, although local and public alerts
\* number themselves and an id is tried on both: a request stores its local
\* alert before the public one, so no id is taken over by a later alert.
OneAlertForEver(id, d) == id \in DOMAIN exported => exported[id] = d

\* The evidence of a report was there when its alert was stored (unless the
\* clock was set back), is of its model and, for a fleet's alert, its fleet.
EvidencePrecedes(id, report) ==
  \A r \in report.evidence :
    /\ r.model_tuple = report.details.row.model_tuple
    /\ setBacks = 0 => r.id <= seen[report.details.type][id]
    /\ FleetOf(report.details) # None => r.fleet_id = FleetOf(report.details)

AuditResolves ==
  reply # None /\ "report" \in DOMAIN reply =>
    /\ OneAlertForEver(reply.id, reply.report.details)
    /\ EvidencePrecedes(reply.id, reply.report)
=============================================================================
