--------------------------- MODULE SignalRepository ---------------------------
(***************************************************************************)
(* engine/repository.py: the SQLite backend.  A table is the sequence of   *)
(* its rows and the id of a row its place; times are those of the clock of *)
(* the process that writes.                                                *)
(*                                                                         *)
(* An operator for a read is the set of its possible answers: an order by  *)
(* time leaves rows of the same time in any order, and a limit may then    *)
(* cut anywhere among them.  An answer of several rows is their set.       *)
(***************************************************************************)
EXTENDS Integers, SequencesExt

CONSTANT None   \* Python's None, NULL in the tables

-----------------------------------------------------------------------------
(* DatabaseSession: the schema of telemetry_signals.                       *)

AdditiveColumns == {"suite_version"}

\* TelemetrySignal.
SignalColumns ==
  {"id", "batch_id", "timestamp", "model_tuple", "avg_output_length",
   "json_success_rate", "result_count", "fleet_id"} \cup AdditiveColumns

\* create_all makes a table that is missing and leaves another one alone.
CreateAll(present) == IF present = {} THEN SignalColumns ELSE present

\* A refused ALTER TABLE is logged and swallowed.
ApplyAdditiveColumns(present, refused) ==
  IF refused THEN present ELSE present \cup AdditiveColumns

OpenDatabase(present, refused) == ApplyAdditiveColumns(CreateAll(present), refused)

-----------------------------------------------------------------------------
(* Writes.  A metric the batch lacks is NULL.                              *)

MetricOf(batch, name) ==
  IF name \in DOMAIN batch.metrics THEN batch.metrics[name] ELSE None

SaveBatch(signals, batch, now) ==
  Append(signals,
    [id |-> Len(signals) + 1, batch_id |-> batch.batch_id, timestamp |-> now,
     model_tuple |-> batch.model_tuple,
     avg_output_length |-> MetricOf(batch, "avg_output_length"),
     json_success_rate |-> MetricOf(batch, "json_success_rate"),
     result_count |-> IF "result_count" \in DOMAIN batch.metrics
                      THEN batch.metrics.result_count ELSE batch.result_count,
     fleet_id |-> batch.fleet_id, suite_version |-> batch.suite_version])

SaveLocalAlert(alerts, model, metric, client, fleet, now) ==
  Append(alerts,
    [id |-> Len(alerts) + 1, timestamp |-> now, model_tuple |-> model,
     metric_name |-> metric, client_id |-> client, fleet_id |-> fleet])

SavePublicAlert(alerts, model, metric, orgs, now) ==
  Append(alerts,
    [id |-> Len(alerts) + 1, timestamp |-> now, model_tuple |-> model,
     metric_name |-> metric, contributing_org_count |-> orgs])

\* Delete and insert in one session.
RegisterWebhook(hooks, fleet, url, token) ==
  {h \in hooks : h.fleet_id # fleet}
    \cup {[fleet_id |-> fleet, target_url |-> url, auth_token |-> token]}

-----------------------------------------------------------------------------
(* Reads.                                                                  *)

HasBatch(signals, id) == \E r \in ToSet(signals) : r.batch_id = id

OfModel(rows, model) == {r \in ToSet(rows) : r.model_tuple = model}

\* The first `limit` of R in descending order of a column.
Newest(R, column, limit) ==
  LET n == IF Cardinality(R) < limit THEN Cardinality(R) ELSE limit
  IN  {A \in kSubset(n, R) : \A a \in A, r \in R \ A : a[column] >= r[column]}

GetRecentSignalsOldest(signals, model, limit) ==
  LET R == OfModel(signals, model)
  IN  {A \in SUBSET R : /\ Cardinality(A) = IF Cardinality(R) < limit THEN Cardinality(R) ELSE limit
                        /\ \A a \in A, r \in R \ A : a.id <= r.id}

\* Newest by id, whatever the clock said.
GetRecentSignals(signals, model, limit) ==
  Newest(OfModel(signals, model), "id", limit)

GetAllModelTuples(signals) == {r.model_tuple : r \in ToSet(signals)}

GetRecentAlerts(alerts, model, now, hours_back) ==
  {{r \in OfModel(alerts, model) : r.timestamp >= now - hours_back}}

GetWebhook(hooks, fleet) ==
  LET found == {h \in hooks : h.fleet_id = fleet}
  IN  IF found = {} THEN {None} ELSE found

Looked(alerts, id) == IF id \in DOMAIN alerts THEN {alerts[id]} ELSE {None}

GetLocalAlertById(alerts, id) == Looked(alerts, id)

GetPublicAlertById(alerts, id) == Looked(alerts, id)

GetSignalsBeforeTimestamp(signals, model, timestamp, fleet, limit) ==
  Newest({r \in OfModel(signals, model) :
            /\ r.timestamp < timestamp
            /\ fleet # None => r.fleet_id = fleet},
         "timestamp", limit)
=============================================================================
