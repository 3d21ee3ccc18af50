------------------------- MODULE ClickHouseRepository -------------------------
(***************************************************************************)
(* engine/clickhouse.py: the ClickHouse backend.  Where it does what the   *)
(* SQLite backend does it is stated by that one's operators, on times cut  *)
(* to a DateTime, which has no part of a second.  A row's id is a UUID     *)
(* here that nothing looks up; the model keeps the place of the row.       *)
(*                                                                         *)
(* Webhooks and look-ups by id are refused: the answer is "raise".         *)
(***************************************************************************)
EXTENDS Integers

CONSTANTS
  None,
  Second    \* a second, in units of the clock

Sql == INSTANCE SignalRepository

DateTime(t) == t - (t % Second)

-----------------------------------------------------------------------------

\* CREATE TABLE IF NOT EXISTS and ADD COLUMN IF NOT EXISTS, at every start; a
\* failure is not swallowed.
SetupTables(present) == Sql!OpenDatabase(present, FALSE)

SaveBatch(signals, batch, now) == Sql!SaveBatch(signals, batch, DateTime(now))

SaveLocalAlert(alerts, model, metric, client, fleet, now) ==
  Sql!SaveLocalAlert(alerts, model, metric, client, fleet, DateTime(now))

SavePublicAlert(alerts, model, metric, orgs, now) ==
  Sql!SavePublicAlert(alerts, model, metric, orgs, DateTime(now))

RegisterWebhook == "raise"

-----------------------------------------------------------------------------

HasBatch(signals, id) == Sql!HasBatch(signals, id)

\* _to_signal_row: a row older than the column belongs to the suite "".
ToSignalRow(r) ==
  [r EXCEPT !.suite_version = IF r.suite_version = None THEN "" ELSE r.suite_version]

SignalRows(answers) == {{ToSignalRow(r) : r \in A} : A \in answers}

\* Newest by time.
GetRecentSignals(signals, model, limit) ==
  SignalRows(Sql!Newest(Sql!OfModel(signals, model), "timestamp", limit))

GetAllModelTuples(signals) == Sql!GetAllModelTuples(signals)

GetRecentAlerts(alerts, model, now, hours_back) ==
  {{r \in Sql!OfModel(alerts, model) : r.timestamp >= DateTime(now - hours_back)}}

GetWebhook(fleet) == {None}

GetLocalAlertById(id) == "raise"

GetPublicAlertById(id) == "raise"

GetSignalsBeforeTimestamp(signals, model, timestamp, fleet, limit) ==
  SignalRows(Sql!GetSignalsBeforeTimestamp(signals, model, DateTime(timestamp), fleet, limit))
=============================================================================
