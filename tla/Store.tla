-------------------------------- MODULE Store --------------------------------
(***************************************************************************)
(* The gateway's repository as its handlers use it: the tables, the        *)
(* backend chosen at start, and what a request for POST /v1/signals writes *)
(* and in which order.  Detector and quorum are those of Gateway.tla; here *)
(* any metric of a stored batch may alert and any public alert may         *)
(* complete a quorum.                                                      *)
(***************************************************************************)
EXTENDS Integers, SequencesExt

CONSTANTS
  None,
  Second,       \* a second, in units of the clock
  Day,          \* hours_back = 24, in units of the clock
  Batches,      \* the batches probes send, without their ids
  Metrics,      \* what may drift
  MaxRows,      \* bound: rows of telemetry_signals
  MaxAlerts,    \* bound: alerts a behaviour stores
  MaxTime,      \* bound: the clock
  MaxSetBacks   \* bound: times the clock is set back

\* A validated batch has all its fields.
BatchFields ==
  {"batch_id", "model_tuple", "client_id", "fleet_id", "suite_version", "result_count",
   "metrics"}

\* A rate is a fraction; nothing on the wire keeps it between 0 and 1.
Rates == Int \X (Nat \ {0})

\* A row of local_drift_alerts, of which a metric of a batch is the only cause.
LocalRow ==
  [id : Nat, timestamp : Nat, model_tuple : {b.model_tuple : b \in Batches},
   metric_name : Metrics, client_id : {b.client_id : b \in Batches},
   fleet_id : {b.fleet_id : b \in Batches}]

ASSUME StoreAssumption ==
  /\ Second \in Nat \ {0} /\ Day \in Nat
  /\ MaxRows \in Nat /\ MaxAlerts \in Nat /\ MaxTime \in Nat /\ MaxSetBacks \in Nat
  /\ \A b \in Batches :
       /\ DOMAIN b = BatchFields
       /\ "json_success_rate" \in DOMAIN b.metrics => b.metrics.json_success_rate \in Rates

\* None is neither a row nor a time.
ASSUME NoneAssumption ==
  /\ None \notin LocalRow
  /\ None \notin 0 .. MaxTime

SQLite == INSTANCE SignalRepository
ClickHouse == INSTANCE ClickHouseRepository

VARIABLES
  backend,   \* STORAGE_BACKEND
  columns,   \* the columns telemetry_signals has; {} before the first start
  open,      \* is the gateway up?
  now,       \* the clock of the gateway
  setBacks,  \* times it was set back
  signals, local, public, hooks,   \* the tables
  request,   \* the batch being handled, after its save; None between two
  reply,     \* what the last call answered; None when it answered nothing
  seen       \* history: the signals stored when an alert was

tables == <<signals, local, public, hooks>>
storeVars ==
  <<backend, columns, open, now, setBacks, tables, request, reply, seen>>

\* A database from before suite_version holds rows without it.
LegacyRow(b) ==
  [Last(SQLite!SaveBatch(<<>>, b, 0)) EXCEPT !.suite_version = None]

StoreInit ==
  /\ backend \in {"sqlite", "clickhouse"}
  /\ \/ columns = {} /\ signals = <<>>
     \/ /\ columns = SQLite!SignalColumns \ SQLite!AdditiveColumns
        /\ signals \in {<<>>} \cup
             {<<LegacyRow([b EXCEPT !.batch_id = 1])>> : b \in Batches}
  /\ local = <<>>
  /\ public = <<>>
  /\ hooks = {}
  /\ open = FALSE
  /\ now = 0
  /\ setBacks = 0
  /\ request = None
  /\ reply = None
  /\ seen = [local |-> <<>>, public |-> <<>>]

-----------------------------------------------------------------------------
(* BaseRepository: one backend behind one interface.                       *)

RecentSignals(model, limit) ==
  IF backend = "sqlite" THEN SQLite!GetRecentSignals(signals, model, limit)
  ELSE ClickHouse!GetRecentSignals(signals, model, limit)

RecentAlerts(model, hours_back) ==
  IF backend = "sqlite" THEN SQLite!GetRecentAlerts(public, model, now, hours_back)
  ELSE ClickHouse!GetRecentAlerts(public, model, now, hours_back)

ModelTuples ==
  IF backend = "sqlite" THEN SQLite!GetAllModelTuples(signals)
  ELSE ClickHouse!GetAllModelTuples(signals)

Webhook(fleet) ==
  IF backend = "sqlite" THEN SQLite!GetWebhook(hooks, fleet) ELSE ClickHouse!GetWebhook(fleet)

Known(id) ==
  IF backend = "sqlite" THEN SQLite!HasBatch(signals, id) ELSE ClickHouse!HasBatch(signals, id)

\* A statement that names a column the table lacks raises.
Usable == SQLite!SignalColumns \subseteq columns

-----------------------------------------------------------------------------
(* Start, and the writes of a request.                                     *)

\* The first start, and a restart at any later time: what a request still had
\* to write is lost.  The start fails if the re-warm reads a row without all
\* of its columns.
OpenStore ==
  /\ columns' \in IF backend = "sqlite"
                  THEN {SQLite!OpenDatabase(columns, refused) : refused \in BOOLEAN}
                  ELSE {ClickHouse!SetupTables(columns)}
  /\ open' = (Usable' \/ signals = <<>>)
  /\ request' = None
  /\ reply' = None
  /\ UNCHANGED <<backend, now, setBacks, tables, seen>>

Receive(b, id) ==
  LET batch == [b EXCEPT !.batch_id = id]
  IN  /\ open
      /\ request = None
      /\ IF ~Usable THEN reply' = [status |-> 500] /\ UNCHANGED <<signals, request>>
         ELSE IF Known(id) THEN reply' = [status |-> 409] /\ UNCHANGED <<signals, request>>
         ELSE /\ Len(signals) < MaxRows
              /\ signals' = IF backend = "sqlite"
                            THEN SQLite!SaveBatch(signals, batch, now)
                            ELSE ClickHouse!SaveBatch(signals, batch, now)
              /\ request' = [batch |-> batch, left |-> Metrics, quorum |-> None]
              /\ reply' = None
      /\ UNCHANGED <<backend, columns, open, now, setBacks, local, public, hooks, seen>>

StoreLocalAlert(metric) ==
  LET b == request.batch
  IN  /\ request # None
      /\ request.quorum = None
      /\ metric \in request.left
      /\ Len(local) < MaxAlerts
      /\ local' = IF backend = "sqlite"
                  THEN SQLite!SaveLocalAlert(local, b.model_tuple, metric, b.client_id, b.fleet_id, now)
                  ELSE ClickHouse!SaveLocalAlert(local, b.model_tuple, metric, b.client_id, b.fleet_id, now)
      /\ \E met \in IF b.fleet_id = None THEN BOOLEAN ELSE {FALSE} :
           request' = [request EXCEPT !.left = @ \ {metric},
                                      !.quorum = IF met THEN metric ELSE None]
      /\ seen' = [seen EXCEPT !.local = Append(@, Len(signals))]
      /\ \E h \in IF b.fleet_id = None THEN {None} ELSE Webhook(b.fleet_id) :
           reply' = IF h = None THEN None ELSE [notify |-> h.target_url]
      /\ UNCHANGED <<backend, columns, open, now, setBacks, signals, public, hooks>>

StorePublicAlert ==
  /\ request # None
  /\ request.quorum # None
  /\ public' = IF backend = "sqlite"
               THEN SQLite!SavePublicAlert(public, request.batch.model_tuple, request.quorum, 3, now)
               ELSE ClickHouse!SavePublicAlert(public, request.batch.model_tuple, request.quorum, 3, now)
  /\ request' = [request EXCEPT !.quorum = None]
  /\ seen' = [seen EXCEPT !.public = Append(@, Len(signals))]
  /\ reply' = None
  /\ UNCHANGED <<backend, columns, open, now, setBacks, signals, local, hooks>>

Accept ==
  /\ request # None
  /\ request.quorum = None
  /\ request' = None
  /\ reply' = [status |-> 202]
  /\ UNCHANGED <<backend, columns, open, now, setBacks, tables, seen>>

\* Time passes, or an operator or a time service sets the clock back.
Tick ==
  /\ now < MaxTime
  /\ now' = now + 1
  /\ reply' = None
  /\ UNCHANGED <<backend, columns, open, setBacks, tables, request, seen>>

SetBack ==
  /\ setBacks < MaxSetBacks
  /\ now > 0
  /\ setBacks' = setBacks + 1
  /\ now' \in 0 .. now - 1
  /\ reply' = None
  /\ UNCHANGED <<backend, columns, open, tables, request, seen>>

-----------------------------------------------------------------------------
(* What either backend promises.                                           *)

\* The tables are well formed: a row is found under its place and belongs to
\* a batch that came once.
TablesSound ==
  /\ \A t \in {signals, local, public} : \A i \in DOMAIN t : t[i].id = i
  /\ \A i, j \in DOMAIN signals : signals[i].batch_id = signals[j].batch_id => i = j

\* No row is left out of an answer for one that is older by both the clock
\* and the order of arrival, and no answer mixes models.
NewestKept(A, model, limit) ==
  /\ \A r \in A : r.model_tuple = model
  /\ LET left == {r \in ToSet(signals) : r.model_tuple = model
                                          /\ \A a \in A : a.id # r.id}
     IN  /\ left # {} => Cardinality(A) = limit
         /\ \A r \in left, a \in A : ~(r.id > a.id /\ r.timestamp > a.timestamp)

\* Every quorum of the last day is in an answer, none that is older by a
\* second, whether or not the clock has parts of a second.
DayCovered(A, model) ==
  /\ \A r \in ToSet(public) :
       r.model_tuple = model /\ r.timestamp >= now - Day => r \in A
  /\ \A r \in A : r \in ToSet(public) /\ r.model_tuple = model
                   /\ r.timestamp > now - Day - Second

\* Both backends keep the interface's promises on every reachable table.
ContractKept ==
  /\ TablesSound
  /\ \A model \in ModelTuples :
       /\ \A limit \in 1 .. MaxRows : RecentSignals(model, limit) # {}
            /\ \A A \in RecentSignals(model, limit) : NewestKept(A, model, limit)
       /\ \A A \in RecentAlerts(model, Day) : DayCovered(A, model)
=============================================================================
