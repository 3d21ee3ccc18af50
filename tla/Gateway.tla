------------------------------- MODULE Gateway -------------------------------
(***************************************************************************)
(* gateway/main.py: POST /v1/signals over the detector (Cusum), the scorer *)
(* (QuorumPolicy) and the repository, with crashes, restarts and failing   *)
(* backends.                                                               *)
(*                                                                         *)
(* A gateway process is a node.  Its handler never awaits between the      *)
(* duplicate check and the answer, so a node serves one request at a time, *)
(* but every call that leaves the process (database, Redis) is a step of   *)
(* its own: the process may stop, or the call may raise, between any two.  *)
(* Nodes share the database; the scorer is shared with QUORUM_BACKEND=redis *)
(* and private to the process otherwise.                                   *)
(***************************************************************************)
EXTENDS QuorumPolicy, Cusum, SequencesExt

CONSTANTS
  Nodes,            \* gateway processes
  SharedScorer,     \* QUORUM_BACKEND = "redis"
  Fleets,           \* private fleets
  Models, Suites, Metrics,
  ReplayedMetrics,  \* the metrics bootstrap_detector feeds back
  BootstrapLimit,   \* get_recent_signals(limit=50)
  Payloads,         \* what a batch may carry (see Payload)
  CallsMayFail,     \* may a database or Redis call raise?
  MayStop,          \* may a process stop?
  MaxBatches,       \* bound: batches ever produced
  MaxFaults,        \* bound: crashes and failing calls
  MaxTime           \* bound: clock readings

NoFleet == "public"

Streams == [model : Models, suite : Suites, metric : Metrics]

\* metrics is the dict in iteration order, each key once; client is the
\* client_id that the probe's Aggregator draws for a run.
Payload ==
  [client : Orgs, fleet : Fleets \cup {NoFleet},
   model : Models, suite : Suites,
   metrics : Seq([name : Metrics, value : Int]),
   form : {"valid", "unsigned", "malformed"}]

ASSUME GatewayAssumption ==
  /\ NoFleet \notin Fleets
  /\ {SharedScorer, CallsMayFail, MayStop} \subseteq BOOLEAN
  /\ ReplayedMetrics \subseteq Metrics
  /\ BootstrapLimit \in Nat \ {0}
  /\ MaxTime \in Nat \ {0}
  /\ Payloads \subseteq Payload
  /\ \A b \in Payloads : \A j, k \in DOMAIN b.metrics :
       b.metrics[j].name = b.metrics[k].name => j = k
  /\ MaxBatches \in Nat /\ MaxFaults \in Nat

VARIABLES
  \* The wire and the answers.
  wire,        \* the batches produced so far; batch_id i is wire[i]
  answered,    \* history: batch_id -> the status codes returned for it
  \* The database: shared by the nodes, survives them.
  rows,        \* telemetry_signals: the batch_ids in insertion order
  local,       \* local_drift_alerts, in insertion order
  public,      \* public_drift_alerts, in insertion order
  webhooks,    \* webhook_configs: the fleets registered
  \* The scorer: one per node, or one in Redis.
  agree, observers,
  \* The processes.
  up,          \* node -> running?
  detector,    \* node -> app.state.detector
  private,     \* node -> fleet -> app.state.private_detectors[fleet]
  tasks,       \* node -> fleet -> scheduled webhook dispatches
  req,         \* node -> the request being handled
  clock, faults,
  \* History.
  promoted,    \* the promotions, with who was counted
  strayed      \* <<stream, client>>: its own observation left the slack band

wireVars == <<wire, answered>>
dbVars == <<rows, local, public, webhooks>>
scorerVars == <<agree, observers>>
processVars == <<up, detector, private, tasks, req>>
worldVars == <<clock, faults>>
historyVars == <<promoted, strayed>>
vars == <<wireVars, dbVars, scorerVars, processVars, worldVars, historyVars>>

-----------------------------------------------------------------------------
(* Requests.                                                               *)

Idle == [pc |-> "idle", id |-> 0, todo |-> <<>>, count |-> 0]

Batch(n) == wire[req[n].id]

IsPublic(n) == Batch(n).fleet = NoFleet

\* The metric the loop is at, and its stream.
Metric(n) == Head(req[n].todo)

StreamOf(b, metric) == [model |-> b.model, suite |-> b.suite, metric |-> metric]

Stream(n) == StreamOf(Batch(n), Metric(n).name)

At(n, pc) == up[n] /\ req[n].pc = pc

GoTo(n, pc) == req' = [req EXCEPT ![n].pc = pc]

\* On to the next metric of the batch.
NextMetric(n) == req' = [req EXCEPT ![n].pc = "metric", ![n].todo = Tail(@)]

AnswerDefault(i, code) ==
  answered' = [answered EXCEPT ![i] = @ \cup {IF code = 202 THEN 200 ELSE code}]

Answer(i, code) == answered' = [answered EXCEPT ![i] = @ \cup {code}]

\* The scorer instance node n talks to.
Scorers == IF SharedScorer THEN {"redis"} ELSE Nodes

ScorerOf(n) == IF SharedScorer THEN "redis" ELSE n

DroppedNot(x, s) == agree

\* The candidates of one stream are spent.
Dropped(x, s) == [agree EXCEPT ![x][s] = EmptyTable]

HasBatchSkipped(i) == FALSE

HasBatch(i) == \E k \in DOMAIN rows : rows[k] = i

Untracked == [s \in Streams |-> NewMetricState]

\* A fleet's detector is made on its first signal and kept.
FleetState(n, s) == private[n][Batch(n).fleet][s]

AfterLocalAlertAlways(n) == "candidate"

\* Only public alerts go on to the scorer.
AfterLocalAlert(n) == IF IsPublic(n) THEN "candidate" ELSE "notify"

FiledIfStanding(n) ==
  IF LiveOrgs(agree[ScorerOf(n)][Stream(n)], clock) = {} THEN public
  ELSE Append(public, [model |-> Batch(n).model, metric |-> Metric(n).name,
                       count |-> req[n].count, at |-> clock])

Filed(n) ==
  Append(public, [model |-> Batch(n).model, metric |-> Metric(n).name,
                  count |-> req[n].count, at |-> clock])

-----------------------------------------------------------------------------
(* bootstrap_detector                                                      *)

ValueOf(i, metric) ==
  LET ms == wire[i].metrics
  IN  ms[CHOOSE k \in DOMAIN ms : ms[k].name = metric].value

Carries(i, s) ==
  /\ wire[i].model = s.model
  /\ wire[i].suite = s.suite
  /\ \E k \in DOMAIN wire[i].metrics : wire[i].metrics[k].name = s.metric

\* The places of the rows that an observer of stream s reads.
OfStream(s) == {k \in DOMAIN rows : Carries(rows[k], s)}

RecentSignalsSkipNewest(model) ==
  LET mine == {k \in DOMAIN rows : wire[rows[k]].model = model}
  IN  {k \in mine : Cardinality({j \in mine : j > k}) \in 1 .. BootstrapLimit}

\* The places of the last rows of a model, whatever their suite and fleet.
RecentSignals(model) ==
  LET mine == {k \in DOMAIN rows : wire[rows[k]].model = model}
  IN  {k \in mine : Cardinality({j \in mine : j > k}) < BootstrapLimit}

\* The state of a stream that was fed the rows at these places, oldest first,
\* alerts discarded.
Replay(places, metric) ==
  LET after[k \in 0 .. Len(rows)] ==
        IF k = 0 THEN NewMetricState
        ELSE IF k \in places THEN Updated(after[k - 1], ValueOf(rows[k], metric))
        ELSE after[k - 1]
  IN  after[Len(rows)]

Bootstrapped ==
  [s \in Streams |-> IF s.metric \in ReplayedMetrics
                     THEN Replay(RecentSignals(s.model) \cap OfStream(s), s.metric)
                     ELSE NewMetricState]

-----------------------------------------------------------------------------

Init ==
  /\ wire = <<>>
  /\ answered = [i \in 1 .. MaxBatches |-> {}]
  /\ rows = <<>>
  /\ local = <<>>
  /\ public = <<>>
  /\ webhooks = {}
  /\ agree = [x \in Scorers |-> [s \in Streams |-> EmptyTable]]
  /\ observers = [x \in Scorers |-> [s \in Streams |-> EmptyTable]]
  /\ up = [n \in Nodes |-> TRUE]
  /\ detector = [n \in Nodes |-> Untracked]
  /\ private = [n \in Nodes |-> [f \in Fleets |-> Untracked]]
  /\ tasks = [n \in Nodes |-> [f \in Fleets |-> 0]]
  /\ req = [n \in Nodes |-> Idle]
  /\ clock = 1
  /\ faults = 0
  /\ promoted = <<>>
  /\ strayed = {}

\* Signature, schema and duplicate check: an answer, or the handler goes on.
Admit(n, i, b) ==
  LET code == IF b.form = "unsigned" THEN 401
              ELSE IF b.form = "malformed" THEN 422
              ELSE IF HasBatch(i) THEN 409 ELSE 202
  IN  IF code = 202
      THEN /\ req' = [req EXCEPT ![n] = [pc |-> "save", id |-> i,
                                         todo |-> b.metrics, count |-> 0]]
           /\ UNCHANGED answered
      ELSE /\ Answer(i, code)
           /\ UNCHANGED req

ReceiveNew(n) ==
  /\ At(n, "idle")
  /\ Len(wire) < MaxBatches
  /\ \E b \in Payloads : /\ wire' = Append(wire, b)
                         /\ Admit(n, Len(wire) + 1, b)
  /\ UNCHANGED <<dbVars, scorerVars, up, detector, private, tasks,
                 worldVars, historyVars>>

\* A batch whose first outcome the probe does not know arrives again.
Redeliver(n) ==
  /\ At(n, "idle")
  /\ \E i \in DOMAIN wire : Admit(n, i, wire[i])
  /\ UNCHANGED <<wire, dbVars, scorerVars, up, detector, private, tasks,
                 worldVars, historyVars>>

SaveBatch(n) ==
  /\ At(n, "save")
  /\ rows' = Append(rows, req[n].id)
  /\ GoTo(n, "metric")
  /\ UNCHANGED <<wireVars, local, public, webhooks, scorerVars,
                 up, detector, private, tasks, worldVars, historyVars>>

\* scorer.observe, then detector.update.
ScorePublic(n) ==
  LET s == Stream(n)
      x == ScorerOf(n)
      old == detector[n][s]
      new == Updated(old, Metric(n).value)
      z == ZScore(old, Metric(n).value)
  IN
  /\ At(n, "metric")
  /\ req[n].todo # <<>>
  /\ IsPublic(n)
  /\ observers' = [observers EXCEPT ![x][s] = Record(@, Batch(n).client, clock)]
  /\ detector' = [detector EXCEPT ![n][s] = new]
  /\ IF Direction(new) = "none" THEN NextMetric(n) ELSE GoTo(n, "local")
  /\ strayed' = IF old.ready /\ (z > K \/ -z > K)
                THEN strayed \cup {<<s, Batch(n).client>>} ELSE strayed
  /\ UNCHANGED <<wireVars, dbVars, agree, up, private, tasks, worldVars, promoted>>

\* The fleet's own detector; the scorer is not told.
ScorePrivate(n) ==
  LET s == Stream(n)
      f == Batch(n).fleet
      new == Updated(FleetState(n, s), Metric(n).value)
  IN
  /\ At(n, "metric")
  /\ req[n].todo # <<>>
  /\ ~ IsPublic(n)
  /\ private' = [private EXCEPT ![n][f][s] = new]
  /\ IF Direction(new) = "none" THEN NextMetric(n) ELSE GoTo(n, "local")
  /\ UNCHANGED <<wireVars, dbVars, scorerVars, up, detector, tasks,
                 worldVars, historyVars>>

SaveLocalAlert(n) ==
  /\ At(n, "local")
  /\ local' = Append(local, [model |-> Batch(n).model, metric |-> Metric(n).name,
                             client |-> Batch(n).client,
                             fleet |-> Batch(n).fleet, at |-> clock])
  /\ GoTo(n, AfterLocalAlert(n))
  /\ UNCHANGED <<wireVars, rows, public, webhooks, scorerVars,
                 up, detector, private, tasks, worldVars, historyVars>>

\* get_webhook, then create_task: the dispatch is scheduled, not awaited.
Notify(n) ==
  LET f == Batch(n).fleet IN
  /\ At(n, "notify")
  /\ tasks' = IF f \in webhooks THEN [tasks EXCEPT ![n][f] = @ + 1] ELSE tasks
  /\ NextMetric(n)
  /\ UNCHANGED <<wireVars, dbVars, scorerVars, up, detector, private,
                 worldVars, historyVars>>

\* scorer.ingest of the bridged ChangePointResult, stamped by the wall clock.
IngestCandidate(n) ==
  LET s == Stream(n)
      x == ScorerOf(n)
      c == Batch(n).client
  IN
  /\ At(n, "candidate")
  /\ agree' = [agree EXCEPT ![x][s] = Record(@, c, clock)]
  /\ observers' = [observers EXCEPT ![x][s] = Record(@, c, clock)]
  /\ GoTo(n, "promote")
  /\ UNCHANGED <<wireVars, dbVars, up, detector, private, tasks,
                 worldVars, historyVars>>

Promote(n) ==
  LET s == Stream(n)
      x == ScorerOf(n)
      voters == LiveOrgs(agree[x][s], clock)
  IN
  /\ At(n, "promote")
  /\ IF QuorumMet(observers[x][s], agree[x][s], clock)
     THEN /\ agree' = Dropped(x, s)
          /\ req' = [req EXCEPT ![n].pc = "public",
                                ![n].count = Cardinality(voters)]
          /\ promoted' = Append(promoted, [stream |-> s, voters |-> voters,
                                           at |-> clock])
     ELSE /\ NextMetric(n)
          /\ UNCHANGED <<agree, promoted>>
  /\ UNCHANGED <<wireVars, dbVars, observers, up, detector, private, tasks,
                 worldVars, strayed>>

SavePublicAlert(n) ==
  /\ At(n, "public")
  /\ public' = Filed(n)
  /\ GoTo(n, "clear")
  /\ UNCHANGED <<wireVars, rows, local, webhooks, scorerVars,
                 up, detector, private, tasks, worldVars, historyVars>>

\* The scorer has dropped the candidates already; the handler clears again.
ClearCandidates(n) ==
  /\ At(n, "clear")
  /\ agree' = Dropped(ScorerOf(n), Stream(n))
  /\ NextMetric(n)
  /\ UNCHANGED <<wireVars, dbVars, observers, up, detector, private, tasks,
                 worldVars, historyVars>>

Respond(n) ==
  /\ At(n, "metric")
  /\ req[n].todo = <<>>
  /\ Answer(req[n].id, 202)
  /\ req' = [req EXCEPT ![n] = Idle]
  /\ UNCHANGED <<wire, dbVars, scorerVars, up, detector, private, tasks,
                 worldVars, historyVars>>

\* A backend call raises before it took effect: 500, memory kept as it is.
Raise(n) ==
  /\ up[n]
  /\ CallsMayFail
  /\ faults < MaxFaults
  /\ faults' = faults + 1
  /\ \/ req[n].pc \in {"save", "local", "public", "notify"}
     \/ SharedScorer /\ req[n].pc \in {"candidate", "promote", "clear"}
     \/ SharedScorer /\ req[n].pc = "metric" /\ req[n].todo # <<>> /\ IsPublic(n)
  /\ Answer(req[n].id, 500)
  /\ req' = [req EXCEPT ![n] = Idle]
  /\ UNCHANGED <<wire, dbVars, scorerVars, up, detector, private, tasks,
                 clock, historyVars>>

\* The process ends anywhere: memory, pending dispatches and answer are lost.
Stop(n) ==
  /\ up[n]
  /\ MayStop
  /\ faults < MaxFaults
  /\ faults' = faults + 1
  /\ up' = [up EXCEPT ![n] = FALSE]
  /\ req' = [req EXCEPT ![n] = Idle]
  /\ detector' = [detector EXCEPT ![n] = Untracked]
  /\ private' = [private EXCEPT ![n] = [f \in Fleets |-> Untracked]]
  /\ tasks' = [tasks EXCEPT ![n] = [f \in Fleets |-> 0]]
  /\ IF SharedScorer THEN UNCHANGED scorerVars
     ELSE /\ agree' = [agree EXCEPT ![n] = [s \in Streams |-> EmptyTable]]
          /\ observers' = [observers EXCEPT ![n] = [s \in Streams |-> EmptyTable]]
  /\ UNCHANGED <<wireVars, dbVars, clock, historyVars>>

\* lifespan: fresh objects, then the detector is re-warmed from the database.
Start(n) ==
  /\ ~ up[n]
  /\ up' = [up EXCEPT ![n] = TRUE]
  /\ detector' = [detector EXCEPT ![n] = Bootstrapped]
  /\ UNCHANGED <<wireVars, dbVars, scorerVars, private, tasks, req,
                 worldVars, historyVars>>

\* POST /v1/webhooks: an upsert, so a fleet has one registration.
RegisterWebhook(n, f) ==
  /\ At(n, "idle")
  /\ webhooks' = webhooks \cup {f}
  /\ UNCHANGED <<wireVars, rows, local, public, scorerVars, processVars,
                 worldVars, historyVars>>

\* A scheduled dispatch posts once; a failure is logged and not retried.
Dispatch(n, f) ==
  /\ up[n]
  /\ tasks[n][f] > 0
  /\ tasks' = [tasks EXCEPT ![n][f] = @ - 1]
  /\ UNCHANGED <<wireVars, dbVars, scorerVars, up, detector, private, req,
                 worldVars, historyVars>>

\* A request is short against the clock's unit: none spans a tick.
Tick ==
  /\ clock < MaxTime
  /\ \A n \in Nodes : req[n].pc = "idle"
  /\ clock' = clock + 1
  /\ UNCHANGED <<wireVars, dbVars, scorerVars, processVars, faults, historyVars>>

Handle(n) ==
  \/ SaveBatch(n) \/ ScorePublic(n) \/ ScorePrivate(n) \/ SaveLocalAlert(n)
  \/ Notify(n) \/ IngestCandidate(n) \/ Promote(n) \/ SavePublicAlert(n)
  \/ ClearCandidates(n) \/ Respond(n)

Next ==
  \/ Tick
  \/ \E n \in Nodes :
       \/ ReceiveNew(n) \/ Redeliver(n) \/ Handle(n)
       \/ Raise(n) \/ Stop(n) \/ Start(n)
       \/ \E f \in Fleets : RegisterWebhook(n, f) \/ Dispatch(n, f)

Spec == Init /\ [][Next]_vars

\* A running process finishes the request it has begun.
FairSpec == Spec /\ \A n \in Nodes : WF_vars(Handle(n))

-----------------------------------------------------------------------------
(* Properties.                                                             *)

Request ==
  [pc : {"idle", "save", "metric", "local", "notify", "candidate", "promote",
         "public", "clear"},
   id : 0 .. MaxBatches, todo : Seq([name : Metrics, value : Int]), count : Nat]

\* The shape of the wire, the tables, the processes and the requests.
TypeOK ==
  /\ wire \in Seq(Payload) /\ rows \in Seq(DOMAIN wire)
  /\ answered \in [1 .. MaxBatches -> SUBSET {202, 401, 409, 422, 500}]
  /\ local \in Seq([model : Models, metric : Metrics, client : Orgs,
                     fleet : Fleets \cup {NoFleet}, at : 1 .. MaxTime])
  /\ public \in Seq([model : Models, metric : Metrics, count : Nat,
                      at : 1 .. MaxTime])
  /\ webhooks \subseteq Fleets
  /\ agree \in [Scorers -> [Streams -> Table]]
  /\ observers \in [Scorers -> [Streams -> Table]]
  /\ up \in [Nodes -> BOOLEAN]
  /\ detector \in [Nodes -> [Streams -> MetricState]]
  /\ private \in [Nodes -> [Fleets -> [Streams -> MetricState]]]
  /\ tasks \in [Nodes -> [Fleets -> Nat]]
  /\ req \in [Nodes -> Request]
  /\ clock \in 1 .. MaxTime /\ faults \in 0 .. MaxFaults

\* The clients whose local alerts stand behind a public one.
Reporters(p) ==
  {c \in Orgs : \E k \in DOMAIN local :
     /\ local[k].client = c
     /\ local[k].model = p.model /\ local[k].metric = p.metric
     /\ local[k].fleet = NoFleet
     /\ p.at - TTL <= local[k].at /\ local[k].at <= p.at}

\* Every public alert in the database is explained by the database: at least
\* as many distinct public clients as it counts, and at least the floor, have
\* a stored local alert of their own within the TTL, whatever processes
\* crashed, calls failed or batches were re-sent in between (ingest_signals
\* stores the local alert before it votes).
PublicAlertsBacked ==
  \A k \in DOMAIN public :
    /\ public[k].count >= Floor
    /\ public[k].count <= Cardinality(Reporters(public[k]))

\* A vote is spent by the promotion that counts it: a client is counted in no
\* more promotions than it has public local alerts, even when the promotion
\* is never stored or another node promotes at the same time.
VotesNotReused ==
  \A c \in Orgs, model \in Models, metric \in Metrics :
    Cardinality({k \in DOMAIN promoted :
                   /\ promoted[k].stream.model = model
                   /\ promoted[k].stream.metric = metric
                   /\ c \in promoted[k].voters})
      <= Cardinality({k \in DOMAIN local :
                        /\ local[k].client = c /\ local[k].fleet = NoFleet
                        /\ local[k].model = model
                        /\ local[k].metric = metric})

PlacesOf(fleet) == {k \in DOMAIN rows : wire[rows[k]].fleet = fleet}

\* Private traffic leaves no trace in the quorum: who watches or agrees on a
\* stream has itself sent a stored public batch on that stream (the docstring's
\* "private fleet alerts never enter AgreementScorer").
PrivateIsolation ==
  \A x \in Scorers, s \in Streams, c \in Orgs :
    observers[x][s][c] # Absent \/ agree[x][s][c] # Absent =>
      \E i \in ToSet(rows) :
        wire[i].fleet = NoFleet /\ wire[i].client = c /\ Carries(i, s)

\* Between requests the public detector is a function of the public rows in
\* the order they were stored: each row scored once, none twice when a batch
\* is re-sent, none lost or reordered by a crash and a re-warm that can see
\* all of them (ingest_signals and bootstrap_detector agree).
PublicDetectorMatchesRows ==
  \A n \in Nodes : At(n, "idle") =>
    \A s \in Streams :
      detector[n][s] = Replay(PlacesOf(NoFleet) \cap OfStream(s), s.metric)

\* A batch_id is stored once, however often and whenever it is re-sent, and
\* whoever was told 202 or 409 can forget it: the row is there and stays there.
StoredOnce ==
  /\ \A j, k \in DOMAIN rows : rows[j] = rows[k] => j = k
  /\ \A i \in DOMAIN wire : answered[i] \cap {202, 409} # {} => HasBatch(i)

Sighted(x, s) == {o \in Orgs : observers[x][s][o] # Absent}

\* No quorum goes unnoticed: between requests no stream holds enough live
\* candidates for the quorum of everyone ever sighted on it, because every
\* candidate is followed by a check in the same request.
NoMissedQuorum ==
  (\A n \in Nodes : At(n, "idle")) =>
    \A x \in Scorers, s \in Streams :
      LET live == Cardinality(LiveOrgs(agree[x][s], clock))
      IN  live = 0 \/ live < RequiredQuorum(Cardinality(Sighted(x, s)))

\* A public alert has a cause on its own stream: some public client's own
\* observation left the slack band of that stream's baseline.  Suites, metrics
\* and private fleets never add up to one.
PublicAlertHasCause ==
  \A k \in DOMAIN promoted :
    \E c \in Orgs : <<promoted[k].stream, c>> \in strayed

\* A promotion consumes its candidates, so it must reach the database: as long
\* as no process stops and no call fails, every promotion is filed, with one
\* public alert each, whatever the nodes interleave.
PromotionIsFiled ==
  []<>(Len(public) = Len(promoted) \/ faults > 0)

-----------------------------------------------------------------------------
(* What documents and comments say that the code does not do.              *)

\* AgreementScorer: the orgs of a quorum "must independently signal a change".
QuorumIsIndependent ==
  \A k \in DOMAIN promoted :
    \A c \in promoted[k].voters : <<promoted[k].stream, c>> \in strayed

\* REQ-ENT-001: public and private detectors are fully isolated.
FleetsStayOut ==
  \A n \in Nodes, s \in Streams :
    detector[n][s].n <= Cardinality(PlacesOf(NoFleet) \cap OfStream(s))
=============================================================================
