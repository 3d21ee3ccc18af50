# SEISMOGRAPH in TLA+

SEISMOGRAPH watches hosted language models for silent changes. Probes run a
canary suite against a model, add differential-privacy noise to the metrics and
post signed batches to a gateway. The gateway feeds every metric to a CUSUM
change-point detector and raises a *public* alert only when a quorum of distinct
clients signals a change on the same stream within a time window. Private fleets
have detectors of their own and are told by webhook.

This directory holds TLA+ modules of that system, TLC configurations that check
them on small instances and TLAPS proofs of what the core components promise.
Paths below are relative to the repository (`src/` in PROJECT.json).

## 1. Inventory

| Component | State | Operations | Interacts with |
|---|---|---|---|
| **Agreement scorer** `engine/correlation.py: AgreementScorer` | `_agree`, `_observers`: stream -> org -> latest time | `observe`, `ingest`, `promote_to_public_alert`, `clear` | called by the gateway for every public metric |
| **Redis scorer** `engine/scorer_redis.py` | the same two tables as sorted sets shared by all gateway nodes, with key expiry | the same, `promote` as one Lua script | selected by `QUORUM_BACKEND=redis` |
| **CUSUM detector** `engine/detector.py` | per (model, suite, metric): baseline buffer, mu0, sigma0, S+, S- | `update`, `reset` | one public object, one per private fleet |
| **Gateway ingestion** `gateway/main.py`, `engine/webhooks.py` | in memory the detectors and the scorer | `POST /v1/signals`, `lifespan`, `bootstrap_detector`, dispatch | probes, database, Redis, webhook targets |
| **Privacy budget** `probe/privacy.py: DPAccountant`, pacing in `probe/sdk.py` | spend, window start, file; last flush | `spend`, `reset_if_needed`, `_persist`, `_load` | gates `ProbeSDK.flush` |
| **Batch delivery** `probe/privacy.py: Aggregator`, `probe/sdk.py`, `probe/spool.py` | staged results; spool and quarantine directories | `add_result`, `flush`, `put`, `drain`, cap and expiry | network, gateway duplicate check |
| **Repositories** `engine/repository.py`, `engine/models.py`, `engine/clickhouse.py` | rows, local and public alerts, webhook registrations | `save_*`, `has_batch`, `get_*`, the additive columns of an old database | every endpoint of the gateway; `STORAGE_BACKEND` picks one |
| **Weather, webhooks** `gateway/main.py` | none (reads rows and alerts) | `GET /v1/weather`: DRIFTING > STALE > STABLE, `POST /v1/webhooks` | repository |
| **Audit export** `engine/audit.py` | none (reads) | look-up by alert id, evidence window | repository |
| **Canary runner** `probe/canary.py`, `probe/providers.py` | none that outlives a run | `complete_ex`, scoring, `execute_canary_strict`: retries under one time budget, all or nothing | feeds `add_result` |
| **Live emitter** `scripts/live_emit.py` | the spool of its leg | drain, strict run, signed batch, POST, exit code | canary runner, spool, gateway, scheduler |
| **Comparison tool** `probe/compare.py` | none | a suite asked of two sides in turn, retries, permutation tests, report | providers |
| Signatures, schema `gateway/auth.py`, `gateway/schema.py`, `probe/crypto.py` | keys | verify, validate | gateway, probe |
| **First-party fleet** `scripts/first_party_fleet.py` | per model an open span, staged results, an account, the last flush; all in memory | `probe_model`, the loop of `main` with jittered sleeps | providers, ProbeSDK, gateway |
| Adapters, Bayesian detector, dashboard, experiments | | | see PROJECT.json for each |

### What is hard, and what makes each part correct

* **Scorer.** Event times come from callers or from a wall clock that may be set
  back; both tables keep expired entries. Correct means: one live vote per org, the
  latest; a quorum that scales with the population and counts whoever agrees as
  watching; a promotion that consumes its own candidates and no others.
* **Detector.** Two clamped accumulators behind a frozen baseline. Correct means:
  in-band streams stay silent whatever other streams do, a lasting shift is always
  reported, a drift never becomes the baseline.
* **Gateway.** The handler makes a dozen calls that leave the process (database,
  Redis). It may crash or raise between any two; batches are re-sent; several
  nodes may share a scorer; a restart rebuilds the detector from rows. Correct
  means: a row is scored once, in the order stored; public alerts are backed by
  stored local alerts; a quorum is neither missed nor reused; fleets stay private.
* **Probe.** It may crash between charge and transmission, a POST that fails says
  nothing about what the gateway did, the spool has a cap and an age limit. Correct
  means: nothing is sent unpaid, results are counted once, no batch disappears
  silently, one bad batch does not block the rest.

* **Repository and its readers.** Two backends keep one interface with different clocks
  and orders; reads fall between the writes of a request; an old database may lack a
  column. Correct means: no newer row is hidden by an older one, the light of the
  weather is what the tables say, a published rate is not distorted by partial runs,
  and an exported alert keeps its meaning and its evidence.
* **Tools.** An endpoint may answer anything; calls are retried under a budget; a leg
  may be killed anywhere and its caller sees only an exit code. Correct means: a batch
  holds a whole run, retries are bounded in time and number, exit code 0 means stored,
  a verdict rests on enough answers and on a difference between them.
* **Fleet.** One thread serves every model for ever; calls, transmissions and the
  bookkeeping around them may fail in any round. Correct means: no failure ends the
  probes of a model or hides another, and short rounds do not exhaust the budget.

PROJECT.json lists each hazard at its line with the properties that answer to it.

## 2. Modules

```
         Engine_proofs --> the proofs about scorers, detector and gateway
                   ^
QuorumPolicy ------+--> AgreementScorer ----> AgreementScorer_proofs
     |             |        | implements
     |             |    QuorumGate
     |             |        | implements
     |             +--> RedisScorer --------> RedisScorer_proofs
     v
  Gateway <----- Cusum ----> CUSUMDetector ----> CUSUMDetector_proofs
     |
     +----> Gateway_proofs, MCGateway

Budget --+-> ProbeBudget ------+--> Budget_proofs, MCProbeBudget
         +-> FirstPartyFleet --+
ProbeDelivery ----> Probe_proofs, MCProbeDelivery

Provider ----> CanarySuite ----> StrictRunner
    |                                 |
    v                                 v
 Compare ----> ProbeTools <------- LiveEmit
                   |
                   +----> Probe_proofs, MCProbeTools

SignalRepository ----+
                     +----> Store ----> GatewayReads ----> GatewayReads_proofs, MCGatewayReads
ClickHouseRepository +
```

* **QuorumPolicy**: the pure part of the scorer: tables of event times, the live
  window, `q(M)`, the promotion test. A missing key is the time 0, as in
  `bucket.get(org, 0)`.
* **QuorumGate**: the abstract specification. It keeps a set of ballots and
  promotes a stream only on `Floor` orgs with live ballots, discarding them.
* **AgreementScorer**: the class, one action per public method plus the wall
  clock. Its `ballots` is a history variable; `GateKept == Gate!Spec` is the
  refinement.
* **RedisScorer**: the same gate for several nodes. A call is the sequence of Redis
  commands it sends (`calls`), `Send` executes the next, `Abandon` is a crash or a
  command that raises. `zset` holds the sorted sets, `left` the seconds a key has to
  live; `PromoteToPublicAlert` is the Lua script, `Clear` the `DEL`. Histories record
  when a candidate was added and whether an `EXPIRE` has followed. It implements the
  same QuorumGate, with instants in milliseconds.
* **Cusum**: `_MetricState` as operators on a record, in fixed point (`Unit` steps
  to 1.0; quotients and the square root round down). The buffer is kept as its two
  sums, all the code computes from it.
* **CUSUMDetector**: `update` and `reset` over all streams, with a history of how
  long each stream has been shifted and whether it ever left its slack band.
* **Gateway**: nodes, database, scorer, detectors, webhooks. A request is a
  program counter and the metrics still to score; each external call of the
  handler is one action (`SaveBatch`, `ScorePublic`, `SaveLocalAlert`,
  `IngestCandidate`, `Promote`, `SavePublicAlert`, `ClearCandidates`, `Notify`,
  `Respond`), `Raise` is such a call failing, `Stop` a crash, `Start` the lifespan
  with its re-warm. `Admit` is signature, schema and duplicate check, which happen
  without an await or a write in between.
* **Budget**, **ProbeBudget**: the accountant as operators, then the gate of
  `flush()` around it with its file, crashes and pacing.
* **FirstPartyFleet**: the loop, a program counter inside `probe_model` (`StartSpan`,
  `Call`, `CloseSpan`, `Flush`, `Post`, `Handle`), `NextModel`, `Sleep`, with the same
  account. Instants are relative to the present, so the loop runs for ever in finitely
  many states; results are counted up to `MaxStaged`. `cause` and `line` record what went
  wrong and what the log says of it.
* **ProbeDelivery**: staging, drain, gate, build, post, spool, cap; a network that
  loses requests, loses replies or delays requests beyond the probe's patience; and
  the gateway's check-then-insert. `mode` is how the process was set up (no spool, a
  spool, a dry run) and may differ after a restart. `Rot` damages a file, which the next
  scan quarantines; `Tick` sets the wall clock forward or back.
* **Provider**: `OpenAICompatibleProvider` as operators: what the constructor refuses,
  what one HTTP exchange comes to (a completion, or an error with its status and class).
* **CanarySuite**: the suites, the validators of JSON and of tool calls, the offline
  answers, and `ExecuteOne`, which is `execute_canary` for one prompt.
* **StrictRunner**: `execute_canary_strict` prompt by prompt: `Pace`, `Answered`,
  `Failed`, `Finish`; `slept` is a history of the time given to the sleeper.
* **LiveEmit**: a leg around a strict run: `DrainOne` per spooled batch, `BeginProbe`,
  `Probe` (a step of the runner), `BuildSignedRequest`, `Deliver`, `ShowWeather`, and a
  `Kill` between any two. A batch whose POST ends without a clear status is `Spooled` or,
  when the exception of a broken answer passes `deliver`, `Escaped`. `held` are the rows of the gateway in order.
* **Compare**: `CompareMain` (arguments, suite file, keys), `Ask` with its retries,
  `TemperatureFallback`, `SkipAfterFatal`, and `WriteReport`, which computes verdicts,
  levels and notes from the answers. A permutation test is any outcome the smallest
  achievable p-value allows.
* **ProbeTools**: the process, which is one of the command-line tools (`tool`): a bare
  strict run, a leg or a comparison.
* **SignalRepository, ClickHouseRepository**: every method as an operator on tables. A
  read is the *set* of answers it may give, where a sort leaves the order of equal rows
  open.
* **Store**: the tables behind `BaseRepository`, the start on an old database, and the
  writes of one `POST /v1/signals` in order; what the detector and the quorum decide is
  left open. `ContractKept` is the interface both backends implement.
* **GatewayReads**: weather, webhook registration and export over Store, between any two
  of its writes.
* **MCAgreementScorer, MCRedisScorer, MCCUSUMDetector, MCGateway, MCProbeDelivery,
  MCProbeTools, MCGatewayReads, MCProbeBudget**: the instances. Operators named
  after a defect (`RecordLast`, `LiveOrgsForever`, `WaitUncapped`, ...) are not
  used by the specifications: each is a wrong version of the definition that
  follows it, and shows that a property notices the difference.

Correspondence to the code, definition by definition, is the "map" of
PROJECT.json.

### Abstractions

* Time is a small integer; a request is short against its unit, so none spans a
  tick. The gateway's clock moves forward (the scorer alone is checked and proved
  with a clock that is set back).
* In RedisScorer event times and the server's clock are unrelated, as they are in the
  code: scores come from the callers, expiry from the server. Nanoseconds become
  milliseconds by the code's integer division; the constants of the instance keep the
  proportions (2 ns to the millisecond, 3 to the second).
* The in-process handler never awaits between the duplicate check and the answer,
  so a node has one request at a time. Interleaving comes from several nodes,
  from crashes and from failing calls.
* A call that raises does so before it took effect. One that took effect and
  then raised is the same call followed by a failure of the next.
* A batch is its attributes (client, fleet, model, suite, metric values, is it well
  formed); cryptography and validation are a verdict. In ProbeDelivery a batch is
  the set of results it aggregates, in LiveEmit the sequence of one run.
* A prompt is its id and category; an answer is a sequence of tokens (fence, JSON, prose,
  refusal) of which the scoring looks at a few. Prompts of one category are scored alike,
  so the instances ask two of the fifty; the assumption `Corpus` checks all fifty offline.
* Averages, rates and shares are exact fractions; permutation p-values are abstracted to
  what samples of that size can reach.
* Legs of the live emitter run hours apart, so a request has arrived or is lost when the
  next leg starts.
* Store handles one ingestion at a time, as the node does; the readers stand for a second
  worker on the same database and see every intermediate state.
* A spool is a set of files. Their names sort by put time and then by a random id, so
  among files of one instant any may come first. A flush is short: files rot and the
  clock moves between two flushes.
* `get_recent_signals` is the last `BootstrapLimit` rows of the model. The runs that
  compare detector and rows let the window hold every row; a window that is
  smaller simply forgets, as the code says it does.

## 3. Runs

| Run | Instance | What it shows |
|---|---|---|
| `scorer` | 3 orgs, 1 stream, 3 instants, TTL 1, quorum 5/6 over a floor of 2 | Votes are the latest ballots (`AgreeIsLatestBallot`), agreeing orgs are counted as watching, promotions obey the abstract gate (`GateKept`) and scale with the population (`PromotionScales`). Expired, future, repeated and late candidates all occur. |
| `redis_scorer` | 2 nodes, 2 orgs, 1 stream, 3 calls of up to 6 commands, event times that share a millisecond or lie further apart than the TTL, backstop of 2 seconds | The abstract gate holds for all nodes at once (`GateKept`), promotions scale and keep the observers (`PromotionScales`), expiry spares every candidate it was renewed for (`ArmedOutlives`), and a key without expiry is one an abandoned call left (`KeysReclaimed`). |
| `cusum` | 1 stream, 7 observations of 4 levels, k = 0.5, h = 5 | `ShiftDetected`, `NoFalseAlarm`, `BaselineFrozen` with resets at any point. Seven observations allow a baseline, an opposite excursion and a full detection. |
| `gateway` | 1 node, 2 clients and a fleet, 4 batches, unsigned batches, re-sends, TTL 1 of 2 | Fleets leave no trace in the scorer (`PrivateIsolation`), each promotion has a client whose own value left the band of that very stream (`PublicAlertHasCause`). |
| `gateway_restart` | 1 node that crashes once anywhere, 3 clients, 3 batches of 2 metrics, 3 instants | The re-warm restores the detector exactly, also after a crash between two metrics of a batch; `StoredOnce`; `NoMissedQuorum`; `PublicAlertsBacked`. |
| `gateway_filed` | 2 nodes on one Redis scorer, 3 batches that both may receive, one call that raises, weak fairness of each handler | `VotesNotReused`: nodes that race on one batch, or a promotion that is lost, never make one local alert count twice. `PromotionIsFiled`: what was promoted reaches the database as long as nothing failed. |
| `budget` | a probe: interval 0 or the recommended one, reliable or failing file, 2 crashes, 2 windows. Or the fleet: 2 models, one mocked; rounds 1 or 2 apart, the recommended pace of 2 or one too fast, 2 transmissions in a day of 4; calls and transmissions that fail in any round, counters that may be null | `ChargedBeforeSent`, `TwoWindowsBudget`, `PacedNeverSleeps` of the probe. `RealErrorLogged` and, under fairness, `FleetGoesOn` of the fleet: rounds accumulate, windows turn over, budgets run out, outages of any length occur. |
| `delivery` | 2 models (one refused), both suites of one model, 3 results, 2 network faults or rotten files, 1 restart into any mode, spool of 1 file, age limit 1, a clock of 3 values that moves both ways | `CountedOnce`, `NoSilentLoss`, `SpoolBounded`, and under fairness `BacklogDrains`. Three results are two spooled batches and a third in the making, so eviction and overtaking occur; the clock set back makes an older file look newer. |
| `tools` | suite of 2 prompts, one of them a tool call; delay 2, backoff 1 doubling up to 4 in all, 2 retries; 3 runs of a leg with 2 failures or kills; a comparison of 2 items, 1 or 2 repeats, 6 kinds of answer, at most 2 failing calls | `WholeRunsOnly`, `AddedTimeBounded`, `ExitIsTruth`, `OlderFirst` (two failures are needed to turn batches round), `HonestReport` (verdicts are earned, the temperature note is true, calls are bounded). |
| `store` | both backends, new and old database, 2 rows of 3 kinds of batch (public, private, another model; whole, partial and unknown runs), 1 alert of each kind, 4 instants of half a second, a day of 1 and staleness of 2 of them, one setback of the clock | `ContractKept`, `WeatherHonest`, `AuditResolves`. |
| `gateway_independence`, `gateway_fleet_restart` | small | expected violations, see section 6 |

Three batches are the fewest that make a promotion (baseline, two votes); the
fourth, in `gateway`, lets one follow a promotion. With `BaselineSamples = 1`, k = 1 and h = 1 one
large value is a drift and one of value 1 is not. Two clients meet the floor
of 2; the third, with a fraction of 5/6, makes the scaled threshold exceed it.
In `gateway_filed` one client sends the baseline and the others the drift, which is
where promotions come from. Clients and nodes are interchangeable, so the safety runs
use symmetry; the liveness runs do not.

In `tools` the backoff total of 4 is reached by two prompts that fail (1 + 2, then a
capped 1), so a wait that ignores the total exceeds it; three legs are enough for a
batch to be spooled, overtaken and delivered; two repeats are the fewest that a metric
needs to be eligible. Two failing calls put a side over the failure limit while one item
still differs, use up the retries of a call, or spend a retry and the fallback on one
call. All properties of this run are also proved, for every setting. In `store`
the two rows and the window of two make every pair of rows meet in either order, the
setback puts the newer row behind the older one by the clock, and the partial run next
to a whole one is what distorts a rate if it is counted.

`scorer`, `cusum` and `redis_scorer` have one stream, `gateway` one suite and one metric:
that streams do not mix (a promotion empties its own bucket only, an observation moves
one accumulator only) is not what these runs test. It rests on the theorems
`GateCorrect`, `FalseAlarmFree` and `CauseCorrect`, which hold for every set of streams.

Deadlock is checked in every run but `tools`, whose programs end.

### Fairness

* `gateway_filed`: `WF_vars(Handle(n))`. The handler is straight-line code on one
  event loop; a process that is up runs it to its end. Nothing is assumed of
  arrivals, crashes or the clock.
* `delivery`: `WF_vars(BeginFlush)` and `WF_vars(Flush)`. Probes call `flush()` in a
  loop or from cron (`scripts/first_party_fleet.py`, `scripts/live_emit.py`), and
  `flush()` has no unbounded wait. Network faults are finitely many by the bound; no
  fairness is assumed of the clock, of late requests or of new results, so the
  backlog must drain by delivery or quarantine even if nothing ever expires.

* `budget`: weak fairness of the fleet's `FleetNext`. One thread without an unbounded
  wait: requests time out after 30 seconds, `sleep` ends, and whatever a probe raises is
  caught. Nothing is assumed of the outcome of a call; `FleetGoesOn` promises a
  transmission to models whose calls succeed again and again.

## 4. Proofs

Engine_proofs holds what the proofs about the engine share, as lemmas about operators:
live orgs are finitely many, and a met quorum has `Floor` of them and its share of the
observers; an update of a detector stream keeps it well formed (a deviation of at least
one step, accumulators that are not negative).

All constants are arbitrary subject to the named assumptions (finite set of orgs,
natural-number policy, positive fraction denominator and clock bound; positive unit
and baseline length).

* **AgreementScorer_proofs.** `TypeCorrect` is inductive by itself.
  `ObserversCorrect` (`agree <= observers` entry by entry) and `LatestCorrect` are
  inductive with it: both rest on one lemma about `Record`, that it returns the
  maximum of the old entry and the new time. `GateCorrect` is the refinement: with
  `AgreeIsLatestBallot` each live org of a promotion has a live ballot, so the live
  set is the witness for the voters of `Gate!Promote`; every other method is a vote,
  a discard or no decision. `ScalesCorrect` follows from `QuorumMet` and from the
  arithmetic of the rounded-up quotient.
* **RedisScorer_proofs.** For any number of nodes. `GateCorrect` rests on `Backed`: each
  candidate in Redis is a ballot cast since the last decision, which every command,
  not only every call, preserves; so an abandoned call is harmless. `ReclaimedCorrect`
  needs `EachArms`, a fact about the commands still to be sent: behind every ZADD
  there is the EXPIRE of its key. `ArmedCorrect` is inductive with the types, by one
  lemma about the three steps that only remove members. `ScalesCorrect` needs that the
  prune removes nobody who is live.
* **CUSUMDetector_proofs.** `Invariance` proves the strengthening `IInv`: besides
  types (a deviation of at least one step, so that every z-score is defined), the
  accumulators are explained by the history: each is at least `Gain` times the
  length of the current run of large shifts, and is 0 while the stream has never
  left its band. From it follow `Completeness` (`ShiftDetected`), `FalseAlarmFree`
  (`NoFalseAlarm`, for any number of suites and metrics in one detector) and
  `BaselineFinal`. `ShiftDetected` alone is not inductive: it says nothing of the
  accumulator before it crosses `H`.

* **Budget_proofs**, the probe. `IInv` follows an epsilon from charge to transmission:
  the account in memory pays for the count of its window's transmissions and for the
  batch in hand; the file pays for the transmissions and equals memory when a batch
  is about to leave; no transmission was charged after the window's end, so a reset
  account starts with nothing to pay. `ChargedBeforeSent` alone says nothing of the
  file and would not survive a reload. From `IInv`: `TypeCorrect`, `ChargedCorrect`.
  `PacedCorrect` adds `Paced`: the k-th charge of a window comes no earlier than k - 1
  intervals into it. The recommended interval divides what is left of the day by what
  the budget affords, rounded up, and a lemma of integer arithmetic turns that into "the
  charge that would not fit is due after the day is over". `WindowsCorrect` adds
  `Windows`: what was sent in the day before an account began is one window's worth, so
  a day that contains a reset sees two. Counting is by cardinalities of sets of places in
  `sent`; the day that starts anywhere is reduced to the day that ends with the account.
* **Budget_proofs**, the fleet. Any models, prices and paces. `FleetInv` says at each
  point of `probe_model` what it may have raised and what its span is, which is what
  `RealErrorLogged` needs: the handler's own `finish_canary_span` may only raise what
  is known already. `PaceCorrect` is the argument of `PacedCorrect` again, per model and
  with instants relative to the present, where what is more than a day back is due
  anyway.

* **Probe_proofs**, the strict runner. For every suite, endpoint, number of retries and
  any delay and backoff, signs included. The time slept is split in two: what was spent on
  backoff, which never exceeds its total because a wait is capped by the rest of it, and
  the pauses, of which there are `index - 1` before a prompt. The inductive invariant keeps
  both apart (`AddedTimeBounded` alone does not say how many pauses are still to come).
  From it: `RunnerTypes`, `PacingBudgetHolds`. `AllOrNothingCorrect` rests on `Matched`:
  each prompt passed has left a result or its id, and as long as none has failed the
  results are those of the prompts in their order, scored as their category allows.
* **Probe_proofs**, the leg, for any number of runs, kills and failing requests.
  `LegTypesCorrect` needs that a drain walks over exactly what the spool holds.
  `WholeRunsCorrect` carries `Matched` from the runner into the batch, `ExitCorrect`
  needs that a leg that shows the weather has stored its run and that no leg under way has
  an exit code. `OrderCorrect` needs `InTurn`, since `OlderFirst` says nothing of the
  spool: a batch waits because one request failed, a run that goes on although one waits
  has seen the second failure, and until then no row is newer than the one that waits. The one
  assumption beyond the types is `NoneAssumption`: Python's `None` is no Boolean.
* **Probe_proofs**, the comparison, for any suite files, repeats, metrics, answers and
  limits. `CompareInv` says where a comparison stands: `AtPlace` writes the turn as a
  cycle, an item and a side, and each observation list has the length which that place
  gives it, so at the end each side was asked `repeats` times about each item. `Paid`
  charges every request to a finished call, to a retry of the open one or to the one
  fallback of a side (`CallsBounded` says nothing of the open call's retries, so it is not
  inductive); `Tempered` ties the way an answer was asked to what the side sends.
  `VerdictEarned` is about the step that writes the report. That enough answers and items
  were there is counting. That CHANGED is never said of sides that answer alike is a
  lemma about permutation tests: the distance of two values is the number of cuts between
  them (thresholds between numbers, or one cut for each value of a category); for a
  single cut, counting pairs on either side of it, the statistic is least among all splits
  into the same sizes when both parts have the same share beyond the cut; so if all shares
  agree, no exchange of labels has a smaller statistic (`LeastSplit`), and the p-value
  is 1. It holds for sides of different lengths, which failed answers leave. Sums
  over finite sets are recursive functions that exist and split (`SumsExist`, `SumParts`),
  again by contradiction with a smallest set. Assumed of the data is
  `CompareAssumption`: a suite file is a sequence of lines, an exchange has one of the six
  ends of Provider, the counts of tokens in it are integers or missing, and `None` is no
  failure class.
* **Probe_proofs**, the tools. `ToolsInv` joins the three invariants: a step of one tool
  leaves the others' variables alone. From it `ToolsTypeCorrect`, and `ToolsCorrect` with
  the five properties of the run `tools` at once.

`TypeOK` of both scorers, of the detector and of the probe's budget is proved for every
instance and not part of a run.

* **Probe_proofs**, the delivery. For any models, suites, modes and bounds. `CountedOnce` needs
  two things: rows are distinct batches (check-then-insert), and no two batches share a
  result, which is `Fresh`: a result is numbered when it is staged, is staged for one
  model, and leaves the queue when its batch is signed. `NoSilentLoss` is inductive with
  the types, one step per place a batch may be in. `SpoolBounded` needs the spool to be
  finite: a put adds one file, the eviction returns to the cap, and a crash in between
  pays for the file it leaves.

* **Gateway_proofs.** For any number of nodes and fleets and any batches, with either
  scorer, under crashes and failing calls. `Inv` follows a batch through its request: it
  is stored before it is scored, its metrics still to do are its own, a request at the
  scorer is about a public batch, its local alert is stored before its vote and the count
  it is about to file is covered by stored alerts (`Sound`, per request); every entry of
  a scorer has a stored public batch behind it (`Isolated`), every vote a stored alert of
  the same instant (`VotesReported`), every filed alert enough of them (`FilingsBacked`).
  `PublicAlertsBacked` alone says nothing of the candidates, nor of a promotion between
  the scorer and the database. From it: `BackedCorrect`, `IsolationCorrect`. `OnceCorrect`
  assumes one process, as the code does, and adds that a request about to save has not
  been saved.

  `TypeCorrect` adds that what is scored, filed and re-warmed has its type; for the
  re-warm, that the replay of any rows leaves well-formed streams.
* **Gateway_proofs**, `NoMissedCorrect`. `Noticed`: a stream without a request about to
  check it has no quorum, because an ingest goes straight to its check, a check that
  succeeds clears what it counted, and the passing of time or further sightings make a
  quorum only harder to reach. A stop or a failing call between the ingest and its check leaves
  a quorum behind when the scorer outlives the process; hence the hypothesis: either each
  process has a scorer of its own, or nothing stops or fails.
* **Gateway_proofs**, `NotReusedCorrect`. `Accounted` is an account per client, model and
  metric: promotions that counted the client, plus candidates that stand for it, plus
  requests about to cast its vote, never exceed its stored public alerts. A promotion
  moves one from the second term to the first, and what is lost on the way only helps.
  `VotesNotReused` is its first term against the last, for any nodes, stops and failures.
* **Gateway_proofs**, `CauseCorrect`. `Caused`: an accumulator off zero, a request on its
  way to an alert, a candidate and a promotion each have an observation outside the band
  on their own stream. A restart fills accumulators from rows that were stored, but perhaps
  never scored, by the process before, so the theorem assumes that none happens.
* **Gateway_proofs**, `DetectorCorrect`. `Fed`: the detector's state on a stream is the
  outcome of the stored public rows of that stream in order, without those metrics of the
  last row that the request in hand has still to score. Hypotheses, each of which the code
  needs: one process (another one's rows are not scored here), no failing call (one in the
  loop leaves a stored row unscored for good), and, if the process may stop, no fleets,
  every metric replayed and a window that holds every row (a re-warm replays private rows
  too, which is the finding of `gateway_fleet_restart`, skips metrics that are not its own,
  and forgets what is older than its window).
  The replay is a recursive function over the rows. Its two lemmas, `Run` and `Outcome`, are inductions
  over the number of rows, done by contradiction with a least counterexample: the library's
  induction theorems take an operator as a parameter and cannot be used, but `WFMin` about
  the order of the naturals can (`Least`).

* **GatewayReads_proofs**, the tables. For both backends, any batches and any number of
  restarts. `TablesInv`: a row lies at the place its id names, has a time of the clock and
  a batch of its own. From it `ContractCorrect`: the n newest of a finite set of rows
  exist and leave no row out that is newer, by size, one row at a time; ClickHouse rewrites
  rows when it reads them, which changes no id, time or model; an alert counts as of the last
  day by a clock that may be cut to seconds.
* **GatewayReads_proofs**, `AuditCorrect`. Three facts of the history: a local alert is
  stored before the public one of its request (`LocalFirst`), so an id that either table
  knows is a local alert's for good; rows stored after an alert are not older than it unless
  the clock was set back (`Forward`); an export once shown is of the alert that is still
  there (`Shown`). `AuditResolves` alone knows neither what will be stored nor in what
  order.
* **GatewayReads_proofs**, `WeatherCorrect`. The light needs `Chronicle`: unless the clock was
  set back, rows are in the order of their times, in SQLite and cut to seconds, so the latest
  time among the n newest is the latest of the model. The rate needs the fold over the rows
  of the window, a recursive function over subsets of a finite set: it exists (`SumsExist`) and
  a sum of n fractions between 0 and 1 is at most n, and n if each is 1 (`SharesSum`), both
  by contradiction with a smallest set. Clamping is what makes this hold for any fraction a
  batch reports, and the check for whole runs what makes full marks come out as 1.
  Assumed is that `None` is neither a row nor a time (`NoneAssumption`), that a batch has the
  fields the schema requires and that a rate is a fraction (`StoreAssumption`).

Only model-checked: all liveness (`PromotionIsFiled`, `BacklogDrains`, `FleetGoesOn`), since
temporal fairness and ENABLED are out of the prover's reach; and the assumption `Corpus` of
MCProbeTools, which evaluates the scoring of fifty given prompts. The other properties of
the passing runs are theorems.

## 5. Not modelled

* Floating point: thresholds are exact, rounding of the noise is not studied.
* Cryptography, HTTP parsing, rate limits, CORS: outcomes only.
* Prompt texts and answers character by character; the layout, wording and checksum of
  reports; the stamping of stored times as naive UTC.
* ClickHouse as a service: its failures are the failing calls of Gateway.
* The Bayesian detector is a numerical recursion over floats that the gateway does not
  call; the adapters call modelled operations and hold no protocol of their own; the dashboard, experiments and Phase-0 stubs are presentation, offline
  studies and mocks without a caller.
* The bytes of a spool file: it is sound or it is not.

## 6. Where documents and code disagree

Each of the first two is a run that TLC finds violated.

* `gateway_independence`: the orgs of a quorum "must independently signal a change"
  (`engine/correlation.py:550`), but all public clients feed one accumulator that
  nothing resets. Once one client has pushed it over the threshold, the next
  client's unremarkable value raises an alert, and that client's vote.
* `gateway_fleet_restart`: "public and private detectors are fully isolated"
  (`tests/test_enterprise.py:327`), but `bootstrap_detector` replays private rows into
  the public detector.

Met while modelling and not kept as runs: `RedisAgreementScorer` is called a drop-in
replacement (`engine/scorer_redis.py:206`), but its ZADD lets an older event time
replace a newer one, which the in-process `ts >= prev` does not (so
`AgreeIsLatestBallot` is stated of AgreementScorer only); a call abandoned between
ZADD and EXPIRE leaves a new key without the backstop of `engine/scorer_redis.py:249`;
`direction` is "positive" while S+ is still
over the threshold, also when S- crosses it (`engine/detector.py:90`);
the comment at `engine/detector.py:275` expects a caller of `reset()` that does not
exist; the "rolling" budget tumbles (`probe/privacy.py:216`), so two windows' worth
may leave within a day, which `TwoWindowsBudget` bounds; a drain that stops early
does not stop new batches from overtaking it (`probe/sdk.py:555`); client ids are
drawn per run (`probe/privacy.py:570`), so the quorum counts runs rather than the
organisations of `METHODOLOGY.md:176`; after a promotion `clear` is called "a safe
idempotent no-op" (`engine/scorer_redis.py:398`), but with two nodes it can delete a
candidate that another node ingested during `save_public_alert`.

Met in the repositories and their readers:

* "must never block gateway start-up over an optional column" (`engine/repository.py:423`):
  with rows present and the ALTER refused, the SELECT of the re-warm raises and the
  start fails (`OpenStore`).
* "the audit endpoint resolves both alert types from one id namespace"
  (`engine/repository.py:338`): the ids are two sequences, local ones are tried first, and
  a local alert precedes each public one, so the id of a public alert always denotes a
  local alert and no public alert can be exported.
* The evidence of an alert excludes "signals AT the alert timestamp" to keep out the
  triggering batch (`engine/repository.py:944`); that batch is saved before its alert, at an
  earlier time, and is part of the evidence. The evidence of an alert without fleet
  includes rows of private fleets, and private rows enter a model's weather.
* "most recent first" is by insertion in SQLite and by whole seconds in ClickHouse.

Met in the tools:

* The guard of the round "prevents one crash from killing all subsequent rounds"
  (`scripts/first_party_fleet.py:448`), but a token counter that is null makes
  `finish_canary_span` raise (`probe/sdk.py:436`), in the handler as well. The span stays
  open, `start_canary_span` raises in every later round, and the model is never asked
  again until a restart. `FleetGoesOn` excepts this case; without the exception TLC
  finds it at once.
* `scripts/first_party_fleet.py`: a call that fails is staged as a result of length 0 with
  invalid JSON and does not flush, so an outage piles results up without bound and then
  leaves as one batch that looks like drift. The fleet gives no `dp_storage_path`, so a
  restart has its whole budget again.
* `scripts/live_emit.py:39` says that a batch whose POST fails with a transport error or a
  5xx is written to the spool, and `_post_status` (line 151) that any status is returned.
  When the body of an answer ends early, or the read of an error body times out, the
  exception leaves `_post_status`, `deliver` and `main`: the leg exits 1 and the batch is
  not spooled (`Escaped` in LiveEmit). `ExitIsTruth` and `OlderFirst` hold of it too.
* `scripts/live_emit.py:267` says that an older batch reaches the gateway before a newer
  one; a drain that fails does not stop the run, so two failures turn them round
  (`OlderFirst` states what does hold). A read of the weather that times out half way is
  not caught and ends a successful leg with exit code 1.
* `probe/compare.py`: the note "ran at provider default temperature" is printed of a side
  whose earlier answers used temperature 0; a single failed fallback leaves the side
  refused for good; "at most 2 retries per failed call" is four calls with the fallback.
* `probe/canary.py:242` calls four system prompts byte-identical to those of v1; one has a
  trailing space more.

## 7. Plan

Written: both scorers and the detector with their proofs, the gateway that composes them,
the repositories and the read side, the probe's budget, delivery, runner, live leg and
comparison. What is left, in order:

1. **Delivery and Gateway composed**: spool order against the order of rows.
2. **Adapters** as callers of ProbeDelivery, with the suite versions they stamp.
