--------------------------- MODULE FirstPartyFleet ---------------------------
(***************************************************************************)
(* scripts/first_party_fleet.py: one process that probes its models in     *)
(* turn, for ever.  A probe opens a span, calls the provider, closes the   *)
(* span, which stages a result, and flushes; ProbeSDK.flush holds results  *)
(* back until the pace allows a transmission (probe/sdk.py).  What a probe *)
(* raises is caught in probe_model, or else by the guard of the round.     *)
(*                                                                         *)
(* Instants are counted from now, so that the loop may run for ever: the   *)
(* present is 0 and what matters of the past is bounded.                   *)
(***************************************************************************)
EXTENDS Budget, Sequences, SequencesExt

CONSTANTS
  Fleet,        \* TARGET_MODELS, in order
  Mocked,       \* the models whose provider has no API key
  Usages,       \* what the token counter of an answer may be: "count", "null"
  Paces,        \* values of MIN_FLUSH_INTERVAL_SECONDS
  MinSleep, MaxSleep,  \* PROBE_INTERVAL_SECONDS with its jitter
  MaxStaged     \* results are counted up to this bound

Models == ToSet(Fleet)

ASSUME FleetAssumption ==
  /\ Fleet \in Seq(Models) /\ Fleet # <<>> /\ IsInjective(Fleet)
  /\ Mocked \subseteq Models
  /\ Usages \subseteq {"count", "null"}
  /\ Paces \subseteq Nat
  /\ MaxStaged \in Nat \ {0}
  /\ MinSleep \in Nat \ {0} /\ MaxSleep \in Nat /\ MinSleep <= MaxSleep

VARIABLES
  pace,      \* MIN_FLUSH_INTERVAL_SECONDS of this fleet
  turn,      \* the model this round is at
  at,        \* where probe_model is
  finished,  \* span_finished
  cause,     \* history: what this probe raised first, "none" if nothing
  line,      \* what its log line says
  span,      \* model -> "none", or the token attribute of the open span
  queue,     \* model -> results staged
  accounts,  \* model -> its DPAccountant, in memory
  flushed    \* model -> _last_flush_monotonic

fleetVars == <<pace, turn, at, finished, cause, line, span, queue, accounts, flushed>>

NotYet == 1

m == Fleet[turn]

FleetInit ==
  /\ pace \in Paces
  /\ turn = 1
  /\ at = "start"
  /\ finished = FALSE
  /\ cause = "none"
  /\ line = "none"
  /\ span = [x \in Models |-> "none"]
  /\ queue = [x \in Models |-> 0]
  /\ accounts = [x \in Models |-> Fresh(0)]
  /\ flushed = [x \in Models |-> NotYet]

\* To the handlers of probe_model.
Raised(what) == at' = "handle" /\ cause' = what /\ UNCHANGED line

\* Out of probe_model: a handler, or else the guard of the round, logs this.
Logged(what) == at' = "next" /\ line' = what

-----------------------------------------------------------------------------
(* The span.                                                               *)

\* start_canary_span comes before the try: an open span raises to the guard.
StartSpan ==
  /\ at = "start"
  /\ finished' = FALSE
  /\ IF span[m] # "none"
     THEN /\ Logged("active")
          /\ cause' = "active"
          /\ UNCHANGED span
     ELSE /\ span' = [span EXCEPT ![m] = "unset"]
          /\ at' = "call"
          /\ cause' = "none"
          /\ line' = "none"
  /\ UNCHANGED <<pace, turn, queue, accounts, flushed>>

\* What finish_canary_span raises: no span, or a counter that is no number.
FinishError(x) ==
  IF span[x] = "none" THEN "inactive" ELSE IF span[x] = "null" THEN "type" ELSE "none"

\* The result of any span is staged, also that of a call that failed; while the
\* provider is down results pile up, since a failed call does not flush.
Finish(x) ==
  /\ queue' = [queue EXCEPT ![x] = IF @ < MaxStaged THEN @ + 1 ELSE @]
  /\ span' = [span EXCEPT ![x] = "none"]

\* A mock, or an answer with its counter, or no answer: a status other than
\* 2xx, a transport error, or a body that cannot be read.
Call ==
  /\ at = "call"
  /\ \/ /\ \E u \in IF m \in Mocked THEN {"count"} ELSE Usages :
             span' = [span EXCEPT ![m] = u]
        /\ at' = "close"
        /\ UNCHANGED <<cause, line>>
     \/ /\ m \notin Mocked
        /\ \E what \in {"status", "request", "body"} : Raised(what)
        /\ UNCHANGED span
  /\ UNCHANGED <<pace, turn, finished, queue, accounts, flushed>>

CloseSpan ==
  /\ at = "close"
  /\ IF FinishError(m) = "none"
     THEN /\ Finish(m)
          /\ finished' = TRUE
          /\ at' = "flush"
          /\ UNCHANGED <<cause, line>>
     ELSE /\ Raised(FinishError(m))
          /\ UNCHANGED <<span, queue, finished>>
  /\ UNCHANGED <<pace, turn, accounts, flushed>>

CloseAgain(x) == TRUE

CloseNever(x) == FALSE

\* A handler closes the span unless flush() came after it.
MustClose(x) == ~ finished

Handle ==
  /\ at = "handle"
  /\ IF MustClose(m)
     THEN IF FinishError(m) = "none"
          THEN Finish(m) /\ Logged(cause) /\ finished' = TRUE
          ELSE Logged(FinishError(m)) /\ UNCHANGED <<span, queue, finished>>
     ELSE Logged(cause) /\ UNCHANGED <<span, queue, finished>>
  /\ UNCHANGED <<pace, turn, cause, accounts, flushed>>

-----------------------------------------------------------------------------
(* flush() of the model's ProbeSDK, which has no spool.                    *)

AccumulatingAnyway(x) == pace > 0 /\ flushed[x] # NotYet

Accumulating(x) == pace > 0 /\ flushed[x] # NotYet /\ - flushed[x] < pace

\* Aggregator.flush takes all that is staged.
Taken(x) == [queue EXCEPT ![x] = 0]

Flush ==
  LET a == ResetIfNeeded(accounts[m], 0) IN
  /\ at = "flush"
  /\ IF Accumulating(m)
     THEN Logged("accumulating") /\ UNCHANGED <<queue, accounts, flushed>>
     ELSE IF Affordable(a)
     THEN /\ accounts' = [accounts EXCEPT ![m] = Charged(a)]
          /\ flushed' = [flushed EXCEPT ![m] = 0]
          /\ queue' = Taken(m)
          /\ at' = "post"
          /\ UNCHANGED line
     ELSE /\ accounts' = [accounts EXCEPT ![m] = a]
          /\ queue' = [queue EXCEPT ![m] = 0]
          /\ Logged("budget_exceeded")
          /\ UNCHANGED flushed
  /\ UNCHANGED <<pace, turn, finished, cause, span>>

\* 202 or 409, another status, or a transport error; the batch is not kept.
Post ==
  /\ at = "post"
  /\ \/ Logged("ok") /\ UNCHANGED cause
     \/ \E what \in {"rejected", "request"} : Raised(what)
  /\ UNCHANGED <<pace, turn, finished, span, queue, accounts, flushed>>

-----------------------------------------------------------------------------
(* The loop of main().                                                     *)

NextModel ==
  /\ at = "next"
  /\ IF turn = Len(Fleet)
     THEN at' = "sleep" /\ UNCHANGED turn
     ELSE at' = "start" /\ turn' = turn + 1
  /\ UNCHANGED <<pace, finished, cause, line, span, queue, accounts, flushed>>

\* d later than t, as far back as it matters.
Back(t, d, limit) == IF t - d < -limit THEN -limit ELSE t - d

Sleep ==
  /\ at = "sleep"
  /\ \E d \in MinSleep .. MaxSleep :
       /\ accounts' = [x \in Models |-> [accounts[x] EXCEPT !.start = Back(@, d, Day)]]
       /\ flushed' = [x \in Models |-> IF flushed[x] = NotYet THEN NotYet
                                       ELSE Back(flushed[x], d, pace)]
  /\ turn' = 1
  /\ at' = "start"
  /\ UNCHANGED <<pace, finished, cause, line, span, queue>>

FleetNext ==
  StartSpan \/ Call \/ CloseSpan \/ Handle \/ Flush \/ Post \/ NextModel \/ Sleep

FleetSpec == FleetInit /\ [][FleetNext]_fleetVars

-----------------------------------------------------------------------------

Causes == {"none", "active", "inactive", "type", "status", "request", "body", "rejected"}

\* The shape of the loop, the spans, the queues and the accounts, which never
\* hold more than the budget.
FleetTypeOK ==
  /\ pace \in Paces
  /\ turn \in DOMAIN Fleet
  /\ at \in {"start", "call", "close", "flush", "post", "handle", "next", "sleep"}
  /\ finished \in BOOLEAN
  /\ cause \in Causes
  /\ line \in Causes \cup {"ok", "accumulating", "budget_exceeded"}
  /\ span \in [Models -> {"none", "unset", "count", "null"}]
  /\ queue \in [Models -> 0 .. MaxStaged]
  /\ accounts \in [Models -> [spent : 0 .. DailyBudget, start : -Day .. 0]]
  /\ flushed \in [Models -> -pace .. 0 \cup {NotYet}]

\* A failure is logged as what it was: neither handler nor guard hides it
\* behind the complaint about a span that is closed already (REQ-FLEET-009).
RealErrorLogged == at \in {"next", "sleep"} /\ cause # "none" => line = cause

\* Every model is asked again and again, whatever its provider or the gateway
\* answered before; the one thing that ends its probes is a counter that is null
\* (the guard of main "prevents one crash from killing all subsequent rounds").
ModelsAsked ==
  \A x \in Models : []<>(at = "call" /\ m = x) \/ <>[](span[x] = "null")

\* A model whose calls succeed again and again transmits again and again,
\* however short the rounds are; with the recommended pace none ever finds its
\* budget exhausted ("the probe transmits continuously within budget", main).
ModelsTransmit ==
  /\ \A x \in Models : []<>(at = "flush" /\ m = x) => []<>(at = "post" /\ m = x)
  /\ pace >= RecommendedInterval => [](line # "budget_exceeded")
=============================================================================
