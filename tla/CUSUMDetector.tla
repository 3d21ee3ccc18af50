---------------------------- MODULE CUSUMDetector ----------------------------
(***************************************************************************)
(* engine/detector.py, class CUSUMDetector: independent CUSUM streams      *)
(* keyed by (model_tuple, suite_version, metric_name), created on first    *)
(* use, and reset by a selector that may leave suite and metric open.      *)
(***************************************************************************)
EXTENDS Cusum

CONSTANTS
  Models, Suites, Metrics,
  Values,     \* observed metric values, in steps of 1/Unit
  Gain,       \* how far beyond the slack a z-score counts as a large shift
  MaxObs      \* bound on the observations of one stream

ASSUME DetectorAssumption ==
  /\ Values \subseteq Int
  /\ Gain \in Nat \ {0}
  /\ MaxObs \in Nat

VARIABLES
  states,     \* _states: stream -> CUSUM state, for the streams tracked
  alert,      \* what the last update() returned
  history     \* per stream, since it started: runs of large shifts, deviations

vars == <<states, alert, history>>

Streams == [model : Models, suite : Suites, metric : Metrics]

Untracked == NewMetricState

\* None leaves a selector of reset() open.
None == "None"

NoAlert == [direction |-> "none"]

Alert == [direction : {"positive", "negative"}, stream : Streams, n : Nat]

NoHistory == [up |-> 0, down |-> 0, deviated |-> FALSE]

Init ==
  /\ states = [s \in Streams |-> Untracked]
  /\ alert = NoAlert
  /\ history = [s \in Streams |-> NoHistory]

\* How the observation v, of z-score z against the baseline, extends the runs.
Extended(h, z) ==
  [up |-> IF z >= K + Gain THEN h.up + 1 ELSE 0,
   down |-> IF -z >= K + Gain THEN h.down + 1 ELSE 0,
   deviated |-> h.deviated \/ z > K \/ -z > K]

Update(s, v) ==
  LET new == Updated(states[s], v) IN
  /\ states[s].n < MaxObs
  /\ states' = [states EXCEPT ![s] = new]
  /\ alert' = IF Direction(new) = "none" THEN NoAlert
              ELSE [direction |-> Direction(new), stream |-> s, n |-> new.n]
  /\ history' = IF states[s].ready
                THEN [history EXCEPT ![s] = Extended(@, ZScore(states[s], v))]
                ELSE history

Selected(model, metric, suite) ==
  {s \in Streams : /\ s.model = model
                   /\ suite = None \/ s.suite = suite
                   /\ metric = None \/ s.metric = metric}

ResetBaselineOnly(model, metric, suite) ==
  LET dropped == Selected(model, metric, suite) IN
  /\ states' = [s \in Streams |-> IF s \in dropped
                                 THEN [Untracked EXCEPT !.pos = states[s].pos]
                                 ELSE states[s]]
  /\ history' = [s \in Streams |-> IF s \in dropped THEN NoHistory ELSE history[s]]
  /\ alert' = NoAlert

Reset(model, metric, suite) ==
  LET dropped == Selected(model, metric, suite) IN
  /\ states' = [s \in Streams |-> IF s \in dropped THEN Untracked ELSE states[s]]
  /\ history' = [s \in Streams |-> IF s \in dropped THEN NoHistory ELSE history[s]]
  /\ alert' = NoAlert

Next ==
  \/ \E s \in Streams, v \in Values : Update(s, v)
  \/ \E model \in Models,
        metric \in Metrics \cup {None}, suite \in Suites \cup {None} :
       Reset(model, metric, suite)

Spec == Init /\ [][Next]_vars

-----------------------------------------------------------------------------

\* The shape of the detector's state and of what update() returns.
TypeOK ==
  /\ states \in [Streams -> MetricState]
  /\ alert \in Alert \cup {NoAlert}
  /\ history \in [Streams -> [up : Nat, down : Nat, deviated : BOOLEAN]]

\* Completeness: a shift of Gain beyond the slack that lasts for more than
\* H / Gain observations is reported, whatever came before it: the clamp at
\* zero never lets earlier observations postpone detection.
ShiftDetected ==
  \A s \in Streams :
    /\ history[s].up * Gain > H => Direction(states[s]) = "positive"
    /\ history[s].down * Gain > H => Direction(states[s]) # "none"

\* Soundness: a stream none of whose observations since its baseline left the
\* slack band reports nothing, whatever the other suites, metrics and models
\* of the same detector observe.
NoFalseAlarm ==
  alert # NoAlert => history[alert.stream].deviated

\* An estimated baseline is final: only reset() ever replaces mu0 and sigma0,
\* however long a drift lasts (the drift is never absorbed).
BaselineFrozen ==
  [][\A s \in Streams :
       states[s].ready =>
         \/ states'[s] = Untracked
         \/ /\ states'[s].ready
            /\ states'[s].mu = states[s].mu
            /\ states'[s].sigma = states[s].sigma]_vars
=============================================================================
