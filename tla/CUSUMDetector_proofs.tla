------------------------ MODULE CUSUMDetector_proofs ------------------------
(***************************************************************************)
(* Theorems about CUSUMDetector for every set of streams and values, every *)
(* baseline length, slack, threshold and fixed-point unit.                 *)
(***************************************************************************)
EXTENDS CUSUMDetector, Engine_proofs

-----------------------------------------------------------------------------
(* The inductive invariant.                                                *)

HistoryType == [Streams -> [up : Nat, down : Nat, deviated : BOOLEAN]]

\* What the accumulators of a stream owe to the observations since baseline.
Explained(st, h) ==
  /\ ~ st.ready => h = NoHistory
  /\ st.pos >= h.up * Gain
  /\ st.neg >= h.down * Gain
  /\ ~ h.deviated => st.pos = 0 /\ st.neg = 0

IInv ==
  /\ states \in [Streams -> MetricState]
  /\ history \in HistoryType
  /\ alert \in Alert \cup {NoAlert}
  /\ \A s \in Streams : WellFormed(states[s]) /\ Explained(states[s], history[s])
  /\ NoFalseAlarm

LEMMA NewExplained == Explained(NewMetricState, NoHistory)
BY DetectorAssumption DEF Explained, NewMetricState, NoHistory

LEMMA InvInit == Init => IInv
<1> SUFFICES ASSUME Init PROVE IInv
  OBVIOUS
<1>1. \A s \in Streams : WellFormed(states[s]) /\ Explained(states[s], history[s])
  BY NewWellFormed, NewExplained DEF Init, Untracked
<1>2. history \in HistoryType
  BY DEF Init, HistoryType, NoHistory
<1>3. states \in [Streams -> MetricState]
  BY <1>1 DEF Init, WellFormed
<1>4. QED
  BY <1>1, <1>2, <1>3 DEF Init, IInv, NoFalseAlarm

LEMMA ExtendedExplained ==
  ASSUME NEW st, WellFormed(st), st.ready, NEW v \in Int,
         NEW h \in [up : Nat, down : Nat, deviated : BOOLEAN],
         Explained(st, h)
  PROVE  /\ Extended(h, ZScore(st, v)) \in
              [up : Nat, down : Nat, deviated : BOOLEAN]
         /\ Explained(Accumulate(st, v), Extended(h, ZScore(st, v)))
<1> DEFINE z == ZScore(st, v)
           new == Accumulate(st, v)
           g == Extended(h, z)
<1>1. z \in Int
  BY ZScoreType
<1>2. /\ new.ready
      /\ new.pos = Positive(st.pos + z - K)
      /\ new.neg = Positive(st.neg - z - K)
  BY AccumulateEffect
<1>3. st.pos \in Nat /\ st.neg \in Nat /\ K \in Nat /\ Gain \in Nat
  BY CusumAssumption, DetectorAssumption DEF WellFormed, MetricState
<1> HIDE DEF z, new
<1>4. g \in [up : Nat, down : Nat, deviated : BOOLEAN]
  BY <1>1 DEF Extended
<1>5. /\ new.pos \in Nat /\ new.pos >= st.pos + z - K
      /\ st.pos + z - K <= 0 => new.pos = 0
      /\ new.neg \in Nat /\ new.neg >= st.neg - z - K
      /\ st.neg - z - K <= 0 => new.neg = 0
  BY <1>1, <1>2, <1>3, PositiveBounds
<1>6. new.pos >= g.up * Gain
  <2>1. CASE z >= K + Gain
    <3>1. g.up = h.up + 1
      BY <2>1 DEF Extended
    <3>2. g.up * Gain = h.up * Gain + Gain
      BY <1>3, <3>1
    <3>3. h.up * Gain \in Nat /\ st.pos >= h.up * Gain
      BY <1>3 DEF Explained
    <3>4. QED
      BY <1>1, <1>3, <1>5, <2>1, <3>2, <3>3
  <2>2. CASE ~ (z >= K + Gain)
    BY <1>3, <1>5, <2>2 DEF Extended
  <2>3. QED
    BY <2>1, <2>2
<1>7. new.neg >= g.down * Gain
  <2>1. CASE -z >= K + Gain
    <3>1. g.down = h.down + 1
      BY <2>1 DEF Extended
    <3>2. g.down * Gain = h.down * Gain + Gain
      BY <1>3, <3>1
    <3>3. h.down * Gain \in Nat /\ st.neg >= h.down * Gain
      BY <1>3 DEF Explained
    <3>4. QED
      BY <1>1, <1>3, <1>5, <2>1, <3>2, <3>3
  <2>2. CASE ~ (-z >= K + Gain)
    BY <1>3, <1>5, <2>2 DEF Extended
  <2>3. QED
    BY <2>1, <2>2
<1>8. ASSUME ~ g.deviated PROVE new.pos = 0 /\ new.neg = 0
  <2>1. ~ h.deviated /\ ~ (z > K) /\ ~ (-z > K)
    BY <1>8 DEF Extended
  <2>2. st.pos = 0 /\ st.neg = 0
    BY <2>1 DEF Explained
  <2>3. QED
    BY <1>1, <1>3, <1>5, <2>1, <2>2
<1> HIDE DEF g
<1>9. Explained(new, g)
  BY <1>2, <1>6, <1>7, <1>8 DEF Explained
<1>10. QED
  BY <1>4, <1>9 DEF z, new, g

LEMMA InvUpdate ==
  ASSUME IInv, NEW s \in Streams, NEW v \in Values, Update(s, v)
  PROVE  IInv'
<1> DEFINE new == Updated(states[s], v)
<1>1. v \in Int /\ WellFormed(states[s]) /\ Explained(states[s], history[s])
  BY DetectorAssumption DEF IInv
<1>2. WellFormed(new) /\ new \in MetricState
  BY <1>1, UpdatedWellFormed DEF WellFormed
<1>3. history[s] \in [up : Nat, down : Nat, deviated : BOOLEAN]
  BY DEF IInv, HistoryType
<1>4. /\ states'[s] = new
      /\ \A r \in Streams \ {s} : states'[r] = states[r]
      /\ states' \in [Streams -> MetricState]
  BY <1>2 DEF Update, IInv
<1>5. /\ history' \in HistoryType
      /\ Explained(new, history'[s])
      /\ \A r \in Streams \ {s} : history'[r] = history[r]
  <2>1. CASE states[s].ready
    <3>1. history' = [history EXCEPT ![s] =
                        Extended(history[s], ZScore(states[s], v))]
      BY <2>1 DEF Update
    <3>2. new = Accumulate(states[s], v)
      BY <2>1 DEF Updated
    <3>3. QED
      BY <1>1, <1>3, <2>1, <3>1, <3>2, ExtendedExplained DEF IInv, HistoryType
  <2>2. CASE ~ states[s].ready
    <3>1. history' = history /\ new = Collect(states[s], v)
      BY <2>2 DEF Update, Updated
    <3>2. history[s] = NoHistory
      BY <1>1, <2>2 DEF Explained
    <3>3. new.pos = 0 /\ new.neg = 0
      BY <1>1, <2>2, <3>1, CollectWellFormed
    <3>4. Explained(new, NoHistory)
      BY <3>3, DetectorAssumption DEF Explained, NoHistory
    <3>5. QED
      BY <3>1, <3>2, <3>4 DEF IInv
  <2>3. QED
    BY <2>1, <2>2
<1>6. alert' = IF Direction(new) = "none" THEN NoAlert
               ELSE [direction |-> Direction(new), stream |-> s, n |-> new.n]
  BY DEF Update
<1> HIDE DEF new
<1>7. alert' \in Alert \cup {NoAlert}
  BY <1>2, <1>6 DEF Direction, Alert, MetricState
<1>8. NoFalseAlarm'
  <2>1. CASE Direction(new) = "none"
    BY <1>6, <2>1 DEF NoFalseAlarm
  <2>2. CASE Direction(new) # "none"
    <3>1. new.pos > H \/ new.neg > H
      BY <2>2 DEF Direction
    <3>2. new.pos # 0 \/ new.neg # 0
      BY <3>1, CusumAssumption
    <3>3. history'[s].deviated
      BY <1>5, <3>2 DEF Explained
    <3>4. QED
      BY <1>6, <2>2, <3>3 DEF NoFalseAlarm
  <2>3. QED
    BY <2>1, <2>2
<1>9. ASSUME NEW r \in Streams
      PROVE  WellFormed(states'[r]) /\ Explained(states'[r], history'[r])
  <2>1. CASE r = s
    BY <1>2, <1>4, <1>5, <2>1
  <2>2. CASE r # s
    BY <1>4, <1>5, <2>2 DEF IInv
  <2>3. QED
    BY <2>1, <2>2
<1>10. QED
  BY <1>4, <1>5, <1>7, <1>8, <1>9 DEF IInv

LEMMA InvReset ==
  ASSUME IInv, NEW model, NEW metric, NEW suite, Reset(model, metric, suite)
  PROVE  IInv'
<1> DEFINE dropped == Selected(model, metric, suite)
<1>1. ASSUME NEW r \in Streams
      PROVE  \/ states'[r] = Untracked /\ history'[r] = NoHistory
             \/ states'[r] = states[r] /\ history'[r] = history[r]
  BY DEF Reset
<1>2. ASSUME NEW r \in Streams
      PROVE  /\ WellFormed(states'[r]) /\ Explained(states'[r], history'[r])
             /\ history'[r] \in [up : Nat, down : Nat, deviated : BOOLEAN]
  <2>1. CASE states'[r] = Untracked /\ history'[r] = NoHistory
    BY <2>1, NewWellFormed, NewExplained DEF Untracked, NoHistory
  <2>2. CASE states'[r] = states[r] /\ history'[r] = history[r]
    BY <2>2 DEF IInv, HistoryType
  <2>3. QED
    BY <1>1, <2>1, <2>2
<1>3. /\ states' \in [Streams -> MetricState]
      /\ history' \in HistoryType
  BY <1>2 DEF Reset, WellFormed, HistoryType
<1>4. QED
  BY <1>2, <1>3 DEF IInv, Reset, NoFalseAlarm

LEMMA InvStep == IInv /\ [Next]_vars => IInv'
<1> SUFFICES ASSUME IInv, [Next]_vars PROVE IInv'
  OBVIOUS
<1>1. CASE UNCHANGED vars
  BY <1>1 DEF vars, IInv, NoFalseAlarm
<1>2. QED
  BY <1>1, InvUpdate, InvReset DEF Next

\* The inductive invariant holds in every reachable state.
THEOREM Invariance == Spec => []IInv
BY InvInit, InvStep, PTL DEF Spec

-----------------------------------------------------------------------------
(* The properties.                                                         *)

\* The detector's state stays well-typed.
THEOREM TypeCorrect == Spec => []TypeOK
<1>1. IInv => TypeOK
  BY DEF IInv, TypeOK, HistoryType
<1>2. QED
  BY <1>1, Invariance, PTL

\* A stream that never left its slack band never alerts.
THEOREM FalseAlarmFree == Spec => []NoFalseAlarm
<1>1. IInv => NoFalseAlarm
  BY DEF IInv
<1>2. QED
  BY <1>1, Invariance, PTL

\* Every large shift is detected within H / Gain observations.
THEOREM Completeness == Spec => []ShiftDetected
<1>1. IInv => ShiftDetected
  <2> SUFFICES ASSUME IInv, NEW s \in Streams
               PROVE  /\ history[s].up * Gain > H =>
                           Direction(states[s]) = "positive"
                      /\ history[s].down * Gain > H =>
                           Direction(states[s]) # "none"
    BY DEF ShiftDetected
  <2>1. /\ states[s].pos \in Nat /\ states[s].neg \in Nat
        /\ history[s].up * Gain \in Nat /\ history[s].down * Gain \in Nat
        /\ H \in Nat
    BY CusumAssumption, DetectorAssumption DEF IInv, MetricState, HistoryType
  <2>2. /\ states[s].pos >= history[s].up * Gain
        /\ states[s].neg >= history[s].down * Gain
    BY DEF IInv, Explained
  <2>3. QED
    BY <2>1, <2>2 DEF Direction
<1>2. QED
  BY <1>1, Invariance, PTL

\* No observation ever moves an estimated baseline.
THEOREM BaselineFinal == Spec => BaselineFrozen
<1> DEFINE Frozen(s) ==
      states[s].ready =>
        \/ states'[s] = Untracked
        \/ /\ states'[s].ready
           /\ states'[s].mu = states[s].mu
           /\ states'[s].sigma = states[s].sigma
<1>1. ASSUME IInv, Next, NEW s \in Streams
      PROVE  Frozen(s)
  <2>1. ASSUME NEW r \in Streams, NEW v \in Values, Update(r, v)
        PROVE  Frozen(s)
    <3>1. CASE r # s
      BY <1>1, <2>1, <3>1 DEF Update, IInv
    <3>2. CASE r = s /\ states[s].ready
      <4>1. states'[s] = Accumulate(states[s], v)
        BY <1>1, <2>1, <3>2 DEF Update, Updated, IInv
      <4>2. WellFormed(states[s]) /\ v \in Int
        BY <1>1, DetectorAssumption DEF IInv
      <4>3. QED
        BY <3>2, <4>1, <4>2, AccumulateEffect
    <3>3. QED
      BY <3>1, <3>2
  <2>2. ASSUME NEW model, NEW metric, NEW suite, Reset(model, metric, suite)
        PROVE  Frozen(s)
    BY <2>2 DEF Reset
  <2>3. QED
    BY <1>1, <2>1, <2>2 DEF Next
<1>2. IInv /\ [Next]_vars => [\A s \in Streams : Frozen(s)]_vars
  BY <1>1
<1>3. QED
  BY <1>2, Invariance, PTL DEF Spec, BaselineFrozen
=============================================================================
