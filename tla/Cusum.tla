-------------------------------- MODULE Cusum --------------------------------
(***************************************************************************)
(* engine/detector.py, class _MetricState: Page-CUSUM over one stream.     *)
(*                                                                         *)
(* The code computes in floating point; here every quantity is a           *)
(* fixed-point integer with Unit steps to 1.0, so quotients and the square *)
(* root round down.  The baseline buffer is kept as the two sums the code  *)
(* computes from it; its length is n until the baseline is ready.          *)
(***************************************************************************)
EXTENDS Integers, FiniteSets

CONSTANTS
  Unit,               \* fixed-point steps in 1.0
  K,                  \* slack k, in steps
  H,                  \* threshold h, in steps
  BaselineSamples     \* MIN_BASELINE_SAMPLES, or the baseline_samples= override

ASSUME CusumAssumption ==
  /\ Unit \in Nat \ {0}
  /\ K \in Nat
  /\ H \in Nat
  /\ BaselineSamples \in Nat \ {0}

MetricState ==
  [n : Nat, sum : Int, sumsq : Int, ready : BOOLEAN,
   mu : Int, sigma : Nat, pos : Nat, neg : Nat]

NewMetricState ==
  [n |-> 0, sum |-> 0, sumsq |-> 0, ready |-> FALSE,
   mu |-> 0, sigma |-> 0, pos |-> 0, neg |-> 0]

\* The integer square root: how many positive integers have a square up to v.
SquareRoot(v) == Cardinality({r \in 1 .. v : r * r <= v})

\* Sample variance of n observations with the given sums.
Variance(n, sum, sumsq) ==
  IF n > 1 THEN (n * sumsq - sum * sum) \div (n * (n - 1)) ELSE 0

\* A near-zero deviation is clamped to 1.0.
Deviation(n, sum, sumsq) ==
  LET root == SquareRoot(Variance(n, sum, sumsq))
  IN  IF root = 0 THEN Unit ELSE root

FinalizeBaseline(st) ==
  [st EXCEPT !.ready = TRUE,
             !.mu = st.sum \div st.n,
             !.sigma = Deviation(st.n, st.sum, st.sumsq)]

Collect(st, v) ==
  LET grown == [st EXCEPT !.n = @ + 1, !.sum = @ + v, !.sumsq = @ + v * v]
  IN  IF grown.n >= BaselineSamples THEN FinalizeBaseline(grown) ELSE grown

ZScore(st, v) == ((v - st.mu) * Unit) \div st.sigma

Positive(x) == IF x > 0 THEN x ELSE 0

AccumulateNoSlack(st, v) ==
  LET z == ZScore(st, v)
  IN  [st EXCEPT !.n = @ + 1, !.pos = Positive(@ + z), !.neg = Positive(@ - z)]

AccumulateUnclamped(st, v) ==
  LET z == ZScore(st, v)
  IN  [st EXCEPT !.n = @ + 1, !.pos = @ + z - K, !.neg = @ - z - K]

Accumulate(st, v) ==
  LET z == ZScore(st, v)
  IN  [st EXCEPT !.n = @ + 1,
                 !.pos = Positive(@ + z - K),
                 !.neg = Positive(@ - z - K)]

UpdatedAdaptive(st, v) ==
  LET grown == [st EXCEPT !.sum = @ + v, !.sumsq = @ + v * v]
  IN  IF st.ready THEN FinalizeBaseline(Accumulate(grown, v)) ELSE Collect(st, v)

Updated(st, v) == IF st.ready THEN Accumulate(st, v) ELSE Collect(st, v)

Directions == {"positive", "negative", "none"}

\* What update() reports after moving to state st; upward shifts go first.
Direction(st) ==
  IF st.pos > H THEN "positive" ELSE IF st.neg > H THEN "negative" ELSE "none"
=============================================================================
