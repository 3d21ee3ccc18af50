---------------------------- MODULE Engine_proofs ----------------------------
(***************************************************************************)
(* What the engine's pure operators guarantee for every value of the       *)
(* constants: the quorum arithmetic of engine/correlation.py and the       *)
(* arithmetic of one stream of engine/detector.py.  The proofs about the   *)
(* scorers, the detector and the gateway rest on these lemmas.             *)
(***************************************************************************)
EXTENDS QuorumPolicy, Cusum, TLAPS, FiniteSetTheorems

-----------------------------------------------------------------------------
(* The quorum.                                                             *)

\* The live orgs are finitely many, so they can be counted.
LEMMA LiveOrgsFinite ==
  ASSUME NEW table, NEW t
  PROVE  /\ LiveOrgs(table, t) \in SUBSET Orgs
         /\ IsFiniteSet(LiveOrgs(table, t))
         /\ Cardinality(LiveOrgs(table, t)) \in Nat
<1>1. LiveOrgs(table, t) \in SUBSET Orgs
  BY DEF LiveOrgs
<1>2. QED
  BY <1>1, FS_Subset, FS_CardinalityType, QuorumAssumption

\* q(M) is the floor or the rounded-up share, whichever is larger.
LEMMA RequiredQuorumBounds ==
  ASSUME NEW m \in Nat
  PROVE  /\ RequiredQuorum(m) \in Nat
         /\ RequiredQuorum(m) >= Floor
         /\ FracDen * RequiredQuorum(m) >= FracNum * m
<1> DEFINE n == FracNum * m
           scaled == (n + FracDen - 1) \div FracDen
<1>1. n \in Nat
  BY QuorumAssumption
<1>2. n + FracDen - 1 \in Nat /\ scaled \in Nat
  BY <1>1, QuorumAssumption
<1>3. FracDen * scaled >= n
  BY <1>1, <1>2, QuorumAssumption
<1>4. QED
  BY <1>1, <1>2, <1>3, QuorumAssumption DEF RequiredQuorum

\* M counts at least every live observer.
LEMMA PopulationType ==
  ASSUME NEW obs, NEW agr, NEW t
  PROVE  /\ Population(obs, agr, t) \in Nat
         /\ Population(obs, agr, t) >= Cardinality(LiveOrgs(obs, t))
BY LiveOrgsFinite DEF Population

\* A met quorum has Floor live agreeing orgs and its share of the population.
LEMMA QuorumMetBounds ==
  ASSUME NEW obs, NEW agr, NEW t, QuorumMet(obs, agr, t)
  PROVE  LET n == Cardinality(LiveOrgs(agr, t))
         IN  /\ n >= Floor
             /\ FracDen * n >= FracNum * Cardinality(LiveOrgs(obs, t))
<1> DEFINE m == Population(obs, agr, t)
           n == Cardinality(LiveOrgs(agr, t))
           w == Cardinality(LiveOrgs(obs, t))
           q == RequiredQuorum(m)
<1>1. m \in Nat /\ n \in Nat /\ w \in Nat /\ m >= w
  BY PopulationType, LiveOrgsFinite
<1>2. q \in Nat /\ q >= Floor /\ FracDen * q >= FracNum * m
  BY <1>1, RequiredQuorumBounds
<1>3. n >= q
  BY DEF QuorumMet
<1> HIDE DEF m, n, w, q
<1>4. FracDen * n >= FracDen * q
  BY <1>1, <1>2, <1>3, QuorumAssumption
<1>5. FracNum * m >= FracNum * w
  BY <1>1, QuorumAssumption
<1>6. /\ FracDen * n \in Nat /\ FracDen * q \in Nat
      /\ FracNum * m \in Nat /\ FracNum * w \in Nat
  BY <1>1, <1>2, QuorumAssumption
<1>7. n >= Floor /\ FracDen * n >= FracNum * w
  BY <1>1, <1>2, <1>3, <1>4, <1>5, <1>6, QuorumAssumption
<1>8. QED
  BY <1>7 DEF n, w

\* q(M) never falls when the population grows.
LEMMA RequiredQuorumMonotone ==
  ASSUME NEW m \in Nat, NEW p \in Nat, m <= p
  PROVE  RequiredQuorum(m) <= RequiredQuorum(p)
<1> DEFINE a == FracNum * m + FracDen - 1
           b == FracNum * p + FracDen - 1
           i == a \div FracDen
           j == b \div FracDen
<1>1. FracNum * m \in Nat /\ FracNum * p \in Nat /\ FracNum * m <= FracNum * p
  BY QuorumAssumption
<1>2. a \in Nat /\ b \in Nat /\ a <= b
  BY <1>1, QuorumAssumption
<1> HIDE DEF a, b
<1>3. /\ i \in Nat /\ j \in Nat
      /\ FracDen * i <= a /\ b < FracDen * (j + 1)
  BY <1>2, QuorumAssumption
<1> HIDE DEF i, j
<1>4. i <= j
  <2> SUFFICES ASSUME j + 1 <= i PROVE FALSE
    BY <1>3
  <2>1. FracDen * (j + 1) <= FracDen * i
    BY <1>3, QuorumAssumption
  <2>2. FracDen * (j + 1) \in Nat /\ FracDen * i \in Nat
    BY <1>3, QuorumAssumption
  <2> QED BY <1>2, <1>3, <2>1, <2>2
<1> QED BY <1>3, <1>4, QuorumAssumption DEF RequiredQuorum, a, b, i, j

-----------------------------------------------------------------------------
(* The arithmetic of one stream.                                           *)

LEMMA SquareRootType == ASSUME NEW v \in Int PROVE SquareRoot(v) \in Nat
<1>1. IsFiniteSet(1 .. v)
  BY FS_Interval
<1>2. IsFiniteSet({r \in 1 .. v : r * r <= v})
  BY <1>1, FS_Subset
<1>3. QED
  BY <1>2, FS_CardinalityType DEF SquareRoot

LEMMA VarianceType ==
  ASSUME NEW n \in Nat, NEW sum \in Int, NEW sumsq \in Int
  PROVE  Variance(n, sum, sumsq) \in Int
<1>1. CASE n > 1
  <2>1. n * (n - 1) \in Nat \ {0}
    <3>1. \A a, b \in Nat \ {0} : a * b \in Nat \ {0}
      OBVIOUS
    <3>2. QED
      BY <1>1, <3>1
  <2>2. n * sumsq - sum * sum \in Int
    OBVIOUS
  <2>3. QED
    BY <1>1, <2>1, <2>2 DEF Variance
<1>2. CASE ~ (n > 1)
  BY <1>2 DEF Variance
<1>3. QED
  BY <1>1, <1>2

\* The clamp keeps the divisor of every z-score positive.
LEMMA DeviationPositive ==
  ASSUME NEW n \in Nat, NEW sum \in Int, NEW sumsq \in Int
  PROVE  Deviation(n, sum, sumsq) \in Nat \ {0}
BY VarianceType, SquareRootType, CusumAssumption DEF Deviation

\* A well-formed stream: once the baseline is ready its deviation is positive,
\* and until then nothing has accumulated.
WellFormed(st) ==
  /\ st \in MetricState
  /\ st.ready => st.sigma # 0
  /\ ~ st.ready => st.pos = 0 /\ st.neg = 0

LEMMA NewWellFormed == WellFormed(NewMetricState)
BY DEF WellFormed, NewMetricState, MetricState

LEMMA ZScoreType ==
  ASSUME NEW st, WellFormed(st), st.ready, NEW v \in Int
  PROVE  ZScore(st, v) \in Int
<1>1. st.mu \in Int /\ st.sigma \in Nat \ {0}
  BY DEF WellFormed, MetricState
<1>2. (v - st.mu) * Unit \in Int
  BY <1>1, CusumAssumption
<1>3. QED
  BY <1>1, <1>2 DEF ZScore

LEMMA CollectWellFormed ==
  ASSUME NEW st, WellFormed(st), ~ st.ready, NEW v \in Int
  PROVE  /\ WellFormed(Collect(st, v))
         /\ Collect(st, v).pos = 0 /\ Collect(st, v).neg = 0
<1> DEFINE grown == [st EXCEPT !.n = @ + 1, !.sum = @ + v, !.sumsq = @ + v * v]
<1>1. /\ grown \in MetricState
      /\ grown.n \in Nat \ {0}
      /\ grown.pos = 0 /\ grown.neg = 0 /\ ~ grown.ready
  <2>1. st.n + 1 \in Nat \ {0} /\ st.sum + v \in Int /\ st.sumsq + v * v \in Int
    <3>1. v * v \in Int
      OBVIOUS
    <3>2. st.n \in Nat /\ st.sum \in Int /\ st.sumsq \in Int
      BY DEF WellFormed, MetricState
    <3>3. QED
      BY <3>1, <3>2
  <2>2. /\ grown = [st EXCEPT !.n = st.n + 1, !.sum = st.sum + v,
                            !.sumsq = st.sumsq + v * v]
        /\ st \in MetricState /\ st.pos = 0 /\ st.neg = 0
    BY DEF WellFormed
  <2> HIDE DEF grown
  <2>3. QED
    BY <2>1, <2>2 DEF MetricState
<1> HIDE DEF grown
<1>2. /\ grown.sum \div grown.n \in Int
      /\ Deviation(grown.n, grown.sum, grown.sumsq) \in Nat \ {0}
  BY <1>1, DeviationPositive DEF MetricState
<1>3. /\ WellFormed(FinalizeBaseline(grown))
      /\ FinalizeBaseline(grown).pos = 0 /\ FinalizeBaseline(grown).neg = 0
  BY <1>1, <1>2 DEF FinalizeBaseline, WellFormed, MetricState
<1>4. WellFormed(grown)
  BY <1>1 DEF WellFormed
<1>5. Collect(st, v) =
        IF grown.n >= BaselineSamples THEN FinalizeBaseline(grown) ELSE grown
  BY DEF Collect, grown
<1>6. QED
  BY <1>1, <1>3, <1>4, <1>5

LEMMA PositiveBounds ==
  ASSUME NEW x \in Int
  PROVE  Positive(x) \in Nat /\ Positive(x) >= x /\ (x <= 0 => Positive(x) = 0)
BY DEF Positive

\* One observation moves each accumulator by the z-score less the slack, and
\* never below zero; the baseline stays as it is.
LEMMA AccumulateEffect ==
  ASSUME NEW st, WellFormed(st), st.ready, NEW v \in Int
  PROVE  LET new == Accumulate(st, v)
             z == ZScore(st, v)
         IN  /\ WellFormed(new)
             /\ new.ready /\ new.mu = st.mu /\ new.sigma = st.sigma
             /\ new.pos = Positive(st.pos + z - K)
             /\ new.neg = Positive(st.neg - z - K)
<1> DEFINE z == ZScore(st, v)
<1>1. z \in Int
  BY ZScoreType
<1>2. /\ Positive(st.pos + z - K) \in Nat
      /\ Positive(st.neg - z - K) \in Nat
  <2>1. st.pos + z - K \in Int /\ st.neg - z - K \in Int
    BY <1>1, CusumAssumption DEF WellFormed, MetricState
  <2>2. QED
    BY <2>1, PositiveBounds
<1> HIDE DEF z
<1>3. Accumulate(st, v) = [st EXCEPT !.n = @ + 1,
                                     !.pos = Positive(@ + z - K),
                                     !.neg = Positive(@ - z - K)]
  BY DEF Accumulate, z
<1> DEFINE new == Accumulate(st, v)
<1>4. /\ st \in MetricState /\ st.sigma # 0 /\ st.n + 1 \in Nat
      /\ new = [st EXCEPT !.n = st.n + 1,
                          !.pos = Positive(st.pos + z - K),
                          !.neg = Positive(st.neg - z - K)]
  BY <1>3 DEF WellFormed, MetricState
<1> HIDE DEF new
<1>5. /\ new \in MetricState
      /\ new.ready /\ new.mu = st.mu /\ new.sigma = st.sigma
      /\ new.pos = Positive(st.pos + z - K)
      /\ new.neg = Positive(st.neg - z - K)
  BY <1>2, <1>4 DEF MetricState
<1>6. WellFormed(new)
  BY <1>4, <1>5 DEF WellFormed
<1>7. QED
  BY <1>5, <1>6 DEF z, new

LEMMA UpdatedWellFormed ==
  ASSUME NEW st, WellFormed(st), NEW v \in Int
  PROVE  WellFormed(Updated(st, v))
BY CollectWellFormed, AccumulateEffect DEF Updated
=============================================================================
