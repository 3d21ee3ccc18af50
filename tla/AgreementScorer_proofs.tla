----------------------- MODULE AgreementScorer_proofs -----------------------
(***************************************************************************)
(* Theorems about AgreementScorer for every set of orgs and streams, every *)
(* TTL, floor and fraction, and every bound on time.                       *)
(***************************************************************************)
EXTENDS AgreementScorer, Engine_proofs

-----------------------------------------------------------------------------
(* Lemmas about the tables.                                                *)

\* A bounded table of event times: the values agree[s] and observers[s] take.
BoundedTable == [Orgs -> Times \cup {Absent}]

LEMMA StampType ==
  ASSUME clock \in Times, NEW ts \in Times \cup {Unset}
  PROVE  Stamp(ts) \in Times
BY DEF Stamp, Unset

LEMMA TimesPositive ==
  /\ \A t \in Times : t \in Nat /\ t # Absent
  /\ \A t \in Times \cup {Absent} : t \in Nat
BY ScorerAssumption DEF Times, Absent

LEMMA EmptyTableType == EmptyTable \in BoundedTable
BY DEF EmptyTable, BoundedTable

LEMMA RecordType ==
  ASSUME NEW table \in BoundedTable, NEW o \in Orgs, NEW ts \in Times
  PROVE  /\ Record(table, o, ts) \in BoundedTable
         /\ table[o] <= Record(table, o, ts)[o]
         /\ ts <= Record(table, o, ts)[o]
         /\ Record(table, o, ts)[o] \in {table[o], ts}
         /\ \A p \in Orgs \ {o} : Record(table, o, ts)[p] = table[p]
<1>1. table[o] \in Nat /\ ts \in Nat
  BY TimesPositive DEF BoundedTable, Absent
<1>2. CASE ts >= table[o]
  <2>1. Record(table, o, ts) = [table EXCEPT ![o] = ts]
    BY <1>2 DEF Record
  <2>2. QED
    BY <1>1, <1>2, <2>1 DEF BoundedTable
<1>3. CASE ~ (ts >= table[o])
  <2>1. Record(table, o, ts) = table
    BY <1>3 DEF Record
  <2>2. QED
    BY <1>1, <1>3, <2>1
<1>4. QED
  BY <1>2, <1>3

LEMMA RecordAllAt ==
  ASSUME NEW table \in BoundedTable, NEW orgs \in SUBSET Orgs,
         NEW ts \in Times, NEW p \in Orgs
  PROVE  LET new == RecordAll(table, orgs, ts)[p]
         IN  /\ new \in Times \cup {Absent}
             /\ new \in {table[p], ts}
             /\ table[p] <= new
             /\ p \in orgs => ts <= new
             /\ p \notin orgs => new = table[p]
<1>1. RecordAll(table, orgs, ts)[p] =
        IF p \in orgs THEN Record(table, p, ts)[p] ELSE table[p]
  BY DEF RecordAll
<1>2. table[p] \in Nat /\ table[p] \in Times \cup {Absent}
  BY TimesPositive DEF BoundedTable, Absent
<1>3. CASE p \in orgs
  <2>1. Record(table, p, ts)[p] \in Times \cup {Absent}
    BY RecordType DEF BoundedTable
  <2>2. QED
    BY <1>1, <1>3, <2>1, RecordType
<1>4. CASE p \notin orgs
  BY <1>1, <1>2, <1>4
<1>5. QED
  BY <1>3, <1>4

LEMMA RecordAllType ==
  ASSUME NEW table \in BoundedTable, NEW orgs \in SUBSET Orgs, NEW ts \in Times
  PROVE  RecordAll(table, orgs, ts) \in BoundedTable
<1>1. ASSUME NEW p \in Orgs
      PROVE  RecordAll(table, orgs, ts)[p] \in Times \cup {Absent}
  BY RecordAllAt
<1>2. QED
  BY <1>1 DEF RecordAll, BoundedTable

-----------------------------------------------------------------------------
(* Type correctness.                                                       *)

LEMMA VerdictType ==
  ASSUME NEW s \in Streams, NEW n \in Nat
  PROVE  /\ [stream |-> s, count |-> n] \in Verdict
         /\ NoVerdict \in Verdict
BY DEF Verdict, NoVerdict, Gate!NoVerdict

LEMMA CastType ==
  ASSUME NEW s \in Streams, NEW orgs \in SUBSET Orgs, NEW ts \in Times
  PROVE  Gate!Cast(s, orgs, ts) \subseteq
           [stream : Streams, org : Orgs, ts : Times]
BY DEF Gate!Cast

LEMMA TypeInit == Init => TypeOK
BY EmptyTableType
   DEF Init, TypeOK, BoundedTable, Verdict, NoVerdict, Gate!NoVerdict

LEMMA TypeStep == TypeOK /\ [Next]_vars => TypeOK'
<1> SUFFICES ASSUME TypeOK, [Next]_vars
             PROVE  TypeOK'
  OBVIOUS
<1> USE DEF BoundedTable
<1>1. ASSUME NEW s \in Streams, NEW o \in Orgs,
             NEW ts \in Times \cup {Unset}, Observe(s, o, ts)
      PROVE  TypeOK'
  <2>1. Record(observers[s], o, Stamp(ts)) \in BoundedTable
    BY StampType, RecordType DEF TypeOK
  <2>2. QED
    BY <1>1, <2>1 DEF Observe, TypeOK, Verdict, NoVerdict, Gate!NoVerdict
<1>2. ASSUME NEW s \in Streams, NEW orgs \in SUBSET Orgs,
             NEW detected \in BOOLEAN, NEW ts \in Times \cup {Unset},
             Ingest(s, orgs, detected, ts)
      PROVE  TypeOK'
  <2>1. Stamp(ts) \in Times
    BY StampType DEF TypeOK
  <2>2. /\ RecordAll(observers[s], orgs, Stamp(ts)) \in BoundedTable
        /\ RecordAll(agree[s], orgs, Stamp(ts)) \in BoundedTable
    BY <2>1, RecordAllType DEF TypeOK
  <2>3. ballots' \subseteq [stream : Streams, org : Orgs, ts : Times]
    BY <1>2, <2>1, CastType DEF Ingest, TypeOK
  <2>4. QED
    BY <1>2, <2>2, <2>3
       DEF Ingest, TypeOK, Verdict, NoVerdict, Gate!NoVerdict
<1>3. ASSUME NEW s \in Streams
      PROVE  /\ Dropped(s) \in [Streams -> BoundedTable]
             /\ Gate!OtherStreams(s) \subseteq ballots
  BY EmptyTableType DEF TypeOK, Dropped, Gate!OtherStreams
<1>4. ASSUME NEW s \in Streams, NEW ts \in Times \cup {Unset},
             PromoteToPublicAlert(s, ts)
      PROVE  TypeOK'
  <2>1. verdict' \in Verdict
    BY <1>4, VerdictType, LiveOrgsFinite DEF PromoteToPublicAlert
  <2>2. QED
    BY <1>3, <1>4, <2>1 DEF PromoteToPublicAlert, TypeOK
<1>5. ASSUME NEW s \in Streams, Clear(s)
      PROVE  TypeOK'
  BY <1>3, <1>5, VerdictType DEF Clear, TypeOK
<1>6. CASE ClockStep
  BY <1>6 DEF ClockStep, TypeOK, Verdict, NoVerdict, Gate!NoVerdict
<1>7. CASE UNCHANGED vars
  BY <1>7 DEF vars, TypeOK
<1>8. QED
  BY <1>1, <1>2, <1>4, <1>5, <1>6, <1>7 DEF Next

\* Whatever sequence of calls the gateway makes, under any clock, the tables
\* hold event times and the verdict names a stream and a count.
THEOREM TypeCorrect == Spec => []TypeOK
BY TypeInit, TypeStep, PTL DEF Spec

-----------------------------------------------------------------------------
(* Observers dominate candidates.                                          *)

LEMMA ObserversStep ==
  TypeOK /\ AgreeingAreObservers /\ [Next]_vars => AgreeingAreObservers'
<1> SUFFICES ASSUME TypeOK, AgreeingAreObservers, [Next]_vars,
                    NEW r \in Streams, NEW p \in Orgs
             PROVE  agree'[r][p] <= observers'[r][p]
  BY DEF AgreeingAreObservers
<1>1. /\ agree[r] \in BoundedTable
      /\ observers[r] \in BoundedTable
      /\ agree[r][p] \in Nat
      /\ observers[r][p] \in Nat
      /\ agree[r][p] <= observers[r][p]
  BY TimesPositive DEF TypeOK, AgreeingAreObservers, Absent, BoundedTable
<1>2. ASSUME NEW s \in Streams, NEW o \in Orgs,
             NEW ts \in Times \cup {Unset}, Observe(s, o, ts)
      PROVE  agree'[r][p] <= observers'[r][p]
  <2>1. observers[r][p] <= observers'[r][p] /\ observers'[r][p] \in Nat
    <3>1. CASE r = s
      <4> DEFINE table == Record(observers[s], o, Stamp(ts))
      <4>1. observers'[r] = table
        BY <1>2, <3>1 DEF Observe, TypeOK
      <4>2. /\ table \in BoundedTable
            /\ observers[s][o] <= table[o]
            /\ \A q \in Orgs \ {o} : table[q] = observers[s][q]
        BY <1>1, <3>1, StampType, RecordType DEF TypeOK
      <4>3. QED
        BY <1>1, <3>1, <4>1, <4>2, TimesPositive DEF BoundedTable, Absent
    <3>2. CASE r # s
      BY <1>1, <1>2, <3>2 DEF Observe, TypeOK
    <3>3. QED
      BY <3>1, <3>2
  <2>2. QED
    BY <1>1, <1>2, <2>1 DEF Observe
<1>3. ASSUME NEW s \in Streams, NEW orgs \in SUBSET Orgs,
             NEW detected \in BOOLEAN, NEW ts \in Times \cup {Unset},
             Ingest(s, orgs, detected, ts)
      PROVE  agree'[r][p] <= observers'[r][p]
  <2> DEFINE obs == RecordAll(observers[s], orgs, Stamp(ts))
             agr == RecordAll(agree[s], orgs, Stamp(ts))
  <2>1. CASE r = s
    <3>1. Stamp(ts) \in Times
      BY StampType DEF TypeOK
    <3>2. observers'[r] = obs /\ (agree'[r] = agr \/ agree'[r] = agree[r])
      BY <1>3, <2>1 DEF Ingest, TypeOK
    <3>3. /\ observers[s] \in BoundedTable
          /\ agree[s] \in BoundedTable
      BY <1>1, <2>1
    <3>4. /\ observers[s][p] <= obs[p]
          /\ p \in orgs => Stamp(ts) <= obs[p]
          /\ obs[p] \in Times \cup {Absent}
      BY <3>1, <3>3, RecordAllAt
    <3>5. /\ agr[p] \in {agree[s][p], Stamp(ts)}
          /\ p \notin orgs => agr[p] = agree[s][p]
          /\ agr[p] \in Times \cup {Absent}
      BY <3>1, <3>3, RecordAllAt
    <3> HIDE DEF obs, agr
    <3>6. agr[p] <= obs[p] /\ agree[s][p] <= obs[p]
      BY <1>1, <2>1, <3>1, <3>4, <3>5, TimesPositive DEF Absent
    <3>7. QED
      BY <2>1, <3>2, <3>6
  <2>2. CASE r # s
    BY <1>1, <1>3, <2>2 DEF Ingest, TypeOK
  <2>3. QED
    BY <2>1, <2>2
<1>4. ASSUME NEW s \in Streams
      PROVE  Dropped(s)[r][p] <= observers[r][p]
  BY <1>1 DEF Dropped, EmptyTable, Absent, TypeOK
<1>5. ASSUME NEW s \in Streams, NEW ts \in Times \cup {Unset},
             PromoteToPublicAlert(s, ts)
      PROVE  agree'[r][p] <= observers'[r][p]
  BY <1>1, <1>4, <1>5 DEF PromoteToPublicAlert
<1>6. ASSUME NEW s \in Streams, Clear(s)
      PROVE  agree'[r][p] <= observers'[r][p]
  BY <1>4, <1>6 DEF Clear
<1>7. CASE ClockStep \/ UNCHANGED vars
  BY <1>1, <1>7 DEF ClockStep, vars
<1>8. QED
  BY <1>2, <1>3, <1>5, <1>6, <1>7 DEF Next

\* The population behind q(M) contains every org that agrees.
THEOREM ObserversCorrect == Spec => []AgreeingAreObservers
<1>1. Init => AgreeingAreObservers
  BY DEF Init, AgreeingAreObservers, EmptyTable, Absent
<1>2. QED
  BY <1>1, ObserversStep, TypeCorrect, PTL DEF Spec

-----------------------------------------------------------------------------
(* A candidate is the org's latest ballot.                                 *)

LEMMA LatestStep ==
  TypeOK /\ AgreeIsLatestBallot /\ [Next]_vars => AgreeIsLatestBallot'
<1> SUFFICES ASSUME TypeOK, AgreeIsLatestBallot, [Next]_vars
             PROVE  AgreeIsLatestBallot'
  OBVIOUS
<1>1. ASSUME NEW s \in Streams
      PROVE  agree[s] \in BoundedTable
  BY DEF TypeOK, BoundedTable
<1>2. ASSUME NEW s \in Streams, NEW orgs \in SUBSET Orgs, NEW ts \in Times,
             agree' = [agree EXCEPT ![s] = RecordAll(@, orgs, ts)],
             ballots' = ballots \cup Gate!Cast(s, orgs, ts)
      PROVE  AgreeIsLatestBallot'
  <2> DEFINE agr == RecordAll(agree[s], orgs, ts)
  <2>1. /\ agree'[s] = agr
        /\ \A r \in Streams \ {s} : agree'[r] = agree[r]
    BY <1>2 DEF TypeOK
  <2>2. ASSUME NEW p \in Orgs
        PROVE  /\ agr[p] \in {agree[s][p], ts}
               /\ agree[s][p] <= agr[p]
               /\ p \in orgs => ts <= agr[p]
               /\ p \notin orgs => agr[p] = agree[s][p]
               /\ agr[p] \in Nat /\ agree[s][p] \in Nat
    <3>1. agr[p] \in Times \cup {Absent} /\ agree[s][p] \in Times \cup {Absent}
      BY <1>1, RecordAllAt DEF BoundedTable
    <3>2. QED
      BY <1>1, <3>1, RecordAllAt, TimesPositive
  <2> HIDE DEF agr
  <2>3. ASSUME NEW r \in Streams, NEW p \in Orgs, agree'[r][p] # Absent
        PROVE  [stream |-> r, org |-> p, ts |-> agree'[r][p]] \in ballots'
    <3>1. CASE agree'[r][p] = agree[r][p]
      BY <1>2, <2>3, <3>1 DEF AgreeIsLatestBallot
    <3>2. CASE agree'[r][p] # agree[r][p]
      <4>1. r = s /\ p \in orgs /\ agree'[r][p] = ts
        BY <2>1, <2>2, <3>2
      <4>2. QED
        BY <1>2, <4>1 DEF Gate!Cast
    <3>3. QED
      BY <3>1, <3>2
  <2>4. ASSUME NEW b \in ballots'
        PROVE  b.ts <= agree'[b.stream][b.org]
    <3>1. CASE b \in ballots
      <4>1. /\ b.stream \in Streams /\ b.org \in Orgs /\ b.ts \in Nat
            /\ b.ts <= agree[b.stream][b.org]
        BY <3>1, TimesPositive DEF TypeOK, AgreeIsLatestBallot
      <4>2. CASE b.stream = s
        BY <2>1, <2>2, <4>1, <4>2
      <4>3. CASE b.stream # s
        BY <2>1, <4>1, <4>3
      <4>4. QED
        BY <4>2, <4>3
    <3>2. CASE b \in Gate!Cast(s, orgs, ts)
      <4>1. b.stream = s /\ b.org \in orgs /\ b.ts = ts
        BY <3>2 DEF Gate!Cast
      <4>2. QED
        BY <2>1, <2>2, <4>1
    <3>3. QED
      BY <1>2, <3>1, <3>2
  <2>5. QED
    BY <2>3, <2>4 DEF AgreeIsLatestBallot
<1>3. ASSUME NEW s \in Streams,
             agree' = Dropped(s), ballots' = Gate!OtherStreams(s)
      PROVE  AgreeIsLatestBallot'
  <2>1. /\ \A p \in Orgs : agree'[s][p] = Absent
        /\ \A r \in Streams \ {s} : agree'[r] = agree[r]
    BY <1>3 DEF Dropped, EmptyTable, TypeOK
  <2>2. \A b \in ballots' : b \in ballots /\ b.stream \in Streams \ {s}
    BY <1>3 DEF Gate!OtherStreams, TypeOK
  <2>3. \A b \in ballots : b.stream # s => b \in ballots'
    BY <1>3 DEF Gate!OtherStreams
  <2>4. ASSUME NEW r \in Streams, NEW p \in Orgs, agree'[r][p] # Absent
        PROVE  [stream |-> r, org |-> p, ts |-> agree'[r][p]] \in ballots'
    BY <2>1, <2>3, <2>4 DEF AgreeIsLatestBallot
  <2>5. ASSUME NEW b \in ballots'
        PROVE  b.ts <= agree'[b.stream][b.org]
    BY <2>1, <2>2 DEF AgreeIsLatestBallot
  <2>6. QED
    BY <2>4, <2>5 DEF AgreeIsLatestBallot
<1>4. ASSUME UNCHANGED <<agree, ballots>>
      PROVE  AgreeIsLatestBallot'
  BY <1>4 DEF AgreeIsLatestBallot
<1>5. ASSUME NEW s \in Streams, NEW orgs \in SUBSET Orgs,
             NEW detected \in BOOLEAN, NEW ts \in Times \cup {Unset},
             Ingest(s, orgs, detected, ts)
      PROVE  AgreeIsLatestBallot'
  <2>1. Stamp(ts) \in Times
    BY StampType DEF TypeOK
  <2>2. CASE detected
    BY <1>2, <1>5, <2>1, <2>2 DEF Ingest
  <2>3. CASE ~ detected
    BY <1>4, <1>5, <2>3 DEF Ingest
  <2>4. QED
    BY <2>2, <2>3
<1>6. ASSUME NEW s \in Streams, NEW ts \in Times \cup {Unset},
             PromoteToPublicAlert(s, ts)
      PROVE  AgreeIsLatestBallot'
  BY <1>3, <1>4, <1>6 DEF PromoteToPublicAlert
<1>7. ASSUME NEW s \in Streams, Clear(s)
      PROVE  AgreeIsLatestBallot'
  BY <1>3, <1>7 DEF Clear
<1>8. ASSUME NEW s \in Streams, NEW o \in Orgs,
             NEW ts \in Times \cup {Unset}, Observe(s, o, ts)
      PROVE  AgreeIsLatestBallot'
  BY <1>4, <1>8 DEF Observe
<1>9. CASE ClockStep \/ UNCHANGED vars
  BY <1>4, <1>9 DEF ClockStep, vars
<1>10. QED
  BY <1>5, <1>6, <1>7, <1>8, <1>9 DEF Next

\* An org holds at most one candidate per stream, its latest ballot.
THEOREM LatestCorrect == Spec => []AgreeIsLatestBallot
<1>1. Init => AgreeIsLatestBallot
  BY DEF Init, AgreeIsLatestBallot, EmptyTable
<1>2. QED
  BY <1>1, LatestStep, TypeCorrect, PTL DEF Spec

-----------------------------------------------------------------------------
(* The scorer implements the gate.                                         *)

\* The gate counts with the same Cardinality.
LEMMA SameCardinality == \A S : Gate!Cardinality(S) = Cardinality(S)
BY DEF Gate!Cardinality, Cardinality

LEMMA GateStep ==
  TypeOK /\ AgreeIsLatestBallot /\ [Next]_vars => [Gate!Next]_(Gate!vars)
<1> SUFFICES ASSUME TypeOK, AgreeIsLatestBallot, [Next]_vars
             PROVE  Gate!Next \/ UNCHANGED Gate!vars
  OBVIOUS
<1> USE DEF NoVerdict
<1>1. ASSUME NEW s \in Streams, NEW orgs \in SUBSET Orgs,
             NEW detected \in BOOLEAN, NEW ts \in Times \cup {Unset},
             Ingest(s, orgs, detected, ts)
      PROVE  Gate!Next
  <2>1. Stamp(ts) \in Times
    BY StampType DEF TypeOK
  <2>2. CASE detected
    <3>1. Gate!Vote(s, orgs, Stamp(ts))
      BY <1>1, <2>2 DEF Ingest, Gate!Vote
    <3>2. QED
      BY <2>1, <3>1 DEF Gate!Next
  <2>3. CASE ~ detected
    BY <1>1, <2>3 DEF Ingest, Gate!Next, Gate!NoDecision
  <2>4. QED
    BY <2>2, <2>3
<1>2. ASSUME NEW s \in Streams, NEW ts \in Times \cup {Unset},
             PromoteToPublicAlert(s, ts)
      PROVE  Gate!Next
  <2> DEFINE t == Stamp(ts)
             voters == LiveOrgs(agree[s], t)
  <2>1. t \in Times
    BY StampType DEF TypeOK
  <2>2. CASE QuorumMet(observers[s], agree[s], t)
    <3>1. voters \in SUBSET Orgs /\ Cardinality(voters) >= Floor
      BY <2>2, QuorumMetBounds, LiveOrgsFinite
    <3>2. voters # {}
      BY <2>2 DEF QuorumMet
    <3>3. ASSUME NEW o \in voters
          PROVE  Gate!HasBallot(s, o, t)
      <4>1. /\ o \in Orgs /\ agree[s][o] # Absent
            /\ t - TTL <= agree[s][o] /\ agree[s][o] <= t
        BY <3>3 DEF LiveOrgs
      <4>2. [stream |-> s, org |-> o, ts |-> agree[s][o]] \in ballots
        BY <4>1 DEF AgreeIsLatestBallot
      <4>3. QED
        BY <4>1, <4>2 DEF Gate!HasBallot
    <3>4. /\ verdict' = [stream |-> s, count |-> Cardinality(voters)]
          /\ ballots' = Gate!OtherStreams(s)
      BY <1>2, <2>2 DEF PromoteToPublicAlert
    <3> HIDE DEF t, voters
    <3>5. Gate!Promote(s, t)
      <4>1. \A o \in voters : Gate!HasBallot(s, o, t)
        BY <3>3
      <4>2. \E v \in SUBSET Orgs :
              /\ Cardinality(v) >= Floor
              /\ v # {}
              /\ \A o \in v : Gate!HasBallot(s, o, t)
              /\ verdict' = [stream |-> s, count |-> Cardinality(v)]
              /\ ballots' = Gate!OtherStreams(s)
        BY <3>1, <3>2, <3>4, <4>1
      <4>3. QED
        BY <4>2, SameCardinality DEF Gate!Promote
    <3>6. QED
      BY <2>1, <3>5 DEF Gate!Next
  <2>3. CASE ~ QuorumMet(observers[s], agree[s], t)
    BY <1>2, <2>3 DEF PromoteToPublicAlert, Gate!Next, Gate!NoDecision
  <2>4. QED
    BY <2>2, <2>3
<1>3. ASSUME NEW s \in Streams, Clear(s)
      PROVE  Gate!Next
  BY <1>3 DEF Clear, Gate!Next, Gate!Discard
<1>4. ASSUME NEW s \in Streams, NEW o \in Orgs,
             NEW ts \in Times \cup {Unset}, Observe(s, o, ts)
      PROVE  Gate!Next
  BY <1>4 DEF Observe, Gate!Next, Gate!NoDecision
<1>5. CASE ClockStep
  BY <1>5 DEF ClockStep, Gate!Next, Gate!NoDecision
<1>6. CASE UNCHANGED vars
  BY <1>6 DEF vars, Gate!vars
<1>7. QED
  BY <1>1, <1>2, <1>3, <1>4, <1>5, <1>6 DEF Next

\* AgreementScorer implements QuorumGate.
THEOREM GateCorrect == Spec => GateKept
<1>1. Init => Gate!Init
  BY DEF Init, Gate!Init, NoVerdict
<1>2. QED
  BY <1>1, GateStep, TypeCorrect, LatestCorrect, PTL
     DEF Spec, GateKept, Gate!Spec

-----------------------------------------------------------------------------
(* A promotion takes a share of the whole live population.                 *)

LEMMA ScalesStep == TypeOK /\ [Next]_vars => [ScaledPromotion]_vars
<1> SUFFICES ASSUME TypeOK, Next, verdict' # NoVerdict
             PROVE  ScaledPromotion
  BY DEF ScaledPromotion
<1>1. PICK s \in Streams, ts \in Times \cup {Unset} : PromoteToPublicAlert(s, ts)
  BY DEF Next, Clear, ClockStep, Observe, Ingest
<1>2. QuorumMet(observers[s], agree[s], Stamp(ts))
  BY <1>1 DEF PromoteToPublicAlert
<1>3. /\ verdict' = [stream |-> s,
                     count |-> Cardinality(LiveOrgs(agree[s], Stamp(ts)))]
      /\ observers' = observers
  BY <1>1, <1>2 DEF PromoteToPublicAlert
<1>4. Stamp(ts) \in Times
  BY StampType DEF TypeOK
<1>5. FracDen * Cardinality(LiveOrgs(agree[s], Stamp(ts))) >=
        FracNum * Cardinality(LiveOrgs(observers[s], Stamp(ts)))
  BY <1>2, QuorumMetBounds
<1>6. QED
  BY <1>3, <1>4, <1>5 DEF ScaledPromotion

\* No promotion by fewer than FracNum/FracDen of the live observers.
THEOREM ScalesCorrect == Spec => PromotionScales
BY ScalesStep, TypeCorrect, PTL DEF Spec, PromotionScales, ScaledPromotion

=============================================================================
