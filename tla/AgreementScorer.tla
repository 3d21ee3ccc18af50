--------------------------- MODULE AgreementScorer ---------------------------
(***************************************************************************)
(* engine/correlation.py, class AgreementScorer: the in-process quorum     *)
(* gate.  One action per public method, called in any order by one thread  *)
(* (the gateway's event loop), with timestamps given by the caller or left *)
(* to the wall clock.  The wall clock is time.time_ns(): it may be stepped *)
(* back.                                                                   *)
(***************************************************************************)
EXTENDS QuorumPolicy

CONSTANTS
  Streams,    \* (model_tuple, suite_version, metric_name) keys
  MaxTime     \* bound on clock readings and event times

ASSUME ScorerAssumption == MaxTime \in Nat \ {0}

VARIABLES
  agree,      \* _agree:     stream -> org -> latest candidate
  observers,  \* _observers: stream -> org -> latest sighting
  clock,      \* the wall clock
  verdict,    \* what the last call returned
  ballots     \* history: the candidates ingested since the last decision

vars == <<agree, observers, clock, verdict, ballots>>

Times == 1 .. MaxTime

\* timestamp_ns=None (or 0): the caller leaves the event time to the clock.
Unset == 0

Stamp(ts) == IF ts = Unset THEN clock ELSE ts

Gate == INSTANCE QuorumGate WITH Instants <- Times

NoVerdict == Gate!NoVerdict

Init ==
  /\ agree = [s \in Streams |-> EmptyTable]
  /\ observers = [s \in Streams |-> EmptyTable]
  /\ clock \in Times
  /\ verdict = NoVerdict
  /\ ballots = {}

Observe(s, o, ts) ==
  /\ observers' = [observers EXCEPT ![s] = Record(@, o, Stamp(ts))]
  /\ verdict' = NoVerdict
  /\ UNCHANGED <<agree, clock, ballots>>

\* contributing_orgs may be empty: then the call does nothing at all.
Ingest(s, orgs, detected, ts) ==
  /\ observers' = [observers EXCEPT ![s] = RecordAll(@, orgs, Stamp(ts))]
  /\ IF detected
     THEN /\ agree' = [agree EXCEPT ![s] = RecordAll(@, orgs, Stamp(ts))]
          /\ ballots' = ballots \cup Gate!Cast(s, orgs, Stamp(ts))
     ELSE UNCHANGED <<agree, ballots>>
  /\ verdict' = NoVerdict
  /\ UNCHANGED clock

\* The agree table of s is dropped; the observers of s stay.
Dropped(s) == [agree EXCEPT ![s] = EmptyTable]

PromoteToPublicAlert(s, ts) ==
  LET t == Stamp(ts) IN
  /\ IF QuorumMet(observers[s], agree[s], t)
     THEN /\ verdict' = [stream |-> s,
                         count |-> Cardinality(LiveOrgs(agree[s], t))]
          /\ agree' = Dropped(s)
          /\ ballots' = Gate!OtherStreams(s)
     ELSE /\ verdict' = NoVerdict
          /\ UNCHANGED <<agree, ballots>>
  /\ UNCHANGED <<observers, clock>>

Clear(s) ==
  /\ agree' = Dropped(s)
  /\ ballots' = Gate!OtherStreams(s)
  /\ verdict' = NoVerdict
  /\ UNCHANGED <<observers, clock>>

\* Time passes, or the host's clock is set.
ClockStep ==
  /\ clock' \in Times \ {clock}
  /\ verdict' = NoVerdict
  /\ UNCHANGED <<agree, observers, ballots>>

Next ==
  \/ ClockStep
  \/ \E s \in Streams :
       \/ Clear(s)
       \/ \E ts \in Times \cup {Unset} :
            \/ PromoteToPublicAlert(s, ts)
            \/ \E o \in Orgs : Observe(s, o, ts)
            \/ \E orgs \in SUBSET Orgs, detected \in BOOLEAN :
                 Ingest(s, orgs, detected, ts)

Spec == Init /\ [][Next]_vars

-----------------------------------------------------------------------------

Verdict == [stream : Streams \cup {"none"}, count : Nat]

\* Every variable keeps its type: tables of event times, a clock inside the
\* bound, a verdict on some stream (the state of class AgreementScorer).
TypeOK ==
  /\ agree \in [Streams -> [Orgs -> Times \cup {Absent}]]
  /\ observers \in [Streams -> [Orgs -> Times \cup {Absent}]]
  /\ clock \in Times
  /\ verdict \in Verdict
  /\ ballots \subseteq [stream : Streams, org : Orgs, ts : Times]

\* An org's candidate is its latest ballot since the last decision, whatever
\* the order in which event times arrive and however often they repeat: a
\* late, older candidate neither rejuvenates nor erases a newer one, and an
\* org holds one vote per stream (the dict and the guard ts >= prev).
AgreeIsLatestBallot ==
  /\ \A s \in Streams, o \in Orgs :
       agree[s][o] # Absent =>
         [stream |-> s, org |-> o, ts |-> agree[s][o]] \in ballots
  /\ \A b \in ballots : b.ts <= agree[b.stream][b.org]

\* Whoever fired is also counted as watching, no earlier than it fired: the
\* population M behind q(M) never forgets an org that agrees, across clears,
\* promotions and late candidates (ingest observes before it records).
AgreeingAreObservers ==
  \A s \in Streams, o \in Orgs : agree[s][o] <= observers[s][o]

\* The scorer keeps the promise of QuorumGate: no promotion without Floor
\* distinct orgs holding live ballots on that stream, one decision consumes
\* them, and other streams keep theirs (the docstring's properties 1 to 3).
GateKept == Gate!Spec

ScaledPromotion ==
  verdict' # NoVerdict =>
    /\ observers' = observers
    /\ \E t \in Times :
         /\ FracDen * verdict'.count >=
              FracNum * Cardinality(LiveOrgs(observers[verdict'.stream], t))
         /\ verdict'.count =
              Cardinality(LiveOrgs(agree[verdict'.stream], t))

\* A promotion clears its quorum of the whole live population, not only the
\* floor: a share FracNum/FracDen of the live observers agrees, and that
\* population is kept for the next episode (property 4 of the docstring).
PromotionScales == [][ScaledPromotion]_vars
=============================================================================
