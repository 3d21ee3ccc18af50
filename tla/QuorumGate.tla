----------------------------- MODULE QuorumGate -----------------------------
(***************************************************************************)
(* What an agreement scorer promises, whatever tables it keeps: ballots    *)
(* are cast, and a stream is promoted only by at least Floor distinct orgs *)
(* each holding a ballot on that very stream, cast since its last decision *)
(* and inside the TTL window.  A promotion consumes the stream's ballots   *)
(* and no other stream's.                                                  *)
(***************************************************************************)
EXTENDS Integers, FiniteSets

CONSTANTS
  Orgs, Streams, Floor, TTL,
  Instants    \* the event times and evaluation instants

VARIABLES
  ballots,    \* the ballots since the last decision on their stream
  verdict     \* the answer of the last call

vars == <<ballots, verdict>>

NoVerdict == [stream |-> "none", count |-> 0]

Init ==
  /\ ballots = {}
  /\ verdict = NoVerdict

\* The ballots of stream s stamped ts by each of the given orgs.
Cast(s, orgs, ts) ==
  {[stream |-> s, org |-> o, ts |-> ts] : o \in orgs}

Vote(s, orgs, ts) ==
  /\ ballots' = ballots \cup Cast(s, orgs, ts)
  /\ verdict' = NoVerdict

OtherStreams(s) == {b \in ballots : b.stream # s}

HasBallot(s, o, t) ==
  \E b \in ballots : /\ b.stream = s
                     /\ b.org = o
                     /\ t - TTL <= b.ts
                     /\ b.ts <= t

Promote(s, t) ==
  \E voters \in SUBSET Orgs :
    /\ Cardinality(voters) >= Floor
    /\ voters # {}
    /\ \A o \in voters : HasBallot(s, o, t)
    /\ verdict' = [stream |-> s, count |-> Cardinality(voters)]
    /\ ballots' = OtherStreams(s)

\* A stream's ballots may be discarded without a promotion (clear).
Discard(s) ==
  /\ ballots' = OtherStreams(s)
  /\ verdict' = NoVerdict

\* A call that neither votes nor promotes.
NoDecision ==
  /\ verdict' = NoVerdict
  /\ UNCHANGED ballots

Next ==
  \/ NoDecision
  \/ \E s \in Streams :
       \/ Discard(s)
       \/ \E t \in Instants : Promote(s, t)
       \/ \E orgs \in SUBSET Orgs, ts \in Instants : Vote(s, orgs, ts)

Spec == Init /\ [][Next]_vars
=============================================================================
