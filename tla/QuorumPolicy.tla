---------------------------- MODULE QuorumPolicy ----------------------------
(***************************************************************************)
(* The arithmetic of the cross-observer quorum: timestamp tables, the      *)
(* live window, and the population-scaled threshold q(M) of                *)
(* engine/correlation.py.  Pure operators, shared by the scorers and the   *)
(* gateway.                                                                *)
(*                                                                         *)
(* A bucket of the code is a dict {org_id: latest_ts_ns}.  Here it is a    *)
(* total function on Orgs in which Absent stands for a missing key; the    *)
(* code makes the same identification (bucket.get(org_id, 0)), and a       *)
(* timestamp of 0 is never stored because 0 means "use the wall clock".    *)
(***************************************************************************)
EXTENDS Integers, FiniteSets

CONSTANTS
  Orgs,       \* the org ids that may ever be seen
  Floor,      \* QUORUM_FLOOR, or the quorum= override
  FracNum,    \* QUORUM_FRAC_NUM
  FracDen,    \* QUORUM_FRAC_DEN
  TTL         \* DEFAULT_TTL_NS, in units of the model's clock

ASSUME QuorumAssumption ==
  /\ IsFiniteSet(Orgs)
  /\ Floor \in Nat
  /\ FracNum \in Nat
  /\ FracDen \in Nat \ {0}
  /\ TTL \in Nat

Absent == 0

Table == [Orgs -> Nat]

EmptyTable == [o \in Orgs |-> Absent]

RecordLast(table, o, ts) == [table EXCEPT ![o] = ts]

\* A candidate is only ever moved forward in time.
Record(table, o, ts) ==
  IF ts >= table[o] THEN [table EXCEPT ![o] = ts] ELSE table

\* The same for every org that contributes to one change-point result.
RecordAll(table, orgs, ts) ==
  [o \in Orgs |-> IF o \in orgs THEN Record(table, o, ts)[o] ELSE table[o]]

LiveOrgsForever(table, t) == {o \in Orgs : table[o] # Absent /\ table[o] <= t}

\* Live: within the last TTL and not in the future of the evaluation instant.
LiveOrgs(table, t) ==
  {o \in Orgs : table[o] # Absent /\ t - TTL <= table[o] /\ table[o] <= t}

RequiredQuorumFlat(m) == Floor

RequiredQuorum(m) ==
  LET scaled == (FracNum * m + FracDen - 1) \div FracDen
  IN  IF scaled > Floor THEN scaled ELSE Floor

\* M: a caller that never observes still counts those that agree.
Population(obs, agr, t) ==
  LET watching == Cardinality(LiveOrgs(obs, t))
      agreeing == Cardinality(LiveOrgs(agr, t))
  IN  IF watching > agreeing THEN watching ELSE agreeing

QuorumMetStrictly(obs, agr, t) ==
  Cardinality(LiveOrgs(agr, t)) > RequiredQuorum(Population(obs, agr, t))

QuorumMet(obs, agr, t) ==
  /\ LiveOrgs(agr, t) # {}
  /\ Cardinality(LiveOrgs(agr, t)) >= RequiredQuorum(Population(obs, agr, t))
=============================================================================
