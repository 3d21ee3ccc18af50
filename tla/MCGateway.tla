------------------------------ MODULE MCGateway ------------------------------
(***************************************************************************)
(* Small instances of Gateway: the payload sets of the runs.               *)
(***************************************************************************)
EXTENDS Gateway

CONSTANTS PublicValues, FleetValues, Form

MCModel == "m"

\* One metric per batch.
Report(c, f, su, me, v) ==
  [client |-> c, fleet |-> f, model |-> MCModel, suite |-> su,
   metrics |-> <<[name |-> me, value |-> v]>>, form |-> "valid"]

MCPayloads ==
  {Report(c, NoFleet, su, me, v) :
     c \in Orgs, su \in Suites, me \in Metrics, v \in PublicValues}
  \cup {Report(c, f, su, me, v) :
     c \in Orgs, f \in Fleets, su \in Suites, me \in Metrics, v \in FleetValues}

\* The same and one batch that the gateway refuses.
MCMixed ==
  MCPayloads \cup {[p EXCEPT !.form = Form] : p \in {CHOOSE p \in MCPayloads : TRUE}}

\* Batches that carry every metric, in the order of the dict.
MCWide ==
  {[client |-> c, fleet |-> NoFleet, model |-> MCModel,
    suite |-> su,
    metrics |-> <<[name |-> "json", value |-> v], [name |-> "length", value |-> w]>>,
    form |-> "valid"] :
     c \in Orgs, su \in Suites, v \in PublicValues, w \in PublicValues}

\* One client sends the baseline, the others the drift.
MCDrift ==
  {p \in MCPayloads : p.metrics[1].value = 0 <=> p.client = CHOOSE c \in Orgs : TRUE}

Symmetry == Permutations(Orgs) \cup Permutations(Nodes)
=============================================================================
