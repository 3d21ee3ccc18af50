---------------------------- MODULE MCGatewayReads ----------------------------
\* GatewayReads for TLC: a public and a private probe of one model and a
\* public one of another, whole and partial runs of two suites.
EXTENDS GatewayReads, FiniteSets

Canary == INSTANCE CanarySuite

Batch(model, fleet, suite, count, metrics) ==
  [batch_id |-> 0, model_tuple |-> model, client_id |-> "c", fleet_id |-> fleet,
   suite_version |-> suite, result_count |-> count, metrics |-> metrics]

Rate(n, d) == [json_success_rate |-> <<n, d>>, avg_output_length |-> 5]

McBatches ==
  {Batch("x", None, "v2.0.0", 50, Rate(9, 50)),
   Batch("x", "f", "v2.0.0", 40, Rate(3, 40)),
   Batch("y", None, "other", 3, [result_count |-> 3])}

Structured(suite) ==
  Cardinality({i \in DOMAIN suite : suite[i].category = "structured_output"})

\* The table of the gateway counts the prompts of the probe's suites.
ASSUME SuitesCounted ==
  \A p \in {<<"v1.0.0", Canary!SuiteV1>>, <<"v1.1.0", Canary!SuiteV1_1>>,
            <<"v2.0.0", Canary!SuiteV2>>} :
    /\ JsonBaseBySuite[p[1]].total = Len(p[2])
    /\ JsonBaseBySuite[p[1]].scorable = Structured(p[2])
=============================================================================
