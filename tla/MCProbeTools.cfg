CONSTANTS
  None = None
  RunnerSuite <- McSuite
  SuiteVersion = "v2.0.0"
  DelayMs = 2
  MaxRetries = 2
  BackoffBaseMs = 1
  MaxBackoffMs = 4
  Exchanges <- LegExchanges
  KeepSpool = TRUE
  Keys = {"ascii", "non-ascii"}
  MayRefuse = TRUE
  MaxRuns = 3
  MaxLegFaults = 2
  SuiteFiles <- McFiles
  Repeats = {1, 2}
  CompareExchanges <- AskedExchanges
  CompareKeys = {"ascii", "non-ascii"}
  CompareMetrics = {"agreement", "length", "json_valid"}
  MaxItems = 2
  MaxCallRetries = 1
  MaxFailing = 2
  MinItems = 1
  FailureLimit = 25
  RefusalWindow = 3
  TopN = 1
SPECIFICATION ToolsSpec
INVARIANTS ToolsTypeOK WholeRunsOnly AddedTimeBounded ExitIsTruth OlderFirst HonestReport
CHECK_DEADLOCK FALSE
