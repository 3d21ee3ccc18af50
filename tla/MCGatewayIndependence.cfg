\* All clients share one detector.
SPECIFICATION Spec
CONSTANTS
  Orgs = {c1, c2}
  Floor = 2
  FracNum = 1
  FracDen = 3
  TTL = 1
  Unit = 1
  K = 1
  H = 1
  BaselineSamples = 1
  Nodes = {n1}
  SharedScorer = FALSE
  Fleets = {}
  Models = {"m"}
  Suites = {"v1"}
  Metrics = {"json"}
  ReplayedMetrics = {"json"}
  BootstrapLimit = 4
  PublicValues = {0, 4}
  FleetValues = {4}
  Form = "valid"
  Payloads <- MCPayloads
  CallsMayFail = FALSE
  MayStop = FALSE
  MaxBatches = 4
  MaxFaults = 0
  MaxTime = 2
INVARIANTS QuorumIsIndependent
