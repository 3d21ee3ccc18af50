\* One node, in-process scorer, public clients, a private fleet, a refused batch.
SPECIFICATION Spec
CONSTANTS
  Orgs = {c1, c2}
  Floor = 2
  FracNum = 1
  FracDen = 3
  TTL = 1
  Unit = 1
  K = 1
  H = 1
  BaselineSamples = 1
  Nodes = {n1}
  SharedScorer = FALSE
  Fleets = {"fleet"}
  Models = {"m"}
  Suites = {"v1"}
  Metrics = {"json"}
  ReplayedMetrics = {"json"}
  BootstrapLimit = 4
  PublicValues = {0, 1, 4}
  FleetValues = {0, 4}
  Form = "unsigned"
  Payloads <- MCMixed
  CallsMayFail = FALSE
  MayStop = FALSE
  MaxBatches = 4
  MaxFaults = 0
  MaxTime = 2
SYMMETRY Symmetry
INVARIANTS TypeOK PrivateIsolation PublicAlertHasCause
