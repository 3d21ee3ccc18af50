\* Two nodes over one Redis scorer; one call may raise; fair handlers.
SPECIFICATION FairSpec
CONSTANTS
  Orgs = {c1, c2}
  Floor = 2
  FracNum = 1
  FracDen = 3
  TTL = 1
  Unit = 1
  K = 1
  H = 1
  BaselineSamples = 1
  Nodes = {n1, n2}
  SharedScorer = TRUE
  Fleets = {}
  Models = {"m"}
  Suites = {"v1"}
  Metrics = {"json"}
  ReplayedMetrics = {"json"}
  BootstrapLimit = 4
  PublicValues = {0, 4}
  FleetValues = {4}
  Form = "valid"
  Payloads <- MCDrift
  CallsMayFail = TRUE
  MayStop = FALSE
  MaxBatches = 3
  MaxFaults = 1
  MaxTime = 1
INVARIANTS VotesNotReused
PROPERTIES PromotionIsFiled
