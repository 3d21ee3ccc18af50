\* One node that crashes; batches of two metrics; the clock passes the TTL.
SPECIFICATION Spec
CONSTANTS
  Orgs = {c1, c2, c3}
  Floor = 2
  FracNum = 5
  FracDen = 6
  TTL = 1
  Unit = 1
  K = 1
  H = 1
  BaselineSamples = 1
  Nodes = {n1}
  SharedScorer = FALSE
  Fleets = {}
  Models = {"m"}
  Suites = {"v1"}
  Metrics = {"json", "length"}
  ReplayedMetrics = {"json", "length"}
  BootstrapLimit = 4
  PublicValues = {0, 4}
  FleetValues = {4}
  Form = "valid"
  Payloads <- MCWide
  CallsMayFail = FALSE
  MayStop = TRUE
  MaxBatches = 3
  MaxFaults = 1
  MaxTime = 3
SYMMETRY Symmetry
INVARIANTS PublicDetectorMatchesRows StoredOnce NoMissedQuorum PublicAlertsBacked
