CONSTANTS
  Orgs = {o1, o2, o3}
  Streams = {"s1"}
  Floor = 2
  FracNum = 5
  FracDen = 6
  TTL = 1
  MaxTime = 3
SPECIFICATION Spec
INVARIANTS
  AgreeIsLatestBallot
  AgreeingAreObservers
PROPERTIES
  GateKept
  PromotionScales
