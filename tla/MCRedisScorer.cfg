SPECIFICATION Spec
CONSTANTS
  Orgs = {o1, o2}
  Streams = {s1}
  Nodes = {n1, n2}
  Floor = 2
  FracNum = 2
  FracDen = 3
  TTL = 1
  TtlNs = 3
  NsPerMs = 2
  NsPerS = 3
  Instants = {2, 3, 7}
  MaxCalls = 3
SYMMETRY Symmetry
INVARIANTS
  ArmedOutlives
  KeysReclaimed
PROPERTIES
  GateKept
  PromotionScales
