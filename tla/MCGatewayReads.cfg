CONSTANTS
  None = None
  Second = 2
  Day = 1
  StaleAfter = 2
  Batches <- McBatches
  Metrics = {"m"}
  WeatherRows = 2
  EvidenceRows = 2
  Urls = {"u"}
  MaxRows = 2
  MaxAlerts = 1
  MaxTime = 3
  MaxSetBacks = 1
SPECIFICATION Spec
INVARIANTS ContractKept WeatherHonest AuditResolves
