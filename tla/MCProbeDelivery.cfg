\* One model refused, mixed suites, faults, a crash, a spool of one file; flush()
\* is called for ever.
SPECIFICATION FairSpec
CONSTANTS
  Models = {"a", "b"}
  Suites = {"v1", "v2"}
  Canaries <- McCanaries
  Refused = {"b"}
  Modes = {"plain", "spool", "dry"}
  MaxFiles = 1
  MaxAge = 1
  Gates = {"open", "throttled", "exceeded"}
  MaxResults = 3
  MaxFaults = 2
  MaxStops = 1
  MaxTime = 2
INVARIANTS TypeOK CountedOnce NoSilentLoss SpoolBounded
PROPERTIES BacklogDrains
