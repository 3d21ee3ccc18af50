\* A probe, paced or not, with a reliable or an unreliable file and two crashes; a
\* fleet of two models, paced as recommended or too fast, with rounds of one or two
\* hours in which a call and a POST may fail, and a token counter may be null.
SPECIFICATION McSpec
CONSTANTS
  DailyBudget = 2
  Epsilon = 1
  Day = 4
  MinIntervals = {0, 2}
  MaxTime = 8
  MaxStops = 2
  Fleet <- McFleet
  Mocked = {"mock"}
  Usages = {"count", "null"}
  Paces = {1, 2}
  MinSleep = 1
  MaxSleep = 2
  MaxStaged = 3
INVARIANTS FleetTypeOK ChargedBeforeSent TwoWindowsBudget PacedNeverSleeps RealErrorLogged
PROPERTIES FleetGoesOn
