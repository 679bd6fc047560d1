SPECIFICATION Spec
CONSTANTS
  r1 = r1
  r2 = r2
  Requests = {r1, r2}
  Reports = {"notRequired"}
  Restores = FALSE
  Faults = {"hello", "commit", "die", "disk", "read", "deadline"}
  MaxInstances = 2
  MaxPackages = 2
  MaxActivities = 1
  MaxCalls = 1
  MaxCrashes = 1
SYMMETRY MCSymmetry
CONSTRAINT MCApart
CHECK_DEADLOCK FALSE
INVARIANTS HeldIsQuiet IntentIsCommitted OnlyOvertakenLeftBehind FileMatchesMemory
PROPERTIES LatestReportWins OriginalsKept
