SPECIFICATION Spec
CONSTANTS
  r1 = r1
  r2 = r2
  Requests = {r1, r2}
  Reports = {"notRequired"}
  Restores = FALSE
  Faults = {"commit"}
  MaxInstances = 2
  MaxPackages = 2
  MaxActivities = 1
  MaxCalls = 1
  MaxCrashes = 0
SYMMETRY MCSymmetry
CHECK_DEADLOCK FALSE
INVARIANT IntentOutlivesInstallation
