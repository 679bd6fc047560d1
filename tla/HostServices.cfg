SPECIFICATION Spec
CONSTANTS
  c1 = c1
  c2 = c2
  d = d
  None = None
  Calls = {c1, c2}
  Device <- MCDevice
  MaxRequests = 4
  MaxBusy = 2
  MaxOpen = 2
  MaxPicked = 1
  Chunks = 1
  Budgets <- MCBudgets
CHECK_DEADLOCK FALSE
INVARIANTS StreamsAreWhole NothingUntold
PROPERTIES EndedCallsRelease
