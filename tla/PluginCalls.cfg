SPECIFICATION Spec
CONSTANTS
  px = px
  py = py
  i = i
  j = j
  None = None
  Calls = {1, 2, 3}
  Procs = {px, py}
  Ids = {i, j}
  Requests = {11, 12}
  MaxPending = 2
  MaxQueue = 1
  Workers = 1
  MaxSaid = 2
  Budgets <- MCBudgets
CHECK_DEADLOCK FALSE
INVARIANTS RepliesMatch
PROPERTIES CallersReturn EndedIsQuiet
