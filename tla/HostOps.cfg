SPECIFICATION Spec
CONSTANTS
  p1 = p1
  p2 = p2
  c1 = c1
  r1 = r1
  w1 = w1
  w2 = w2
  m = m
  a = a
  b = b
  c = c
  dirA = dirA
  dirB = dirB
  None = None
  Plugins = {p1, p2}
  Packages = {a, b, c}
  PlaceOf <- MCPlaces
  Callers = {c1}
  Restorers = {r1}
  Manager = m
  Workers = {w1, w2}
  MaxProcs = 3
  Budgets <- MCBudgets
CHECK_DEADLOCK FALSE
SYMMETRY MCSymmetry
INVARIANTS NobodyStranded StaysDown RunningIsHandshaken BackendMatchesFiles
