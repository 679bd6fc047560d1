SPECIFICATION Spec
CONSTANTS
  a = a
  b = b
  n = n
  k1 = k1
  k2 = k2
  w1 = w1
  w2 = w2
  s1 = s1
  s2 = s2
  None = None
  Contexts = {a, n}
  Parent <- MCParent
  Workers = {w1}
  Streams = {s1}
  MaxIds = 2
  MaxActions = 2
  MaxFiles = 1
  MaxTransfers = 1
  Key <- MCKey
  Permits = 1
CONSTRAINT MCApart
CHECK_DEADLOCK FALSE
INVARIANTS NothingOutlivesItsAsker UpgradeLosesNothing
PROPERTIES UndeliveredKept CallsEnd
