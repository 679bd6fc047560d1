SPECIFICATION PackagesSpec
CONSTANTS
  v1 = v1
  v2 = v2
  a1 = a1
  b1 = b1
  a2 = a2
  None = None
  Versions <- MCVersions
  Packages <- MCPackages
  VersionOf <- MCVersionOf
  MaxTx = 3
  FaultSteps = {"journal", "toBackup", "activate", "validate", "prefs", "refresh", "start", "commit", "busy", "cleanup", "recover", "rollback", "restore"}
  InstallOverPending = FALSE
  src1 = src1
  src2 = src2
  pl = pl
  c1 = c1
  c2 = c2
  i1 = i1
  i2 = i2
  Nothing = Nothing
  Sources = {src1, src2}
  Official = src1
  Restricted = {pl}
  Catalogs = {c1, c2}
  Installs = {i1, i2}
  Budgets <- MCBudgets
  MaxVersion = 2
CHECK_DEADLOCK FALSE
INVARIANTS OriginalRetained IdleIsCoherent RecoveryCanFinish NothingForeignShown DenialsLast
PROPERTIES InstallIsIsolated InstallsAsAsked
