SPECIFICATION CliSpec
CONSTANTS
  Commands = {1, 2}
  Cores = 2
  CliBudgets <- MCCliBudgets
CHECK_DEADLOCK FALSE
INVARIANTS NothingLeftBehind
PROPERTIES RunsAsAsked CommandsEnd
