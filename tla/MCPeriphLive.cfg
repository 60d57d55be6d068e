SPECIFICATION FairSpec
CONSTANTS
  i1 = i1
  i2 = i2
  None = None
  Item = {i1}
  Fd <- MCOneFd
  Pid <- MCTwoPids
  MaxBytes = 1
  MayFork = TRUE
  ExecMayFail = TRUE
  MayTerm = TRUE
INVARIANTS NobodyForgotten
PROPERTIES EofDisconnects DeathDisconnects
CHECK_DEADLOCK FALSE
