SPECIFICATION Spec
CONSTANTS
  i1 = i1
  i2 = i2
  None = None
  Item = {i1, i2}
  Fd <- MCFd
  Pid <- MCTwoPids
  MaxBytes = 0
  MayFork = FALSE
  ExecMayFail = TRUE
  MayTerm = FALSE
INVARIANT ConnectedSpared
CHECK_DEADLOCK FALSE
