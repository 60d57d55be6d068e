SPECIFICATION Spec
CONSTANTS
  i1 = i1
  i2 = i2
  None = None
  Item = {i1, i2}
  Fd <- MCFd
  Pid <- MCTwoPids
  MaxBytes = 1
  MayFork = TRUE
  ExecMayFail = FALSE
  MayTerm = FALSE
SYMMETRY MCSymmetry
INVARIANTS TypeOK FdTabExact NoPanic DeathsNoticed SigtermOnlyOnClose NoMixedLine
PROPERTIES DefaultDropped NoLineLost
CHECK_DEADLOCK FALSE
