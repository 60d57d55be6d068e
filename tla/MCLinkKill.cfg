SPECIFICATION Spec
CONSTANTS
  None = None
  a1 = a1
  n1 = n1
  n2 = n2
  Pid <- MCPid
  Handler <- MCHandler
  ChildNB = 2
  Name = {n1, n2}
  SubN = 2
  Agent = {a1}
  Forker <- MCForker
INVARIANT KillOwn
CHECK_DEADLOCK FALSE
