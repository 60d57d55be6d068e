SPECIFICATION FairSpec
CONSTANTS
  None = None
  a1 = a1
  n1 = n1
  n2 = n2
  Pid <- MCPid
  Handler <- MCHandler
  ChildNB = 2
  Name = {n1, n2}
  SubN = 2
  Agent = {a1}
  Forker <- MCForker
INVARIANTS EntryLive NobodyAdrift OwnDescriptors NoLostEntry
PROPERTIES EofDisconnects
CHECK_DEADLOCK FALSE
