SPECIFICATION FairSpec
CONSTANTS
  None = None
  p1 = p1
  Trig <- MCTrig
  Periph = {p1}
  Scale = {1, 2, 4, 8}
  OpenMayFail = TRUE
  Calls <- MCProcedural
  Wrong = TRUE
  MayDie = TRUE
  MaxCalls = 3
  MaxEvents = 1
PROPERTIES ScriptNotStuck
CHECK_DEADLOCK FALSE
