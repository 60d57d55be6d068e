SPECIFICATION Spec
CONSTANTS
  None = None
  NCells = 2
  NFrames = 3
  NPatterns = 2
  Ids = {"A", "B"}
  Modes <- MCModes
  Types = {"image", "text"}
  Looks = {0, 1}
  Setups <- MCSetups
  MaxShots = 2
  MaxCmds = 1
  MayDie = TRUE
INVARIANTS PatternsOwned Settled
PROPERTY FramesServed
CHECK_DEADLOCK FALSE
