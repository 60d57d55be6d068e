SPECIFICATION Spec
CONSTANTS
  None = None
  NCells = 2
  NFrames = 3
  NPatterns = 2
  Ids = {"A", "B"}
  Modes <- MCModes
  Types = {"image", "text"}
  Looks = {0, 1, 2}
  Setups <- MCTextSetups
  MaxShots = 3
  MaxCmds = 0
  MayDie = FALSE
INVARIANT TextSettled
CHECK_DEADLOCK FALSE
