SPECIFICATION FairSpec
CONSTANTS
  None = None
  NBufs = 3
  Width = 1
  Scenes <- MCOneScene
  NFiles = 1
  Kinds <- MCLiveKinds
  Commands <- MCLive
  UpdCap = 1
  MaxReq = 0
  MaxAnswers = 1
  MaxClocks = 1
  MayEio = FALSE
  MayDie = TRUE
PROPERTIES CallsReturn RefreshServed
CHECK_DEADLOCK FALSE
