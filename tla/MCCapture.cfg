SPECIFICATION Spec
CONSTANTS
  None = None
  NBufs = 2
  Width = 2
  Scenes <- MCScenes
  NFiles = 2
  Kinds <- MCKinds
  Commands <- MCCommands
  UpdCap = 1
  MaxReq = 0
  MaxAnswers = 1
  MaxClocks = 1
  MayEio = TRUE
  MayDie = FALSE
INVARIANTS BuffersOwned FrameShown ChangesAnnounced AnswersMatch
CHECK_DEADLOCK FALSE
