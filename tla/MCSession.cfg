SPECIFICATION Spec
CONSTANTS
  None = None
  p1 = p1
  Trig <- MCTrig
  Periph = {p1}
  Scale = {1, 2, 4, 8}
  OpenMayFail = FALSE
  Calls <- MCMethods
  Wrong = FALSE
  MayDie = TRUE
  MaxCalls = 5
  MaxEvents = 1
INVARIANTS TypeOK SyncFresh SyncBarrier CommandFresh AnswerCounts EngineSurvives
PROPERTIES AnswersMatch
CHECK_DEADLOCK FALSE
