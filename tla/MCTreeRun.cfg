SPECIFICATION FairSpec
CONSTANTS
  Tr <- MCTree
  Marked <- MCMarked
  Results <- MCResults
  MaxReq = 1
  Ack <- MCAck
INVARIANTS OneInFlight ReportNested VerdictsAgree StepsOnce
PROPERTIES RunsSpec DeathSettles RunSettles
CHECK_DEADLOCK FALSE
