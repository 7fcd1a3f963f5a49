SPECIFICATION FairSpec
CONSTANTS
  t1 = t1
  Table <- OneTable
  SidMod = 1
  MaxRows = 1
  Sizes <- FitsUnbuilt
  InitRegistered <- InsertQuery
  MayRegister <- OnlyDel
  ClockMayStepBack = TRUE
  MaxReq = 2
  MaxPlain = 2
  MaxAll = 2
  MaxTime = 2
  MaxBreaks = 1
  MaxFails = 1
CHECK_DEADLOCK FALSE
INVARIANT SqlInOrder
PROPERTIES
  Answered
  Reconnects
