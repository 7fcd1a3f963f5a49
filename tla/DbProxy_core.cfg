SPECIFICATION Spec
CONSTANTS
  t1 = t1
  Table <- OneTable
  SidMod = 2
  MaxRows = 1
  Sizes <- OverOnly
  InitRegistered <- InsertQuery
  MayRegister <- Nobody
  ClockMayStepBack = TRUE
  MaxReq = 3
  MaxPlain = 0
  MaxAll = 3
  MaxTime = 2
  MaxBreaks = 1
  MaxFails = 0
CHECK_DEADLOCK FALSE
INVARIANTS
  TypeOK
  SessionInv
  CalledOnce
  WrapDistance
  CallsInOrder
  NoLostSession
  OrphansAreExtras
PROPERTY SessionsErasedByOwner
