SPECIFICATION Spec
CONSTANTS
  t1 = t1
  Table <- OneTable
  SidMod = 4
  MaxRows = 2
  Sizes <- FitsOnly
  InitRegistered <- AllTracked
  MayRegister <- Nobody
  ClockMayStepBack = FALSE
  MaxReq = 1
  MaxPlain = 0
  MaxAll = 1
  MaxTime = 0
  MaxBreaks = 0
  MaxFails = 0
CHECK_DEADLOCK FALSE
INVARIANT EveryRowDelivered
