SPECIFICATION SysSpec
CONSTANTS
  t1 = t1
  level = level
  Table <- OneTable
  SidMod = 2
  MaxRows = 3
  Sizes <- FitsOnly
  InitRegistered <- AllTracked
  MayRegister <- Nobody
  ClockMayStepBack = FALSE
  MaxReq = 2
  MaxPlain = 2
  MaxAll = 3
  MaxTime = 0
  MaxBreaks = 1
  MaxFails = 0
  Field <- OneField
  IndexKeys <- None
  Bools <- None
  Texts <- None
  Structs <- None
  Keys <- ThreeKeys
  Values <- Bits
  Canon <- Exact
  Limits <- NoLimit
  KeyMod = 16
  Objects <- TwoObjects
CHECK_DEADLOCK FALSE
INVARIANTS
  SysTypeOK
  RunsInOrder
  StandsUntilChanged
PROPERTIES
  Refinement
  ServiceRefinement
