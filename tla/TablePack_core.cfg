SPECIFICATION Spec
CHECK_DEADLOCK FALSE
CONSTANTS
  Tables <- SomeTables
  Numbers <- SomeNumbers
  Strings <- SomeStrings
  MaxItems = 2
  NumWidth = 2
  LenWidth = 2
  ColumnRoom = 9
  MaxRoom = 32
INVARIANTS
  PackTypeOK
  RoundTrip
  NoForeignBytes
  ColumnKept
