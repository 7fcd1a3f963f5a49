SPECIFICATION Spec
CONSTANTS
  name = name
  flag = flag
  sub = sub
  Field <- NoBlob
  IndexKeys <- Name
  Bools <- Flag
  Texts <- Name
  Structs <- None
  Keys <- AllKeys
  Values <- Strings
  Canon <- CaseFolding
  Limits <- SomeLimits
  KeyMod = 16
INVARIANTS
  MysqlTypeOK
  FoundBack
  UpdatedIsStored
  DeletedIsGone
PROPERTY Refinement
