SPECIFICATION Spec
CONSTANTS
  name = name
  flag = flag
  sub = sub
  Field <- AllFields
  IndexKeys <- Name
  Bools <- Flag
  Texts <- Name
  Structs <- Sub
  Keys <- SignedKeys
  Values <- Bits
  Canon <- Exact
  Limits <- SomeLimits
  KeyMod = 16
PROPERTY FilledIsCondition
