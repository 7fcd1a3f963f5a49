SPECIFICATION SvrSpec
CONSTANTS
  once = once
  forever = forever
  Builds <- ManyBuilds
  Fun <- Functions
  Again <- Reposts
  MaxPending = 2
  MaxUpgrades = 1
INVARIANTS
  SvrTypeOK
  ServingIsComplete
  MissingMeansFailed
  TablesAreWhole
PROPERTIES
  PostsAreFifo
  ExitHonoured
