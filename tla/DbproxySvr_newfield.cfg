SPECIFICATION SvrSpec
CONSTANTS
  once = once
  forever = forever
  Builds <- OldAndNew
  Fun <- Functions
  Again <- Reposts
  MaxPending = 2
  MaxUpgrades = 1
INVARIANT NewFieldHasColumn
