SPECIFICATION FairSpec
CONSTANTS
  MaxEdits = 2
  MaxExternal = 1
  MaxFailures = 2
  MaxLocks = 2
  NoVault = NoVault
PROPERTIES
  ImplementsLocalFirst
  Converges
CHECK_DEADLOCK FALSE
