SPECIFICATION FairSpec
CONSTANTS
  Devices = {d1, d2}
  MaxEdits = 1
  MaxToggles = 2
  MaxPulls = 1
  MaxFailures = 1
  NoRow = NoRow
INVARIANTS
  OneWinnerPerVersion
PROPERTIES
  NoBlindOverwrite
  EveryVaultGetsThrough
CHECK_DEADLOCK FALSE
