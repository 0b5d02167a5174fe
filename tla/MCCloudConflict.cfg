SPECIFICATION Spec
CONSTANTS
  Devices = {d1, d2}
  MaxEdits = 1
  MaxToggles = 2
  MaxPulls = 1
  MaxFailures = 1
  NoRow = NoRow
PROPERTY PullBeforePushAgain
CHECK_DEADLOCK FALSE
