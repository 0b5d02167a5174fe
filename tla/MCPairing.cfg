CONSTANTS
  Claims = {a1, a2}
  Handlers = {h1, h2}
  MaxCodes = 2
  MaxDevices = 2
  MaxAsks = 3
  MaxFailures = 1
SPECIFICATION Spec
CHECK_DEADLOCK FALSE
INVARIANTS LaterClaimsFail PairedUnderItsCode OrphansOnlyFromFailures
SYMMETRY Symmetry
