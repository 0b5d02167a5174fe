CONSTANTS
  Requests = {r1, r2}
  Passphrases = {k1, k2}
  Servers = {"desktop", "development"}
  MaxEdits = 3
  MaxFailures = 2
  NoKey = NoKey
  NoVault = NoVault
SPECIFICATION Spec
CHECK_DEADLOCK FALSE
INVARIANTS StoredForItsSender
PROPERTY EncryptionIsKept
