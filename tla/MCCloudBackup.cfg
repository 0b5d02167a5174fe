\* Three parts (the last one short), two workers, two attempts for a part, two
\* backups, one restore.
SPECIFICATION Spec
CONSTANTS
  Concurrency = 2
  Size = 5
  PartSize = 2
  MaxAttempts = 2
  MaxUploads = 2
  MaxRestores = 1
  NoSnapshot = NoSnapshot
INVARIANTS SnapshotsAreWhole ReportedIsStored NoPartsAreLeftBehind
PROPERTY EveryBackupEnds
CHECK_DEADLOCK FALSE
