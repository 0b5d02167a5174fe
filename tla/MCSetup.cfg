SPECIFICATION Spec
CONSTANTS
  MaxEntries = 6
  MaxTotal = 7
  MaxDepth = 2
  MaxSingle = 3
  MaxFileBytes = 1
  MaxArchiveEntries = 2
  MaxNestedDepth = 2
  MaxTextChars = 40
  MaxJsonDepth = 2
  MaxJsonArray = 3
  MaxSegments = 8
  MinString = 3
  MaxMails = 2
  MinSnippet = 2
  MaxSnippet = 4
  MinRun = 4
  MaxRuns = 2
  MaxRecordChars = 2
  Malformed = Malformed
  Nothing = Nothing
  MaxMetadata = 6
  Options = {"a"}
  NoneOption = "None"
  Passphrases = {k1}
  OldKeys = {k1, k2}
  NoKey = NoKey
  NoVault = NoVault
  NoForm = NoForm
  NoFile = NoFile
  QuickFive <- QuickFive3
  AllQuestions <- All3
  Picked <- PickedFiles
  Creations = {1, 2}
  MaxBegun = 2
  MaxFailures = 1
INVARIANTS
  AcceptedWithinLimits
  ExportsAreReadBack
  UploadIsAccountedFor
  EveryQuestionIsSeen
PROPERTIES
  EveryImportAnswers
  SetupEndsWithItsVault
  SetupKeepsAVault
CHECK_DEADLOCK FALSE
