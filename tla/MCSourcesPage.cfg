\* Two imports at once, two in all, one fact added or edited by hand; three mails,
\* two runs over them and two loads at once.
SPECIFICATION MCSpec
CONSTANTS
  Signatures = {"shoe", "allergy", "dynamic"}
  Home = {"shoe", "allergy"}
  Guarded = {"allergy", "dynamic"}
  Importers = {i1, i2}
  Batches = {}
  MaxImports = 2
  MaxEdits = 1
  i1 = i1
  i2 = i2
  Idle = Idle
  Sentences <- MCSentences
  MinSegment = 12
  MinSentence = 18
  MaxPerRecord = 4
  MaxSentences = 5
  MaxPerChunk = 2
  MinPerChunk = 2
  MaxChunkChars = 60
  MaxChunks = 3
  MaxPromptRecords = 2
  MaxBatchRecords = 1
  MaxBatchChars = 100
  PromptOverhead = 10
  MaxEvidence = 2
  Uploads <- MCUploads
  Replied <- MCReplied
  ContentLimits <- MCContentLimits
  SureFrom = 78
  Tabs = {"gmail", "amazon", "chatgpt", "claude", "notion"}
  Owners = {"alex", "sarah"}
  Items <- MCItems
  Terms = {"w"}
  ChunkSize = 1
  MaxRuns = 2
  MaxLoads = 2
INVARIANTS OnlyConfirmedFacts DecisionsStand EveryFactIsQuoted BaselineSurvives PromptsCoverRecords BrowserShowsWhatIsChosen
PROPERTY EveryImportEnds
CHECK_DEADLOCK FALSE
