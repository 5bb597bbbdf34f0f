SPECIFICATION ChatSpec
CONSTANTS
  Missing = Missing
  Edited = Edited
  skipper = skipper
  guest = guest
  Sessions = {skipper, guest}
  Places = 2
  Kept = 2
  MaxRequests = 3
  Updates <- BotUpdates
  MaxTroubles = 1
  Owner <- FormKeys
  Secret = {"key"}
  Values = {"a"}
  Empty = ""
  Null = "null"
  Pages = {"p", "q"}
  MaxSaves = 2
  MaxFaults = 1
  Files <- DeployedFiles
  BotFile = "telegram_bot.py"
  Content <- Contents
  Signed = {"a", "b"}
  Bad = {"app2"}
  Absent = Absent
  MaxMoves = 1
  MaxEdits = 1
  MaxFailures = 1
  MaxRuns = 2
  Day = 4
  Month = 2
  FirstDay = 4
  Fresh = 2
  Static = 4
  Margin = 1
  MaxWork = 1
  Horizon = 32
  Asked <- AskedTopics
  Indexed <- IndexedTopics
  Cases <- PowerCases
  NoReading = Missing
  EngineRpm = 200
  MaxGap = 2
  Windows = {3}
  Keep = 3
  TimeLimit = 1
  Scale = 6
  LastSample = 4
  Questions <- AskedQuestions
  Settings <- ChatModels
  Summary <- Sizes
  Samples <- SampleSizes
  Reserve = 1
  Marker = 1
  Wide = 20
  Complex = 12
  MaxChanges = 1
  Documents <- SmallDocuments
  Edits <- EditedDocuments
  Target = 5
  Section = 2
  Overlap = 3
  NoIndex = NoIndex
  Rewrites = 1
  MaxRebuilds = 2
  Rows <- MinuteRows
  Unmeasured = Missing
  Threshold = 200
  Bands <- RpmBands
  CruiseRpm = 600
  Apart = 150
  SlowBand = 15
  FastBand = 25
  BandStep = 5
  MaxMinutes = 2
INVARIANTS
  UpdatesHandledOnce
  ConversationTrue
  AnswerTrue
  SummariesTrue
  AnswersHonest
  EveryLineFound
  SettingsStand
PROPERTIES
  AllHandled
  PowerTrue
  
CHECK_DEADLOCK FALSE
