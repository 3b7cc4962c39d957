SPECIFICATION LibrarySpec
CHECK_DEADLOCK FALSE
CONSTANTS
  Loggers = {controller, t1}
  Stopper = controller
  MaxEntries = 2
  Tick = 3
  MaxClock = 5
  MaxUpdates = 2
  TimeArgs <- SomeTimes
  MaxSteps = 2
  Midnight = 2
  MaxMoment = 4
  Characters <- SomeCharacters
  NL_CHAR = "NL"
  BLANK_CHAR = " "
  NullPtr = NullPtr
  Argvs <- SomeArgvs
  MaxNumbers <- SomeNumbers
  ShortMax = 9
  NumRanks = 4
  MaxObjects = 2
  Dest = {d1, d2}
  Chars <- SomeChars
  NL = NL
  MaxLine = 3
  Vectors <- SomeVectors
  MaxSends = 3
INVARIANTS
  LogInOrder
  StopEndsLog
  TotalIsTimeRunning
  TicsLagBehind
  TimeIsSeconds
  EarlierIsLess
  StampIsOfCall
  ArgumentsArrive
  CharactersArrive
  FreedOnce
  WaitsAreMet
  ReceivedAsSent
PROPERTIES
  BuffersKept
