SPECIFICATION DevicesSpec
CONSTANTS
  DevNull = DevNull
  None = None
  uart = uart
  disk = disk
  unnamed = unnamed
  MaxFds = 5
  Dev <- SomeDev
  DevName <- TheirNames
  Callbacks <- TheirCallbacks
  IsDevice <- SomeDevices
  Names <- SomeNames
  OpenFlags <- SomeFlags
  FcntlFlags <- SomeFcntlFlags
  Requests = {"TIOCEXCL", "TIOCNXCL", "TIOCOUTQ"}
  Streams <- StandardStreams
  Callers = {3, 4}
  Alarm = {"a", "b", "c"}
  alt_alarm_list = "head"
  Null = "null"
  Ticks = 5
  Delays = {0, 3}
  Periods = {0, 1, 4}
  StopsOthers = FALSE
  HwDepth = 2
  Counts = {0, 1, 3}
  Spaces = {0, 1, 3}
  MaxSpace = 3
  TxNumbers = 4
  RxNumbers = 6
  Word = 32
  ALT_US = 12
  TickRate = 4
  Times <- SomeTimes
  MaxTicks = 36
  LoopsPerUs = 4
  Sleeps <- AllDelays
  MaxCalls = 1
  Half = 5
  Load = 7
  Interrupted = TRUE
  MaxPeriods = 8
  Levels <- SomeLevels
  Interval = 2
  AlarmTicks = 2
  EchoLength = 2
  Depth = 2
  Texts <- SomeTexts
  MaxOut = 5
INVARIANT SoleUser
\* Delays, directives and the watched ticks come to an end.
CHECK_DEADLOCK FALSE
