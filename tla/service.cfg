SPECIFICATION ServiceSpec
CONSTANTS
  Script <- FiveMessages
  BufferSize = 10
  Group = 2
  Plain = 1
  MaxPosts = 2
  NumModules <- OneModuleEach
  MaxRoom = 2
  Halves = {s1, s2, s3}
  Nobody = Nobody
  Threads = {t1, t2}
  NoThread = NoThread
  Contents = {"x", "long"}
  Size <- TwoSizes
  FirstPointers = 2
  Supplied = 2
  MaxValues = 3
  Blocks = {"b1", "b2", "b3", "b4", "b5"}
  External = "buffer"
  Nothing = "nothing"
  Logs = {l1, l2}
  NoLog = NoLog
  Interval = 1
  MaxLines = 1
  Numbers = 1
  MaxTime = 1
  MaxEntries = 2
  MaxFiles = 3
  Places = {"p", "q"}
  Sockets = {k1, k2, k3}
  Override <- PortOption
  Settings <- ThreeSettings
  MaxForks = 2
  MaxSignals = 3
  PrefNames = {"a", "b"}
  Port = "port"
  PrefValues = {"1", "2"}
  Defaults <- OneDefault
  PrefFiles <- TwoPrefFiles
  PortFiles <- TwoPortFiles
  MaxPrefValues = 2
  MaxCalls = 4
  Messages = {"m", "n"}
  NoMessage = ""
  Levels = {0, 1}
  MaxMessages = 4
  MaxMarks = 2
INVARIANTS
  ServiceTypeOK
  StreamWhole
  RequestsInOrder
  TunnelFindable
  DonorKept
  ValuesKept
  MemoryKept
  LogWhole
  AsConfigured
  FileFollowsValues
  RepeatsCounted
PROPERTIES
  RequestEnds
  InterruptStops
  RereadFollowsFile
CHECK_DEADLOCK FALSE
