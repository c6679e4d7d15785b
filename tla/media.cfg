SPECIFICATION MediaSpec
CONSTANTS
  Senders = {"v", "a"}
  H264 = {"v"}
  Audio = {"a"}
  Rtcp = {}
  Outputs = {"o1"}
  Packets <- ThreePackets
  Preallocated <- NonePrepared
  NumBookmarks = 4
  MaxCount = 3
  OverBuffer = 0
  FirstOffset = 0
  MaxAge = 1
  RelocateAge = 0
  NoPacket = NoPacket
  SSRCs = {0, 1, 2}
  SSRCTimeout = 1
  RetryDelay = 1
  IdleDelay = 2
  Streams = {"audio"}
  UDP = {}
  Video = {}
  NumQualityLevels = 4
  Sizes = {1}
  Windows = {6}
  SendInterval = 1
  MaxSendAhead = 4
  OverbufferRate = 2
  SendAhead = 0
  StartThicking = 1
  StartThinning = 0
  AlwaysThin = 1
  ThinAllTheWay = 2
  DropAll = 3
  ThickAllTheWay <- BelowZero
  NotFalling = 1
  CheckInterval = 0
  MaxDelay = 5
  MaxTime = 4
  MaxBytes = 2
  c1 = c1 
  c2 = c2
  c3 = c3
  r1 = r1
  r2 = r2
  p1 = p1
  track1 = track1
  track2 = track2
  BadTrack = BadTrack
  None = None
  Null = Null
  Clients <- ThreeClients
  Sessions <- TwoSessions
  Paths <- OnePath
  Tracks <- TwoTracks
  KillOnStop = FALSE
  Env <- Clean
INVARIANTS
  NoAbandonedBroadcast
  BroadcasterKnown
  ServerUp
  KeyFrameKept
  PacketsInOnePlace
  OneSourceAtATime
  LeadBounded
PROPERTIES
  PlaceKept
  StoppedBroadcastEnds
  NewPacketsReflected
CHECK_DEADLOCK FALSE
