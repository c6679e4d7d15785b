SPECIFICATION SessionLocksSpec
CONSTANTS
  s1 = s1
  s2 = s2
  r1 = r1
  r2 = r2
  None = None
  RTSP <- OneConnection
  RTP <- TwoSessions
  Env <- OwnSessionOnly
  Refreshed <- FirstSession
  MaxPlays = 2
  MaxHolders = 2
  Parts = {"lifecycle", "resender"}
  Broadcasters = {"p"}
  Viewers = {"v"}
  NumStreams = 2
  Workers = 3
  Reread = FALSE
  NStreams = 2
  SeqNums <- Numbers
  Sizes <- Half
  AgeLimits <- Lifetimes
  Windows <- NarrowWindow
  MSS = 2
  Slack = 2
  MinRTO = 0
  MaxRTO = 1
  Backoff = 1
  SlowStart = TRUE
  ClientSessions = {"p", "v"}
  PushSessions = {"p"}
  Connections = {"k1", "k2"}
  NumTracks = 2
  Destinations = {"d1"}
  Pairs = {"u0", "u1", "u2"}
  Standing = {"u0"}
  MaxSetups = 3
  Nobody = Nobody
  UdpStreams = {"v"}
  NumLevels = 4
  LossesToThin = 2
  LossesToThick = 2
  WorsesToThin = 2
  Width = 4
  Absent = Absent
INVARIANTS
  RefsMatch
  HoldersMatch
  ClientListMatches
  NoDuplicateSeq
  BytesMatch
  WindowBounded
PROPERTIES
  DeadConnectionFreed
  OrphanSessionFreed
  LeaseKept
  FlowControlReleased
