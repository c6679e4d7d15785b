SPECIFICATION Spec
CONSTANTS
  c1 = c1 
  c2 = c2
  c3 = c3
  r1 = r1
  r2 = r2
  p1 = p1
  track1 = track1
  track2 = track2
  BadTrack = BadTrack
  None = None
  Null = Null
  Clients <- ThreeClients
  Sessions <- TwoSessions
  Paths <- OnePath
  Tracks <- OneTrack
  KillOnStop = TRUE
  Env <- Everyone
INVARIANTS
  RefsExact
PROPERTIES
  DirectoryKept
CHECK_DEADLOCK FALSE
SYMMETRY Interchangeable
