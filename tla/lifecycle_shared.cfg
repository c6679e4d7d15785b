SPECIFICATION Spec
CONSTANTS
  s1 = s1
  s2 = s2
  r1 = r1
  r2 = r2
  None = None
  RTSP <- TwoConnections
  RTP <- OneSession
  Env <- Sharing
  Refreshed <- FirstSession
  MaxPlays = 2
  MaxHolders = 2
INVARIANT NoRequestWhenClosing
