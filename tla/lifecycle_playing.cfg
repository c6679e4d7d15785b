SPECIFICATION Spec
CONSTANTS
  s1 = s1
  s2 = s2
  r1 = r1
  r2 = r2
  None = None
  RTSP <- OneConnection
  RTP <- OneSession
  Env <- OwnSessionOnly
  Refreshed <- FirstSession
  MaxPlays = 2
  MaxHolders = 2
INVARIANT PlayingMatches
