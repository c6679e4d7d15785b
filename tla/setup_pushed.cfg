SPECIFICATION SetupSpec
CONSTANTS
  ClientSessions = {"p", "v"}
  PushSessions = {"p"}
  Connections = {"k1", "k2"}
  NumTracks = 2
  Destinations = {"d1"}
  Pairs = {"u0", "u1", "u2"}
  Standing = {"u0"}
  MaxSetups = 3
  Nobody = Nobody
INVARIANTS
  PushedToItsTrack
CHECK_DEADLOCK FALSE
