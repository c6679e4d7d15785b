SPECIFICATION LockSpec
CONSTANTS
  Broadcasters = {"p"}
  Viewers = {"v"}
  NumStreams = 1
  Workers = 2
  Reread = TRUE
INVARIANT NoDeadlock
CHECK_DEADLOCK FALSE
