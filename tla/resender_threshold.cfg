SPECIFICATION ResenderSpec
CONSTANTS
  NStreams = 2
  SeqNums <- Numbers
  Sizes <- Half
  AgeLimits <- Lifetimes
  Windows <- OneWindow
  MSS = 2
  Slack = 2
  MinRTO = 0
  MaxRTO = 1
  Backoff = 1
  SlowStart = TRUE
INVARIANT ThresholdOnePacket
