CONSTANTS
  Streams <- GoodScans
  GoodStreams <- GoodScans
  Transports <- BothTransports
  MaxScans = 1
  MaxFaults = 0
  ShortPackets = TRUE
  BlocksAligned = TRUE
  PaddedTails = FALSE
  LargePages = FALSE
SPECIFICATION Spec
INVARIANT EofBehindPage
