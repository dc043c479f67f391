CONSTANTS
  Streams <- SessionScans
  GoodStreams <- GoodScans
  Transports <- BothTransports
  MaxScans = 3
  MaxFaults = 2
  ShortPackets = TRUE
  BlocksAligned = TRUE
  PaddedTails = FALSE
  LargePages = TRUE
SPECIFICATION Spec
INVARIANT DecoderLives
INVARIANT QuietAtStart
INVARIANT StartWorks
PROPERTY Delivers
PROPERTY CallsReturn
