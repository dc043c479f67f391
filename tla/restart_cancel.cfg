CONSTANTS
  Streams <- GoodScans
  GoodStreams <- GoodScans
  Transports <- UsbOnly
  MaxScans = 2
  MaxFaults = 0
  ShortPackets = TRUE
  BlocksAligned = TRUE
  PaddedTails = FALSE
  LargePages = TRUE
SPECIFICATION Spec
INVARIANT RestartAfterCancel
