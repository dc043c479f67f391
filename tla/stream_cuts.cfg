CONSTANTS
  Streams <- CutStreams
  MaxScans = 1
  ShortPackets = FALSE
  BlocksAligned = FALSE
  PaddedTails = TRUE
SPECIFICATION Spec
INVARIANT TypeOK
INVARIANT EoiExact
INVARIANT EventsBacked
PROPERTY FeedReturns
