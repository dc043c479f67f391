CONSTANTS
  Streams <- CapturedScans
  MaxScans = 2
  ShortPackets = TRUE
  BlocksAligned = TRUE
  PaddedTails = FALSE
SPECIFICATION Spec
PROPERTY Deframes
PROPERTY SessionEnds
