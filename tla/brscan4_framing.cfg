CONSTANTS
  Base = 3
  Status = {2}
  Streams <- PageStreams
  Ends <- PageEnds
  Rooms <- SomeRooms
  BRSCAN4_READ_CACHE_SIZE = 11
  BRSCAN4_MAX_REQUEST_SIZE = 10
  BRSCAN4_MAX_USB_READ_SIZE = 4
SPECIFICATION Spec
INVARIANT TypeOK
INVARIANT InOrder
INVARIANT InStep
INVARIANT StopsAtStatus
PROPERTY CallsReturn
