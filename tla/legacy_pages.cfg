CONSTANTS
  Base = 9
  Answer <- Answers
  Boundary <- BoundaryStatus
  Components <- CrYCb
  Scans <- PageScans
  MaxLens <- SomeMaxLens
  Height = 7
  InBuffSize = 72
  WordSize = 256
  MaxScans = 3
  MaxFaults = 1
SPECIFICATION Spec
INVARIANT TypeOK
INVARIANT LinesInOrder
INVARIANT WholePage
PROPERTY PageEnds
