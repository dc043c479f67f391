\* A B/W page enlarged by a whole factor.
CONSTANTS
  Jobs <- ScaledJobs
  MaxLines = 2
  Data <- MCData
  Tables = {}
  Grey <- MCGrey
SPECIFICATION DecSpec
INVARIANT ContentKept
