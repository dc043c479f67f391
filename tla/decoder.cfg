\* Every way of changing the resolution, whole and planar lines, packed data
\* cut anywhere, pages cancelled and jobs reopened.
CONSTANTS
  Jobs <- MCJobs
  MaxLines = 7
  Data <- MCData
  Tables = {"grey"}
  Grey <- MCGrey
SPECIFICATION DecSpec
INVARIANTS
  TypeOK
  WindowHolds
  WriteFits
  SamplesApart
  ColumnsInPlace
  LinesUnpacked
PROPERTY
  Resamples
