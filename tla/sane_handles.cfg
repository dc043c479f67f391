CONSTANTS
  Handles = {h1, h2}
  UsbDevices = {u1, u2}
  NetDevices = {n1}
  Ndebug = TRUE
  Sizes = {1, 2}
  MaxInits = 2
  None = None
  Freed = Freed
  Private = Private
SPECIFICATION Spec
SYMMETRY Symmetry
INVARIANTS OwnDevice OwnScan OwnOptions ExitReleases EndsAreKnown
CHECK_DEADLOCK FALSE
