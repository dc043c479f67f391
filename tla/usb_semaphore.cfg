CONSTANTS
  a = a
  b = b
  c = c
  Procs <- Three
SPECIFICATION Spec
INVARIANT TypeOK
INVARIANT OverlapNeedsRemoval
INVARIANT TakenIfHeld
PROPERTY WaitEnds
