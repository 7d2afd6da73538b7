SPECIFICATION Spec
CONSTANTS
  Top = 3
  SoftLo = 1
  SoftHi = 2
  MaxTravel = 1
  JobMax = 2
  None = None
INVARIANTS
  TypeOK
  LineIsWatched
  InRange
