SPECIFICATION Spec
CONSTANTS
  Geo = {"g1", "g2"}
  Bufs = {"b1", "b2"}
  Rests = {"r1", "r2", "r3"}
  Tools = {"t1"}
  Pushes <- MCPushes
  Malformed <- MCMalformed
  Refused <- MCRefused
  MaxSeq = 2
  MaxCuts = 1
  None = None
INVARIANTS
  TypeOK
  StoredIsKept
  ConfigInUse
  CalibrationIsTrue
