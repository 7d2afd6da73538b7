CONSTANTS
  z = z
  x = x
  a = a
  None = None
  Axes <- ZA
  Rotary = {a}
  Zs = {z}
  XY = {}
  Cycle <- ZThenRest
  OnSwitch = {z}
  LegMisses = 1
  SettlePolls = 1
  LegMax = 3
  MaxFacts = 1
  Commands = {"home", "leg", "unalarm"}
  MaxUpsets = 1
SPECIFICATION Spec
INVARIANTS
  TypeOK
  NeverStalls
  HomingIsTrue
