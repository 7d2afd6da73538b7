CONSTANTS
  z = z
  x = x
  a = a
  None = None
  Axes <- ZX
  Rotary = {}
  Zs = {z}
  XY = {x}
  Cycle <- ZThenRest
  OnSwitch = {x}
  LegMisses = 1
  SettlePolls = 1
  LegMax = 3
  MaxFacts = 1
  Commands = {"home", "goto", "job", "abort", "cancel", "stop", "legabort"}
  MaxUpsets = 0
SPECIFICATION Spec
INVARIANTS
  ZsAreUp
  AlarmRunsNothing
