CONSTANTS
  z = z
  x = x
  a = a
  None = None
  Axes <- ZA
  Rotary = {a}
  Zs = {z}
  XY = {}
  Cycle <- ZThenRest
  OnSwitch = {z}
  LegMisses = 1
  SettlePolls = 1
  LegMax = 3
  MaxFacts = 1
  Commands = {"home", "leg", "legabort", "stop"}
  MaxUpsets = 0
SPECIFICATION Spec
INVARIANTS
  StepEndIsMine
