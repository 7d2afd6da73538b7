SPECIFICATION Spec
CONSTANTS
  a = a
  b = b
  Nodes = {a, b}
  Steppers = {a}
  Slotless = {}
  NumSlots = 2
  Default <- DefaultMap
  Span = 2
  None = None
  MaxCommands = 3
  MaxUpsets = 1
INVARIANTS TypeOK SlotsAreTrue PositionIsTrue
PROPERTY UnstopUnmaps
CHECK_DEADLOCK FALSE
