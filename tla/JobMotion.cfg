CONSTANTS
  Records = 2
  Jobs = 1
  RecLen = 2
  Margin = 1
  RingSize = 11
  Commands = {"pause", "abort", "cancel", "stop", "reset"}
  PassCommands = 2
SPECIFICATION Spec
INVARIANTS
  TypeOK
  PausedIsSafe
  WaitIsOwed
PROPERTIES
  CutsPlunged
  NoGap
