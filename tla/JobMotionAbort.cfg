CONSTANTS
  Records = 2
  Jobs = 1
  RecLen = 1
  Margin = 0
  RingSize = 11
  Commands = {"abort", "late"}
  PassCommands = 1
SPECIFICATION FairSpec
PROPERTY
  AbortCloses
