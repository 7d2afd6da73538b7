CONSTANTS
  NodeCmds = {"ENABLE", "DISABLE", "MAKE_SAFE", "NODE_STATUS", "ENGAGE"}
  Nodes = {n1}
  Config = {n1}
  Lossy = TRUE
  Commands = {"broadcast", "read", "step", "leg", "run", "reset"}
  Broadcast = all
  Local = local
  Depth = 1
  IdMax = 3
SPECIFICATION FairSpec
INVARIANTS
  TypeOK
  ArmedIsTrue
  AnswerIsMine
PROPERTIES
  BootSweepHonest
  StopIsSwept
  CallsReturn
