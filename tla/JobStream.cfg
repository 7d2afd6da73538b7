SPECIFICATION Spec
CONSTANTS
  LayerTool <- MCLayerTool
  LayerLen <- MCLayerLen
  Tools <- MCTools
  SeqMod = 4
  Window = 2
  AckMax = 2
  RingSize = 1
  MaxUpsets = 3
  MaxMounts = 3
  Wire = 3
INVARIANTS TypeOK AckIsTrue RunsRight JobSurvives
PROPERTIES InFlightResolves
CHECK_DEADLOCK FALSE
