SPECIFICATION ProgressSpec
CONSTANTS
  g1 = g1
  o1 = o1
  NoGoal = NoGoal
  NoOcc = NoOcc
  NoKind = NoKind
CHECK_DEADLOCK FALSE
PROPERTIES
  AutoRoadmapSettles
  ServicesEnd
