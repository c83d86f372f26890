SPECIFICATION Spec
CONSTANTS
  NoGoal = NoGoal
  NoOcc = NoOcc
  NoKind = NoKind
  Goals = {g1, g2}
  Occupations = {o1}
  Kinds = {}
  MaxProposals = 2
  MaxRoadmaps = 2
  MaxEvents = 0
  MaxVersion = 3
  MaxRoadmapVersion = 4
  GoalStatuses = {"DRAFT", "ACTIVE", "ARCHIVED"}
  Explored = {"rename", "expire"}
CHECK_DEADLOCK FALSE
SYMMETRY GoalSymmetry
INVARIANTS
  TypeOK
  ActiveRoadmapServesGoal
PROPERTIES
  RecomputeKeepsRoadmaps
  RenameKeepsState
