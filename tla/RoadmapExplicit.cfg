SPECIFICATION FairSpec
CONSTANTS
  NoGoal = NoGoal
  NoOcc = NoOcc
  NoKind = NoKind
  Goals = {g1}
  Occupations = {o1}
  Kinds = {k1}
  MaxProposals = 1
  MaxRoadmaps = 1
  MaxEvents = 1
  MaxVersion = 3
  MaxRoadmapVersion = 4
  GoalStatuses = {"DRAFT", "ACTIVE", "ARCHIVED"}
  Explored = {}
CHECK_DEADLOCK FALSE
PROPERTIES
  ActivationIsExplicit
