SPECIFICATION Spec
CONSTANTS
  NoGoal = NoGoal
  NoOcc = NoOcc
  NoKind = NoKind
  Goals = {g1}
  Occupations = {o1}
  Kinds = {k1, k2}
  MaxProposals = 2
  MaxRoadmaps = 2
  MaxEvents = 2
  MaxVersion = 5
  MaxRoadmapVersion = 6
  GoalStatuses = {"ACTIVE"}
  Explored = {"revoke"}
CHECK_DEADLOCK FALSE
SYMMETRY KindSymmetry
INVARIANTS
  CompletionLineage
  CreditIsBacked
PROPERTIES
  RevisionKeepsHistory
