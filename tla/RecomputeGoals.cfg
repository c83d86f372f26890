SPECIFICATION Spec
CONSTANTS
  u1 = u1
  g1 = g1
  g2 = g2
  w1 = w1
  w2 = w2
  NoGoal = NoGoal
  NoOcc = NoOcc
  NoRequest = NoRequest
  Users <- OneUser
  Goals = {g1, g2}
  Owner <- OneOwner
  Occupations = {o1}
  Stamps = {s1}
  Workers = {w1}
  Tokens = {1, 2}
  LeaseFor = 1
  DeferFor = 1
  WindowTicks = 1
  ExecutionLimit = 1
  RequestLimit = 1
  MaxRequests = 4
  MaxVersion = 4
SYMMETRY GoalSymmetry
INVARIANTS
  ResultsExist
  NoPoisonedWork
  InputsNotMixed
  EditsAreTracked
