SPECIFICATION SceneSpec
CONSTANTS
  p1 = p1
  p2 = p2
  c1 = c1
  x1 = x1
  x2 = x2
  l1 = l1
  l2 = l2
  NoSubject = NoSubject
  NoCode = NoCode
  Subjects = {p1, p2}
  Codes = {c1}
  Sessions = {x1, x2}
  Logins = {l1, l2}
  Settings = {TRUE, FALSE}
  SessionLife = 2
  AttemptLife = 1
  Hours = {1, 2}
  Limits = {1, 2}
  Deadlines = {2, 4}
  MaxTime = 3
SYMMETRY AdmissionSymmetry
INVARIANTS
  TypeOK
  SeatsAccounted
  SessionsWithinAccess
  RevocationHolds
PROPERTIES
  NoRevival
  LedgerSurvives
