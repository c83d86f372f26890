SPECIFICATION WritesSpec
CONSTANTS
  t1 = t1
  t2 = t2
  t3 = t3
  a1 = a1
  a2 = a2
  Txns = {t1, t2, t3}
  Accounts = {a1, a2}
  Kinds <- AllKinds
  Users = {a1, a2}
  Keys = {"k"}
  Payloads = {"h1", "h2"}
  Handlers = {"p1", "p2"}
  TTL = 1
  PruneLimit = 1
  MaxTime = 1
  MaxRequests = 2
  QuotaAccounts = {"a"}
  Callers = {"c1", "c2"}
  MinuteLen = 4
  HourLen = 8
  Limit <- QuotaLimit
  MaxNow = 9
  PlanSteps = {"s1"}
  Tabs = {"b1", "b2"}
  MaxPlanVersion = 3
CHECK_DEADLOCK FALSE
SYMMETRY WritesSymmetry
INVARIANTS
  LocksOrdered
  KeyedOnce
  QuotasHold
PROPERTIES
  NothingLost
