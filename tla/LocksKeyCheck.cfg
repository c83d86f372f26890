SPECIFICATION Spec
CONSTANTS
  t1 = t1
  t2 = t2
  t3 = t3
  a1 = a1
  a2 = a2
  Txns = {t1, t2}
  Accounts = {a1}
  Kinds <- AllKinds
INVARIANTS
  KeyChecksFinish
