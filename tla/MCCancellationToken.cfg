SPECIFICATION FairSpec
CONSTANTS
  Tasks = {t1, t2, t3}
  Calls = {c1, c2}
  Free = Free
INVARIANTS
  TypeOK NoLostWakeup
PROPERTIES
  FiredResolves
CHECK_DEADLOCK FALSE
