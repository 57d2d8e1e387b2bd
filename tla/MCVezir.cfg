SPECIFICATION FairSpec
CONSTANTS
  t1 = t1
  t2 = t2
  s1 = s1
  s2 = s2
  Tuis = {t1, t2}
  Subs = {s1, s2}
  NoConn = NoConn
  MaxRetries = 1
INVARIANTS
  BridgedOnce
  LossBounded
PROPERTIES
  RunEnds
CHECK_DEADLOCK FALSE
