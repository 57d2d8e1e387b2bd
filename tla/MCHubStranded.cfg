SPECIFICATION FairSpec
CONSTANTS
  c1 = c1
  c2 = c2
  c3 = c3
  Conns = {c1, c2}
  MaxSends <- OneAndNone
  NoConn = NoConn
PROPERTY QueuedReachesPeer
CHECK_DEADLOCK FALSE
