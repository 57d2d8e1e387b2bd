SPECIFICATION FairSpec
CONSTANTS
  c1 = c1
  c2 = c2
  c3 = c3
  Conns = {c1, c2, c3}
  MaxSends <- TwoAndNone
  NoConn = NoConn
INVARIANTS
  TypeOK
  ExactlyOnce
  OrderedPerConnection
  LiveIsCurrent
PROPERTY ReplacedRelayEnds
CHECK_DEADLOCK FALSE
