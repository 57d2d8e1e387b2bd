SPECIFICATION Spec
CONSTANTS
  p1 = p1
  p2 = p2
  p3 = p3
  IDs = {p1, p2}
  c1 = c1
  c2 = c2
  c3 = c3
  c4 = c4
  Calls = {c1, c2, c3, c4}
  k1 = k1
  Cancellers = {k1}
  MaxConcurrent = 1
  MaxSubmits <- TwiceAndOnce
  ExecFails = {p2}
  NoCall = NoCall
  NoID = NoID
INVARIANTS TypeOK QueueConsistent ExecutingWithinLimit CancelHandleLive OneFinalPerSubmit
PROPERTY TerminalSticks
CHECK_DEADLOCK FALSE
