SPECIFICATION FairSpec
CONSTANTS
  p1 = p1
  p2 = p2
  p3 = p3
  IDs = {p1, p2, p3}
  c1 = c1
  c2 = c2
  c3 = c3
  c4 = c4
  c5 = c5
  Calls = {c1, c2, c3, c4, c5}
  Cancellers = {}
  MaxConcurrent = 2
  MaxSubmits <- EachOnce
  ExecFails = {}
  NoCall = NoCall
  NoID = NoID
INVARIANTS LiveWithinLimit ExecutingCancellable
PROPERTY AllAnswered
CHECK_DEADLOCK FALSE
