SPECIFICATION Spec
CONSTANTS
  r1 = r1
  r2 = r2
  Runs = {r1}
  MaxTurns = 2
  KeepRecent = 2
  MaxLoadEntries = 4
  MaxCalls = 2
  MaxPrompts = 2
  MaxBoots = 2
  Texts = {TRUE, FALSE}
  ToolModes = {TRUE}
  MaxShells = 0
INVARIANT ChatResultsCalled
CHECK_DEADLOCK FALSE
