SPECIFICATION Spec
CONSTANTS
  r1 = r1
  r2 = r2
  Runs = {r1, r2}
  MaxTurns = 2
  KeepRecent = 2
  MaxLoadEntries = 4
  MaxCalls = 2
  MaxPrompts = 2
  MaxBoots = 2
  Texts = {TRUE}
  ToolModes = {TRUE, FALSE}
  MaxShells = 1
INVARIANTS ChatUsesAnswered SessionMirrorsDriver RepairIdempotent
PROPERTY LoadUsesAnswered
CHECK_DEADLOCK FALSE
