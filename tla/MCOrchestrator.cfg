SPECIFICATION FairSpec
CONSTANTS
  e1 = e1
  Execs = {e1}
  NumStages = 2
  TimeBudgeted <- SecondStage
  TokenBudget = 2
  Responses = 2
  NoExec = NoExec
INVARIANTS
  TypeOK
  SendNeverBlocks
  CleanUnlessCancelled
PROPERTIES
  OutcomeSpec
  CancelEnds
  BudgetEnds
CHECK_DEADLOCK FALSE
