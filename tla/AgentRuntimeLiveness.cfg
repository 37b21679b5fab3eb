SPECIFICATION FairSpec
CONSTANTS
  Executors = {x1, x2}
  MaxModelCalls = 2
  MaxAttempts = 2
  MaxRequests = 1
  HttpTask = TRUE
  NoOutput = NoOutput
  MaxSteps = 3
  MaxFaults = 1
  MaxRestarts = 0
CHECK_DEADLOCK FALSE
INVARIANTS BudgetKept
PROPERTIES ExecutionReturns DrivenRunEnds
