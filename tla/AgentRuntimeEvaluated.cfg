SPECIFICATION Spec
CONSTANTS
  Executors = {x1}
  MaxModelCalls = 2
  MaxAttempts = 1
  MaxRequests = 1
  HttpTask = TRUE
  NoOutput = NoOutput
  MaxSteps = 3
  MaxFaults = 0
  MaxRestarts = 1
CHECK_DEADLOCK FALSE
INVARIANTS FinishedIsEvaluated
