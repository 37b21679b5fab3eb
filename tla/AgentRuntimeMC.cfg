SPECIFICATION Spec
CONSTANTS
  Executors = {x1, x2}
  MaxModelCalls = 0
  MaxAttempts = 1
  MaxRequests = 1
  HttpTask = TRUE
  NoOutput = NoOutput
  MaxSteps = 4
  MaxFaults = 1
  MaxRestarts = 1
CHECK_DEADLOCK FALSE
SYMMETRY Symmetry
INVARIANTS TypeOK OneDriver OneLateEffect StepsOrdered ToolsAnswered RunningIsAttended StreakBounded
PROPERTIES KeepsLedger
