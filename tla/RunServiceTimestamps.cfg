SPECIFICATION Spec
CONSTANTS
  Runs = {r1}
  Clients = {agent, ui}
  ResultIds = {t1}
  CallIds = {}
  EvidenceIds = {e1}
  NoOutput = NoOutput
  NoDraft = NoDraft
  NoTxn = NoTxn
  MaxClock = 2
  MaxSteps = 1
  MaxEvents = 4
SYMMETRY Symmetry
INVARIANTS TimestampsOrdered
