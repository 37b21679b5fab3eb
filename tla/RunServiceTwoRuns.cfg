SPECIFICATION Spec
CONSTANTS
  Runs = {r1, r2}
  Clients = {agent, ui}
  ResultIds = {t1}
  CallIds = {m1}
  EvidenceIds = {e1}
  NoOutput = NoOutput
  NoDraft = NoDraft
  NoTxn = NoTxn
  MaxClock = 1
  MaxSteps = 0
  MaxEvents = 3
SYMMETRY Symmetry
INVARIANTS AcceptedIsStorable
PROPERTIES RecoveredBeforeServing ImplementsLedger
