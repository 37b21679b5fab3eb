SPECIFICATION Spec
CONSTANTS
  it = it
  elsewhere = elsewhere
  a1 = a1
  a2 = a2
  x = x
  y = y
  h1 = h1
  g1 = g1
  lower = lower
  upper = upper
  None = None
  Runs = {it, elsewhere}
  It = it
  AssetIds = {a1, a2}
  Kinds = {url, api}
  RelationKinds = {owns}
  Values = {lower, upper}
  Folded <- MCFolded
  RelationIds = {r1, r2}
  ObservationIds = {o1}
  HypothesisIds = {h1}
  ActionIds = {x, y}
  GapIds = {g1}
  Decisions <- MCDecisions
CHECK_DEADLOCK FALSE
INVARIANTS KnownOnce Grounded Decided
PROPERTIES OnlyGrows
