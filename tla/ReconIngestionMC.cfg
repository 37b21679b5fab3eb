CONSTANTS
  Lower <- MCLower
  IsAddress <- MCIsAddress
  InDomain <- MCInDomain
  AllowedPorts <- MCAllowedPorts
  Slug <- MCSlug
  Sensitivity <- MCSensitivity
  Sensitive <- MCSensitive
  Target <- MCTarget
  Results <- MCResults
  MaxResults = 3
  MaxDerived = 3
SPECIFICATION Spec
CONSTRAINT MCThird
CHECK_DEADLOCK FALSE
INVARIANTS Explained SecondTimeAddsNothing ConclusionsCited HypothesesCurrent
PROPERTIES AcceptedByService OnlyStronger
