CONSTANTS
  Lower <- MCLower
  IsAddress <- MCIsAddress
  InDomain <- MCInDomain
  AllowedPorts <- MCAllowedPorts
  Sensitive <- MCSensitive
  Primary <- MCPrimary
  Ports <- MCManyPorts
  Tools <- MCNameTools
  ExternalConfigured = FALSE
  DescribesApi <- MCDescribesApi
  TechnologyPaths <- MCTechnologyPaths
  Trim <- MCTrim
  MaxCandidates = 24
  Slug <- MCSlug
  Sensitivity <- MCSensitivity
  World <- MCWorld
  Subdomains <- MCManySubdomains
  EarlierRuns <- MCEarlierRuns
  Policy <- MCPolicy
  MaxRejections = 3
  MaxFailures = 0
  MaxDeviations = 1
SPECIFICATION Spec
CHECK_DEADLOCK FALSE
INVARIANTS NoneCanBeActedOn
