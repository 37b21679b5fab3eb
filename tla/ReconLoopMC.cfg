CONSTANTS
  Lower <- MCLower
  IsAddress <- MCIsAddress
  InDomain <- MCInDomain
  AllowedPorts <- MCAllowedPorts
  Sensitive <- MCSensitive
  Primary <- MCPrimary
  Ports <- MCPorts
  Tools <- MCTools
  ExternalConfigured = FALSE
  DescribesApi <- MCDescribesApi
  TechnologyPaths <- MCTechnologyPaths
  Trim <- MCTrim
  MaxCandidates = 24
  Slug <- MCSlug
  Sensitivity <- MCSensitivity
  World <- MCWorld
  Subdomains <- MCSubdomains
  EarlierRuns <- MCEarlierRuns
  Policy <- MCPolicy
  MaxRejections = 3
  MaxFailures = 2
  MaxDeviations = 1
SPECIFICATION Spec
CHECK_DEADLOCK FALSE
INVARIANTS FollowingIsAccepted SelectedWasDone NotRepeated SelectedOnce WornOut
PROPERTIES FollowingCompletes
