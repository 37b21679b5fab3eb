SPECIFICATION Spec
CONSTANTS
  acme = acme
  other = other
  www = www
  apex = apex
  Projects = {acme, other}
  Requests <- MCRequests
  Hosts = {www, apex}
  Below <- MCBelow
  Ports = {443}
  Runs = {run1, run2}
  Nothing = Nothing
  Window = 2
  Pause = 2
  PathPause = 1
  MAX_RATE_RETRIES = 2
  MaxRate = 2
  MaxTime = 4
SYMMETRY Symmetry
INVARIANTS RateBounded QueueBounded
PROPERTIES DenialJustified RetryRefusedWhenContended
