SPECIFICATION Spec
CONSTANTS
  r1 = r1
  r2 = r2
  host = host
  Request = {r1, r2}
  Host = {host}
  HostOf <- MCHostOf
  RetryCount = 1
  RetryDelayFallback = 1
  RetryDelayLimit = 3
  ForcedStatuses = {"400"}
  RetryAfters = {2, 3, 4}
  LimitByDefault = FALSE
  AllowOverlap = FALSE
  CorrectionDivisor = 2
  FailureMultiplier = 2
  MaxTimeout = 2
  MaxDuration = 1
  MaxInvalidations = 1
PROPERTIES RetryHonoursHost BurstsAreSpread EveryRequestSettles
CHECK_DEADLOCK FALSE
