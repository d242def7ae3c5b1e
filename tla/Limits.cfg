SPECIFICATION LimitsSpec
CONSTANTS
  Checker = {w1, w2}
  Bucket = {"global", "user:ann"}
  Tier = {"global", "user"}
  TierOf <- MCTierOf
  Checks <- MCChecks
  BaseRules <- MCBaseRules
  NewRules <- MCNewRules
  MaxUpdates = 2
  MaxTierNow = 3

  Node = {"n1", "n3"}
  Behind <- MCBehind
  Costs = {2}
  Shared <- MCShared
  MinTtl = 1
  MaxTime = 3
  MaxSetBack = 1

  Conn = {w1, w2}
  Request <- MCRequest
  PipeConfigs <- MCPipeConfigs
  WindowLength = 2
  MaxReloads = 1
  MaxLimiters = 2
  MaxGateNow = 2

  Caller = {"c1", "c2", "c3"}
  Fickle = {"c2"}
  Timed = {"c1"}
  Window = 2
  MinRequests = 2
  Threshold = 50
  ResetTimeout = 1
  MaxClock = 1
SYMMETRY LimitsAlike
INVARIANTS LimitsTypeOK WindowBound TierRateBound ReplacementsAccounted SharedRateBound
           WindowIsRecent OneProbePerPeriod ClosedIsHealthy
CHECK_DEADLOCK FALSE
