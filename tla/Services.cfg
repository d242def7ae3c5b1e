SPECIFICATION ServicesSpec
CONSTANTS
  Caller = {"c1", "c2"}
  Fickle = {"c2"}
  Timed = {"c1"}
  Window = 2
  MinRequests = 2
  Threshold = 50
  ResetTimeout = 1
  MaxClock = 2

  Conn = {"h1", "h2"}
  Request <- MCRequest
  PipeConfigs <- MCPipeConfigs
  WindowLength = 2
  MaxReloads = 1
  MaxLimiters = 2
  MaxGateNow = 0

  Peer = {"p1", "p2"}
  Patient = {"p1"}
  Routes <- MCRoutes
  Params = {":id"}
  HttpRequests <- MCHttpRequests
  Frames <- MCFrames
  MaxOpen = 2
  MaxSent = 1

  Selector = {"t1"}
  Session = {"s1"}
  Addr = {"a"}
  Initial <- NoBackends
  Weight <- Unweighted
  Hash <- MCHash
  CounterSize = 2
  MaxBackends = 2
  MaxConns = 1
  MaxFlips = 1
PROPERTIES RecoveryDecided RequestsAnswered ShutdownEnds ConnectionsEnd
           OnlyDeadlockStopsDrain HealthFollows
CHECK_DEADLOCK FALSE
