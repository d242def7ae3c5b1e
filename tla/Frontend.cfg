SPECIFICATION FrontendSpec
CONSTANTS
  Client = {w1, w2}
  Purger = {g}
  Path = {"p"}
  Key = {"k1", "k2"}
  PathOf <- MCPathOf
  Configs <- MCConfigs
  Upstream = {"u1", "u2"}
  MaxVersion = 1

  Selector = {w1, w2}
  Session = {"s1"}
  Addr = {"a", "b"}
  Initial <- OneBackend
  Weight <- Weighted
  Hash <- MCHash
  CounterSize = 1
  MaxBackends = 2
  MaxConns = 0
  MaxFlips = 0

  Peer = {"p1", "p2"}
  Patient = {"p1"}
  Routes <- MCRoutes
  Params = {":id"}
  HttpRequests <- MCHttpRequests
  Frames <- MCFrames
  MaxOpen = 2
  MaxSent = 2

  Promise = {w1, w2}
  MaxServers = 3
SYMMETRY FrontendAlike
INVARIANTS FrontendTypeOK InvalidationHolds CacheMatchesConfig StickyStable
           AnswersInOrder StopIsComplete SlotTracksServer
CHECK_DEADLOCK FALSE
