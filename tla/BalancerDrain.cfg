SPECIFICATION BalancerSpec
CONSTANTS
  Selector = {"t1"}
  Session = {"s1"}
  Addr = {"a"}
  Initial <- NoBackends
  Weight <- Unweighted
  Hash <- MCHash
  CounterSize = 2
  MaxBackends = 2
  MaxConns = 1
  MaxFlips = 1
PROPERTIES DrainEnds
CHECK_DEADLOCK FALSE
