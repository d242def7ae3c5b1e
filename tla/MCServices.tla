----------------------------- MODULE MCServices -----------------------------
(***************************************************************************)
(* CircuitBreaker, Gateway, HttpServer and LoadBalancer, their liveness    *)
(* included.  They share no state, so each behavior is one of one of them, *)
(* chosen at the start, while the others stay as they are initially.       *)
(***************************************************************************)
EXTENDS CircuitBreaker, MCGateway, MCHttpServer, MCLoadBalancer

VARIABLE service

servicesVars == <<service, breakerVars, gatewayVars, httpVars, balancerVars>>

ServicesInit ==
  /\ service \in {"breaker", "gateway", "http", "balancer"}
  /\ BreakerInit /\ GatewayInit /\ HttpInit /\ BalancerInit
  /\ service # "gateway" => pipelines = <<CHOOSE p \in PipeConfigs : TRUE>>
  /\ service # "http" => ~dual
  /\ service # "balancer" => \A a \in Addr : up[a]

ServicesNext ==
  /\ UNCHANGED service
  /\ \/ /\ service = "breaker"
        /\ BreakerNext
        /\ UNCHANGED <<gatewayVars, httpVars, balancerVars>>
     \/ /\ service = "gateway"
        /\ GatewayNext
        /\ UNCHANGED <<breakerVars, httpVars, balancerVars>>
     \/ /\ service = "http"
        /\ HttpNext
        /\ UNCHANGED <<breakerVars, gatewayVars, balancerVars>>
     \/ /\ service = "balancer"
        /\ BalancerNext
        /\ UNCHANGED <<breakerVars, gatewayVars, httpVars>>

(* In none of the initial states is an action enabled that is fair.        *)
ServicesSpec ==
  /\ ServicesInit /\ [][ServicesNext]_servicesVars
  /\ BreakerFairness /\ GatewayFairness /\ HttpFairness /\ BalancerFairness
=============================================================================
