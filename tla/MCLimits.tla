------------------------------ MODULE MCLimits ------------------------------
(***************************************************************************)
(* What limits the calls to a service: MultiTierLimiter,                   *)
(* DistributedLimiter, the limiters of Gateway and CircuitBreaker.  They   *)
(* share no state, so each behavior is one of one of them, chosen at the   *)
(* start, while the others stay as they are initially.                     *)
(***************************************************************************)
EXTENDS MultiTierLimiter, DistributedLimiter, MCGateway, CircuitBreaker, TLC

VARIABLE limiter

limitsVars == <<limiter, multiTierVars, distVars, gatewayVars, breakerVars>>

LimitsInit ==
  /\ limiter \in {"tiers", "redis", "gateway", "breaker"}
  /\ MultiTierInit /\ DistInit /\ GatewayInit /\ BreakerInit
  /\ limiter # "gateway" => pipelines = <<CHOOSE p \in PipeConfigs : TRUE>>

LimitsNext ==
  /\ UNCHANGED limiter
  /\ \/ /\ limiter = "tiers"
        /\ MultiTierNext
        /\ UNCHANGED <<distVars, gatewayVars, breakerVars>>
     \/ /\ limiter = "redis"
        /\ DistNext
        /\ UNCHANGED <<multiTierVars, gatewayVars, breakerVars>>
     \/ /\ limiter = "gateway"
        /\ GatewayNext
        /\ UNCHANGED <<multiTierVars, distVars, breakerVars>>
     \/ /\ limiter = "breaker"
        /\ BreakerNext
        /\ UNCHANGED <<multiTierVars, distVars, gatewayVars>>

LimitsSpec == LimitsInit /\ [][LimitsNext]_limitsVars

(* What each variable of the four may hold.                                *)
LimitsTypeOK == MultiTierTypeOK /\ DistTypeOK /\ GatewayTypeOK /\ BreakerTypeOK

(* The cfg gives Checker and Conn the same values.                         *)
LimitsAlike == Permutations(Checker \cup Conn)

-----------------------------------------------------------------------------
Rule(capacity, perToken) == [capacity |-> capacity, perToken |-> perToken]
MCTierOf == [b \in Bucket |-> IF b = "global" THEN "global" ELSE "user"]
MCChecks == {<<"global", "user:ann">>}
MCBaseRules == [t \in Tier |-> IF t = "global" THEN {Rule(2, 1)} ELSE {}]
MCNewRules == {Rule(1, 2), Rule(2, 1)}

MCShared == Rule(3, 1)
MCBehind == [n \in Node |-> IF n = "n3" THEN 1 ELSE 0]
=============================================================================
