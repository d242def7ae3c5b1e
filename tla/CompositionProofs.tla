------------------------- MODULE CompositionProofs --------------------------
(***************************************************************************)
(* The three compositions that the runs limits, services and frontend      *)
(* check.  Each step of a composition is one of one component's and leaves *)
(* the others alone, so every component goes through a behavior of its own *)
(* there, and what is proved of it alone holds in company: the invariants  *)
(* below are those of the runs, for every value of the constants.          *)
(***************************************************************************)
EXTENDS MCLimits, MCServices, MCFrontend, LimitProofs, UpstreamProofs, HttpServerProofs

-----------------------------------------------------------------------------
(* What limits the calls to a service.                                     *)

(* A step of the composition is one of the limiter chosen.                 *)
LEMMA LimitsStep ==
  [LimitsNext]_limitsVars
    => /\ [MultiTierNext]_multiTierVars /\ [DistNext]_distVars
       /\ [GatewayNext]_gatewayVars /\ [BreakerNext]_breakerVars
<1> SUFFICES ASSUME [LimitsNext]_limitsVars
             PROVE  /\ [MultiTierNext]_multiTierVars /\ [DistNext]_distVars
                    /\ [GatewayNext]_gatewayVars /\ [BreakerNext]_breakerVars
  OBVIOUS
<1>1. CASE UNCHANGED limitsVars
  BY <1>1 DEF limitsVars
<1>2. CASE MultiTierNext /\ UNCHANGED <<distVars, gatewayVars, breakerVars>>
  BY <1>2
<1>3. CASE DistNext /\ UNCHANGED <<multiTierVars, gatewayVars, breakerVars>>
  BY <1>3
<1>4. CASE GatewayNext /\ UNCHANGED <<multiTierVars, distVars, breakerVars>>
  BY <1>4
<1>5. CASE BreakerNext /\ UNCHANGED <<multiTierVars, distVars, gatewayVars>>
  BY <1>5
<1> QED  BY <1>1, <1>2, <1>3, <1>4, <1>5 DEF LimitsNext

(* The composition implements each of the four that limit calls: the two   *)
(* of rate-limiter, the gateway's own limiters and the circuit breaker.    *)
THEOREM LimitsImplementEach ==
  LimitsSpec => MultiTierSpec /\ DistSpec /\ GatewaySafety /\ BreakerSafety
<1>1. LimitsInit => MultiTierInit /\ DistInit /\ GatewayInit /\ BreakerInit
  BY DEF LimitsInit
<1> QED  BY <1>1, LimitsStep, PTL
            DEF LimitsSpec, MultiTierSpec, DistSpec, GatewaySafety, BreakerSafety

(* Each limiter is typed in the composition: no bucket holds more than its *)
(* capacity, no log more than its limit, no count of the breaker is below  *)
(* zero.                                                                   *)
THEOREM LimitsAreTyped == LimitsSpec => []LimitsTypeOK
<1>1. MultiTierTypeOK /\ DistTypeOK /\ GatewayTypeOK /\ BreakerTypeOK => LimitsTypeOK
  BY DEF LimitsTypeOK
<1> QED  BY <1>1, LimitsImplementEach, MultiTierIsTyped, DistIsTyped, GatewayIsTyped,
            BreakerIsTyped, PTL

(* Everything the run limits checks besides: the bounds on what each       *)
(* limiter grants, and the breaker's window, probe and decision.           *)
THEOREM LimitsHold ==
  LimitsSpec => [](/\ WindowBound /\ TierRateBound /\ ReplacementsAccounted /\ SharedRateBound
                   /\ WindowIsRecent /\ OneProbePerPeriod /\ ClosedIsHealthy)
BY LimitsImplementEach, GatewayWindowIsBounded, TierRateIsBounded, TierReplacementsAccounted,
   SharedRateIsBounded, BreakerWindowIsRecent, BreakerHasOneProbe, BreakerClosedIsHealthy, PTL

-----------------------------------------------------------------------------
(* The services whose liveness is checked.                                 *)

(* A step of the composition is one of the service chosen.                 *)
LEMMA ServicesStep ==
  [ServicesNext]_servicesVars
    => /\ [BreakerNext]_breakerVars /\ [GatewayNext]_gatewayVars
       /\ [HttpNext]_httpVars /\ [BalancerNext]_balancerVars
<1> SUFFICES ASSUME [ServicesNext]_servicesVars
             PROVE  /\ [BreakerNext]_breakerVars /\ [GatewayNext]_gatewayVars
                    /\ [HttpNext]_httpVars /\ [BalancerNext]_balancerVars
  OBVIOUS
<1>1. CASE UNCHANGED servicesVars
  BY <1>1 DEF servicesVars
<1>2. CASE BreakerNext /\ UNCHANGED <<gatewayVars, httpVars, balancerVars>>
  BY <1>2
<1>3. CASE GatewayNext /\ UNCHANGED <<breakerVars, httpVars, balancerVars>>
  BY <1>3
<1>4. CASE HttpNext /\ UNCHANGED <<breakerVars, gatewayVars, balancerVars>>
  BY <1>4
<1>5. CASE BalancerNext /\ UNCHANGED <<breakerVars, gatewayVars, httpVars>>
  BY <1>5
<1> QED  BY <1>1, <1>2, <1>3, <1>4, <1>5 DEF ServicesNext

(* The composition implements each service with its fairness, so that what *)
(* TLC finds live there it finds of the service's own behaviors.           *)
THEOREM ServicesImplementEach ==
  ServicesSpec => BreakerSpec /\ GatewaySpec /\ HttpSpec /\ BalancerSpec
<1>1. ServicesInit => BreakerInit /\ GatewayInit /\ HttpInit /\ BalancerInit
  BY DEF ServicesInit
<1> QED  BY <1>1, ServicesStep, PTL
            DEF ServicesSpec, BreakerSpec, GatewaySpec, HttpSpec, BalancerSpec,
                BreakerSafety, GatewaySafety, HttpSafety, BalancerSafety

-----------------------------------------------------------------------------
(* What a client of the system meets first.                                *)

(* A step of the composition is one of the front chosen.                   *)
LEMMA FrontendStep ==
  [FrontendNext]_frontendVars
    => /\ [ProxyNext]_proxyVars /\ [BalancerNext]_balancerVars
       /\ [HttpNext]_httpVars /\ [JsNext]_jsVars
<1> SUFFICES ASSUME [FrontendNext]_frontendVars
             PROVE  /\ [ProxyNext]_proxyVars /\ [BalancerNext]_balancerVars
                    /\ [HttpNext]_httpVars /\ [JsNext]_jsVars
  OBVIOUS
<1>1. CASE UNCHANGED frontendVars
  BY <1>1 DEF frontendVars
<1>2. CASE ProxyNext /\ UNCHANGED <<balancerVars, httpVars, jsVars>>
  BY <1>2
<1>3. CASE BalancerNext /\ UNCHANGED <<proxyVars, httpVars, jsVars>>
  BY <1>3
<1>4. CASE HttpNext /\ UNCHANGED <<proxyVars, balancerVars, jsVars>>
  BY <1>4
<1>5. CASE JsNext /\ UNCHANGED <<proxyVars, balancerVars, httpVars>>
  BY <1>5
<1> QED  BY <1>1, <1>2, <1>3, <1>4, <1>5 DEF FrontendNext

(* The composition implements the proxy, the balancer, the HTTP server and *)
(* the JavaScript binding of the server.                                   *)
THEOREM FrontendImplementsEach ==
  FrontendSpec => ProxySpec /\ BalancerSafety /\ HttpSafety /\ JsSpec
<1>1. FrontendInit => ProxyInit /\ BalancerInit /\ HttpInit /\ JsInit
  BY DEF FrontendInit
<1> QED  BY <1>1, FrontendStep, PTL
            DEF FrontendSpec, ProxySpec, BalancerSafety, HttpSafety, JsSpec

(* Each of the four is typed in the composition.                           *)
THEOREM FrontendIsTyped == FrontendSpec => []FrontendTypeOK
<1>1. ProxyTypeOK /\ BalancerTypeOK /\ HttpTypeOK /\ JsTypeOK => FrontendTypeOK
  BY DEF FrontendTypeOK
<1> QED  BY <1>1, FrontendImplementsEach, ProxyIsTyped, BalancerIsTyped, HttpIsTyped,
            JsSlotTracksServer, PTL

(* Everything the run frontend checks besides: what the cache may serve,   *)
(* where a session goes, the order of answers, the end of run and the slot.*)
THEOREM FrontendHolds ==
  FrontendSpec => [](/\ InvalidationHolds /\ CacheMatchesConfig /\ StickyStable
                     /\ AnswersInOrder /\ StopIsComplete /\ SlotTracksServer)
BY FrontendImplementsEach, ProxyInvalidationHolds, ProxyCacheMatchesConfig, BalancerStaysSticky,
   HttpAnswersInOrder, HttpStopIsComplete, JsSlotTracksServer, PTL
=============================================================================
