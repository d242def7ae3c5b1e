----------------------------- MODULE MCFrontend -----------------------------
(***************************************************************************)
(* ProxyCache, the sticky sessions of LoadBalancer, HttpServer and         *)
(* JsServer.  They share no state, so each behavior is one of one of them, *)
(* chosen at the start, while the others stay as they are initially.       *)
(***************************************************************************)
EXTENDS ProxyCache, MCLoadBalancer, MCHttpServer, JsServer, TLC

VARIABLE front

frontendVars == <<front, proxyVars, balancerVars, httpVars, jsVars>>

FrontendInit ==
  /\ front \in {"proxy", "balancer", "http", "js"}
  /\ ProxyInit /\ BalancerInit /\ HttpInit /\ JsInit
  /\ front # "proxy" => config = CHOOSE p \in Configs : TRUE
  /\ \A a \in Addr : up[a] \/ (front = "balancer" /\ a # Initial[1])
  /\ front # "http" => ~dual

FrontendNext ==
  /\ UNCHANGED front
  /\ \/ /\ front = "proxy"
        /\ ProxyNext
        /\ UNCHANGED <<balancerVars, httpVars, jsVars>>
     \/ /\ front = "balancer"
        /\ BalancerNext
        /\ UNCHANGED <<proxyVars, httpVars, jsVars>>
     \/ /\ front = "http"
        /\ HttpNext
        /\ UNCHANGED <<proxyVars, balancerVars, jsVars>>
     \/ /\ front = "js"
        /\ JsNext
        /\ UNCHANGED <<proxyVars, balancerVars, httpVars>>

FrontendSpec == FrontendInit /\ [][FrontendNext]_frontendVars

(* What each variable of the four may hold.                                *)
FrontendTypeOK == ProxyTypeOK /\ BalancerTypeOK /\ HttpTypeOK /\ JsTypeOK

(* The cfg gives Client, Selector and Promise the same values.             *)
FrontendAlike == Permutations(Client \cup Selector \cup Promise)

-----------------------------------------------------------------------------
Location(covers, length, kind, upstream) ==
  [covers |-> covers, length |-> length, kind |-> kind, upstream |-> upstream]
MCPathOf == [k \in Key |-> "p"]
MCConfigs ==
  {<<Location({"p"}, 1, "upstream", "u1"), Location({"p"}, 2, "websocket", "u1"),
     Location({}, 2, "static", "u1")>>,
   <<Location({"p"}, 1, "upstream", "u1"), Location({"p"}, 2, "upstream", "u2")>>}
=============================================================================
