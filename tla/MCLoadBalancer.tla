--------------------------- MODULE MCLoadBalancer ---------------------------
(* Instances of LoadBalancer: no backend at first or one, and a session    *)
(* key whose backend is another one when a second is there.                *)
EXTENDS LoadBalancer

NoBackends == << >>
OneBackend == <<"a">>
Unweighted == [x \in Addr |-> 0]
Weighted == [x \in Addr |-> IF x = "a" THEN 2 ELSE 0]
MCHash == [s \in Session |-> 5]
=============================================================================
