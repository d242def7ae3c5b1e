----------------------------- MODULE MCGateway ------------------------------
(* An instance of Gateway: two requests, and a configuration with and one  *)
(* without authentication, with a limit of 0 among their limits.           *)
EXTENDS Gateway

Ask(path, apiKey, sub, ip) == [path |-> path, apiKey |-> apiKey, sub |-> sub, ip |-> ip]
Limit(covers, length, limit) == [covers |-> covers, length |-> length, limit |-> limit]
MCRequest == {Ask("/a", Nobody, "ann", "ip1"), Ask("/b", Nobody, Nobody, "ip1")}
MCPipeConfigs ==
  {[auth |-> TRUE, bypass |-> {}, limits |-> {Limit({"/a", "/b"}, 1, 2)}, maxRetries |-> 1],
   [auth |-> FALSE, bypass |-> {}, maxRetries |-> 0,
    limits |-> {Limit({"/a", "/b"}, 1, 2), Limit({"/b"}, 2, 0)}]}
=============================================================================
