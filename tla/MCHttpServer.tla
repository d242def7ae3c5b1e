---------------------------- MODULE MCHttpServer ----------------------------
(* An instance of HttpServer: routes of which one is never reached, and a  *)
(* request for each way through the server.                                *)
EXTENDS HttpServer

Serves(method, pattern, kind) == [method |-> method, pattern |-> pattern, kind |-> kind]
Get(segments, key, keepAlive, valid) ==
  [method |-> "GET", segments |-> segments, key |-> key, body |-> FALSE,
   keepAlive |-> keepAlive, valid |-> valid]
MCRoutes == <<Serves("POST", <<"jobs">>, "http"), Serves("GET", <<"users", ":id">>, "http"),
              Serves("GET", <<"users", "live">>, "websocket"),
              Serves("GET", <<"live">>, "websocket")>>
MCHttpRequests ==
  {[method |-> "POST", segments |-> <<"jobs">>, key |-> FALSE, body |-> TRUE,
    keepAlive |-> TRUE, valid |-> TRUE],
   Get(<<"users", "live">>, FALSE, FALSE, TRUE),
   Get(<<"live">>, TRUE, TRUE, TRUE), Get(<<"live">>, FALSE, TRUE, TRUE),
   Get(<<"unknown">>, FALSE, TRUE, TRUE), Get(<<"unknown">>, FALSE, TRUE, FALSE)}
MCFrames == {[opcode |-> 1, fin |-> TRUE, valid |-> TRUE],
             [opcode |-> 0, fin |-> FALSE, valid |-> TRUE],
             [opcode |-> 8, fin |-> TRUE, valid |-> TRUE]}
=============================================================================
