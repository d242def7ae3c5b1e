----------------------------- MODULE HttpServer -----------------------------
(***************************************************************************)
(* HttpServer (engine/http-server): the accept loop with its semaphore of  *)
(* connections, one task for each connection, which parses requests, runs  *)
(* handlers and writes answers until the connection ends or becomes a      *)
(* WebSocket, and the shutdown of run by a CancellationToken.  run_dual    *)
(* has two loops, one for TLS, and no shutdown.                            *)
(*                                                                         *)
(* What a peer sends is a sequence of pieces: the head of a request, its   *)
(* body, a WebSocket frame.  One read returns any number of pieces.        *)
(***************************************************************************)
EXTENDS Integers, Sequences, FiniteSets

CONSTANTS
  Peer,          (* clients, with one connection each                      *)
  Patient,       (* those that wait for an answer before they ask again    *)
  Routes,        (* the router: a sequence of routes                       *)
  Params,        (* the segments of patterns that start with a colon       *)
  HttpRequests,  (* what peers may ask                                     *)
  Frames,        (* and send on a WebSocket: [opcode, fin, valid]          *)
  MaxOpen,       (* max_conns                                              *)
  MaxSent        (* bound, for model checking, on the requests of a peer   *)

ASSUME HttpAssumption ==
  /\ Patient \subseteq Peer
  /\ Routes \in Seq({Routes[i] : i \in DOMAIN Routes})
  /\ \A i \in DOMAIN Routes : Routes[i].kind \in {"http", "websocket"}
  /\ \A r \in HttpRequests : DOMAIN r = {"method", "segments", "key", "body", "keepAlive", "valid"}
  /\ MaxOpen \in Nat \ {0}
  /\ MaxSent \in Nat

VARIABLES
  dual,        (* run_dual or run                                          *)
  permits,     (* of the semaphore                                         *)
  cancelled,   (* the token                                                *)
  loop,        (* of run: accepting, draining, stopped                     *)
  link,        (* each peer's connection                                   *)
  sent,        (* the requests of each peer                                *)
  answers      (* what it was answered: pairs of request number and status *)

httpVars == <<dual, permits, cancelled, loop, link, sent, answers>>

(* stage: none, not connected; refused; handshake, of TLS; parsing; body,  *)
(* with the head parsed; handling; writing an answer; websocket; closed.   *)
(* unread: the pieces on their way; owed: the request whose body its peer  *)
(* has not sent yet; n: the request in hand.                               *)
OpenStages == {"handshake", "parsing", "body", "handling", "writing", "websocket"}
NoLink == [stage |-> "none", unread |-> << >>, owed |-> 0, n |-> 0, status |-> 0]
IsOpen(p) == link[p].stage \in OpenStages

-----------------------------------------------------------------------------
HttpInit ==
  /\ dual \in BOOLEAN
  /\ permits = MaxOpen
  /\ cancelled = FALSE
  /\ loop = "accepting"
  /\ link = [p \in Peer |-> NoLink]
  /\ sent = [p \in Peer |-> << >>]
  /\ answers = [p \in Peer |-> << >>]

(* A connection comes.  It is dropped at once when the token is cancelled  *)
(* (the loop may see the connection first) or no permit is free.           *)
Connected(p, secure) ==
  /\ loop = "accepting"
  /\ link[p].stage = "none"
  /\ secure => dual
  /\ IF cancelled \/ permits = 0
     THEN /\ link' = [link EXCEPT ![p].stage = "refused"]
          /\ UNCHANGED permits
     ELSE /\ link' = [link EXCEPT ![p].stage = IF secure THEN "handshake" ELSE "parsing"]
          /\ permits' = permits - 1
  /\ UNCHANGED <<dual, cancelled, loop, sent, answers>>

(* Mutant: the permit stays with the connection's slot.                    *)
ClosedWithPermit(p) ==
  /\ link' = [link EXCEPT ![p] = [NoLink EXCEPT !.stage = "closed"]]
  /\ UNCHANGED permits

(* The task of a connection ends, and with it the permit comes back.       *)
Closed(p) ==
  /\ link' = [link EXCEPT ![p] = [NoLink EXCEPT !.stage = "closed"]]
  /\ permits' = permits + 1

Continue(p, next) ==
  /\ link' = [link EXCEPT ![p] = next]
  /\ UNCHANGED permits

(* Nothing limits the time a handshake takes.                              *)
Handshake(p, succeeds) ==
  /\ link[p].stage = "handshake"
  /\ IF succeeds THEN Continue(p, [link[p] EXCEPT !.stage = "parsing"]) ELSE Closed(p)
  /\ UNCHANGED <<dual, cancelled, loop, sent, answers>>

(* External: the peers.  A request is sent head first.                     *)
SendRequest(p, r) ==
  LET n == Len(sent[p]) + 1 IN
  /\ IsOpen(p) /\ link[p].stage # "websocket"
  /\ n <= MaxSent
  /\ link[p].owed = 0
  /\ p \in Patient => Len(answers[p]) = Len(sent[p])
  /\ sent' = [sent EXCEPT ![p] = Append(@, r)]
  /\ link' = [link EXCEPT ![p].unread = Append(@, <<"head", n>>),
                          ![p].owed = IF r.body THEN n ELSE 0]
  /\ UNCHANGED <<dual, permits, cancelled, loop, answers>>

SendBody(p) ==
  /\ link[p].owed # 0
  /\ link' = [link EXCEPT ![p].unread = Append(@, <<"body", link[p].owed>>), ![p].owed = 0]
  /\ UNCHANGED <<dual, permits, cancelled, loop, sent, answers>>

SendFrame(p, f) ==
  /\ link[p].stage = "websocket"
  /\ link[p].unread = << >>
  /\ link' = [link EXCEPT ![p].unread = <<<<"frame", f>>>>]
  /\ UNCHANGED <<dual, permits, cancelled, loop, sent, answers>>

-----------------------------------------------------------------------------
(* match_route: the first route of the method that has a pattern of the    *)
(* same length, equal but for the parameters.                              *)
Fits(route, r) ==
  /\ route.method = r.method
  /\ Len(route.pattern) = Len(r.segments)
  /\ \A j \in DOMAIN route.pattern :
       route.pattern[j] \in Params \/ route.pattern[j] = r.segments[j]

Target(r) ==
  LET fitting == {i \in DOMAIN Routes : Fits(Routes[i], r)}
  IN  IF fitting = {} THEN "none"
      ELSE Routes[CHOOSE i \in fitting : \A j \in fitting : i <= j].kind

Writing(p, n, unread, status) ==
  [link[p] EXCEPT !.stage = "writing", !.unread = unread, !.n = n, !.status = status]

(* What becomes of request n, read to its end: an HTTP handler runs, or    *)
(* 101 (400 without a key) or 404 is written.                              *)
Dispatched(p, n, unread) ==
  LET r == sent[p][n]
      write(status) == Writing(p, n, unread, status)
  IN  CASE Target(r) = "http"      -> [write(0) EXCEPT !.stage = "handling"]
        [] Target(r) = "websocket" -> write(IF r.key THEN 101 ELSE 400)
        [] Target(r) = "none"      -> write(404)

Rest(s, k) == SubSeq(s, k + 1, Len(s))

(* Mutant: the body that came with the head stays where it was.            *)
ParseHeadOnly(p, k) ==
  LET unread == link[p].unread
      n == unread[1][2]
  IN
  /\ link[p].stage = "parsing"
  /\ k \in 1..Len(unread)
  /\ Continue(p, IF unread[1][1] = "head" /\ sent[p][n].valid
                 THEN Dispatched(p, n, Rest(unread, 1))
                 ELSE Writing(p, n, Rest(unread, k), 400))
  /\ UNCHANGED <<dual, cancelled, loop, sent, answers>>

(* parse_request: a read that has a whole head, and more of what was sent  *)
(* behind it, maybe.  If it has the body too, the request is complete.     *)
(* What else the buffer holds is lost.  Anything that is not a valid head  *)
(* gets the answer 400.                                                    *)
ParseRequest(p, k) ==
  LET unread == link[p].unread
      n == unread[1][2]
  IN
  /\ link[p].stage = "parsing"
  /\ k \in 1..Len(unread)
  /\ Continue(p,
       IF ~(unread[1][1] = "head" /\ sent[p][n].valid)
       THEN Writing(p, n, Rest(unread, k), 400)
       ELSE IF sent[p][n].body /\ k = 1
       THEN [link[p] EXCEPT !.stage = "body", !.unread = Rest(unread, 1), !.n = n]
       ELSE Dispatched(p, n, Rest(unread, k)))
  /\ UNCHANGED <<dual, cancelled, loop, sent, answers>>

(* The body that did not come with the head: Content-Length bytes, or the  *)
(* chunks up to the last.                                                  *)
ReadBody(p) ==
  /\ link[p].stage = "body"
  /\ link[p].unread # << >>
  /\ Continue(p, Dispatched(p, link[p].n, Rest(link[p].unread, 1)))
  /\ UNCHANGED <<dual, cancelled, loop, sent, answers>>

(* Mutant: there is a time limit for the head only.                        *)
IdleHeadTimeout(p) ==
  /\ link[p].stage = "parsing"
  /\ Closed(p)
  /\ UNCHANGED <<dual, cancelled, loop, sent, answers>>

(* parse_timeout is over, or the peer has closed (the answer 400 is then   *)
(* not received).                                                          *)
IdleTimeout(p) ==
  /\ link[p].stage \in {"parsing", "body"}
  /\ Closed(p)
  /\ UNCHANGED <<dual, cancelled, loop, sent, answers>>

(* The handler answers, or handler_timeout is over (504).                  *)
Handle(p, status) ==
  /\ link[p].stage = "handling"
  /\ Continue(p, [link[p] EXCEPT !.stage = "writing", !.status = status])
  /\ UNCHANGED <<dual, cancelled, loop, sent, answers>>

(* send_response, send_101_upgrade; a peer that does not read holds it up  *)
(* for as long as it likes.  400 ends the connection, 101 gives it to the  *)
(* WebSocket handler, and otherwise keep-alive decides.                    *)
WriteAnswer(p) ==
  LET q == link[p] IN
  /\ q.stage = "writing"
  /\ answers' = [answers EXCEPT ![p] = Append(@, <<q.n, q.status>>)]
  /\ IF q.status = 101 THEN Continue(p, [q EXCEPT !.stage = "websocket"])
     ELSE IF q.status # 400 /\ sent[p][q.n].keepAlive
     THEN Continue(p, [q EXCEPT !.stage = "parsing"])
     ELSE Closed(p)
  /\ UNCHANGED <<dual, cancelled, loop, sent>>

WriteFails(p) ==
  /\ link[p].stage = "writing"
  /\ Closed(p)
  /\ UNCHANGED <<dual, cancelled, loop, sent, answers>>

-----------------------------------------------------------------------------
(* next_message.  The first of several fragments has an opcode of its own  *)
(* and is taken for a message; only the next ones end the connection.      *)
NextMessage(f) ==
  CASE f.opcode = 8         -> "closed"
    [] f.opcode \in {9, 10} -> "control"
    [] f.opcode \in {1, 2}  -> IF f.valid THEN "message" ELSE "error"
    [] OTHER                -> IF f.fin THEN "error" ELSE "closed"

(* External: the handler goes on for as long as there are messages.        *)
NextFrame(p) ==
  LET unread == link[p].unread IN
  /\ link[p].stage = "websocket"
  /\ unread # << >>
  /\ IF unread[1][1] = "frame" /\ NextMessage(unread[1][2]) \in {"message", "control"}
     THEN Continue(p, [link[p] EXCEPT !.unread = Rest(@, 1)])
     ELSE Closed(p)
  /\ UNCHANGED <<dual, cancelled, loop, sent, answers>>

(* The handler returns, or the peer has gone.                              *)
LeaveWebSocket(p) ==
  /\ link[p].stage = "websocket"
  /\ Closed(p)
  /\ UNCHANGED <<dual, cancelled, loop, sent, answers>>

-----------------------------------------------------------------------------
Shutdown ==
  /\ ~dual /\ ~cancelled
  /\ cancelled' = TRUE
  /\ UNCHANGED <<dual, permits, loop, link, sent, answers>>

(* Mutant: a connection that is in a request is left alone.                *)
AbortIdle(p) ==
  /\ cancelled
  /\ link[p].stage = "parsing"
  /\ Closed(p)
  /\ UNCHANGED <<dual, cancelled, loop, sent, answers>>

(* The task of a connection sees the token, whatever it was doing.         *)
Abort(p) ==
  /\ cancelled
  /\ IsOpen(p)
  /\ Closed(p)
  /\ UNCHANGED <<dual, cancelled, loop, sent, answers>>

(* The loop sees it, and takes all permits before it returns.              *)
StartDraining ==
  /\ cancelled
  /\ loop = "accepting"
  /\ loop' = "draining"
  /\ UNCHANGED <<dual, permits, cancelled, link, sent, answers>>

(* Mutant: one free permit is enough.                                      *)
StopWithOnePermit ==
  /\ loop = "draining"
  /\ permits > 0
  /\ loop' = "stopped"
  /\ UNCHANGED <<dual, permits, cancelled, link, sent, answers>>

Stop ==
  /\ loop = "draining"
  /\ permits = MaxOpen
  /\ loop' = "stopped"
  /\ UNCHANGED <<dual, permits, cancelled, link, sent, answers>>

-----------------------------------------------------------------------------
Serve(p) == \/ \E k \in 1..(2 * MaxSent) : ParseRequest(p, k)
            \/ ReadBody(p)
            \/ IdleTimeout(p)
            \/ \E status \in {200, 504} : Handle(p, status)

HttpNext ==
  \/ \E p \in Peer :
       \/ \E secure \in BOOLEAN : Connected(p, secure)
       \/ \E succeeds \in BOOLEAN : Handshake(p, succeeds)
       \/ \E r \in HttpRequests : SendRequest(p, r)
       \/ SendBody(p)
       \/ \E f \in Frames : SendFrame(p, f)
       \/ Serve(p)
       \/ WriteAnswer(p) \/ WriteFails(p)
       \/ NextFrame(p) \/ LeaveWebSocket(p)
       \/ Abort(p)
  \/ Shutdown \/ StartDraining \/ Stop

(* Timeouts come, and a cancelled token is seen.  Nothing makes a peer     *)
(* read, finish a handshake or leave a WebSocket.                          *)
HttpFairness ==
  /\ \A p \in Peer : WF_httpVars(Serve(p)) /\ WF_httpVars(Abort(p))
  /\ WF_httpVars(StartDraining) /\ WF_httpVars(Stop)

HttpSafety == HttpInit /\ [][HttpNext]_httpVars

HttpSpec == HttpSafety /\ HttpFairness

-----------------------------------------------------------------------------
(* What each variable may hold; every open connection has one permit.      *)
HttpTypeOK ==
  /\ dual \in BOOLEAN /\ cancelled \in BOOLEAN
  /\ loop \in {"accepting", "draining", "stopped"}
  /\ permits \in 0..MaxOpen
  /\ permits + Cardinality({p \in Peer : IsOpen(p)}) = MaxOpen
  /\ \A p \in Peer : link[p].stage \in OpenStages \cup {"none", "refused", "closed"}
  /\ \A p \in Peer : sent[p] \in Seq(HttpRequests) /\ Len(sent[p]) <= MaxSent

(* A peer that waits for its answers gets them for its requests, in order, *)
(* each once; one that does not may lose requests, but gets no answer      *)
(* twice nor out of order.  However the bytes are cut into reads.          *)
AnswersInOrder ==
  \A p \in Peer : \A i \in DOMAIN answers[p] :
    IF p \in Patient THEN answers[p][i][1] = i
    ELSE i > 1 => answers[p][i - 1][1] < answers[p][i][1]

(* When run has returned, no connection of it is served any more.          *)
StopIsComplete == loop = "stopped" => \A p \in Peer : ~IsOpen(p)

(* A shutdown ends, also when peers do not read, or keep a WebSocket.      *)
ShutdownEnds == <>[](cancelled => loop = "stopped")

(* A connection does not wait for ever for its peer to ask, nor keep its   *)
(* permit: once a peer asks no more, it is closed, or held up by a peer    *)
(* that does not take an answer, finish a handshake or leave a WebSocket.  *)
ConnectionsEnd ==
  \A p \in Peer :
    <>[](IsOpen(p) => link[p].stage \in {"handshake", "writing", "websocket"})

(* run "waits for every in-flight connection to finish before returning":  *)
(* a request whose handler runs is answered.                               *)
InFlightFinishes ==
  [][\A p \in Peer : link[p].stage = "handling" => link'[p].stage \in {"handling", "writing"}]_httpVars
=============================================================================
