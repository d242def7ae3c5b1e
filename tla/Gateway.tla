------------------------------ MODULE Gateway -------------------------------
(***************************************************************************)
(* The gateway (core/gateway) with its sliding-window limiters             *)
(* (engine/rate-limiter): a request runs through the pipeline it was given *)
(* when it came, AuthPlugin, RateLimitPlugin, TransformPlugin and          *)
(* ResilientPassthroughPlugin, while others do and while the configuration *)
(* file is reloaded.                                                       *)
(*                                                                         *)
(* Headers, bodies and paths rewritten by TransformPlugin decide nothing   *)
(* here and are left out; JWT verification and the upstream are external.  *)
(***************************************************************************)
EXTENDS Integers, Sequences, FiniteSets

CONSTANTS
  Conn,           (* request handlers                                      *)
  Request,        (* what may be asked: path, API key, subject, address    *)
  PipeConfigs,    (* the configurations the file may hold                  *)
  WindowLength,   (* the limiters' window_duration (60 s in the code)      *)
  MaxReloads, MaxLimiters, MaxGateNow   (* bounds, for model checking      *)

Nobody   == "nobody"    (* no API key; no valid token                      *)
NoLimit  == -1          (* no prefix of the path has a limit               *)
NoObject == 0           (* no limiter yet                                  *)

ASSUME GatewayAssumption ==
  /\ \A r \in Request : DOMAIN r = {"path", "apiKey", "sub", "ip"}
  /\ \A p \in PipeConfigs :
       /\ p.auth \in BOOLEAN
       /\ p.maxRetries \in Nat
       /\ IsFiniteSet(p.limits)
       /\ \A rule \in p.limits : rule.length \in Nat /\ rule.limit \in Nat
  /\ WindowLength \in Nat \ {0}
  /\ MaxReloads \in Nat
  /\ MaxLimiters \in Nat
  /\ MaxGateNow \in Nat

VARIABLES
  pipelines,   (* the pipelines built so far; the last one is in service   *)
  limiters,    (* for each of them, limit -> the limiter that has it       *)
  windows,     (* each limiter ever made: its limit, its logs, one for a   *)
               (* key, and (history) when its admitted calls were made     *)
  request,     (* the requests in the pipeline                             *)
  gateNow

gatewayVars == <<pipelines, limiters, windows, request, gateNow>>

Limits == {rule.limit : rule \in UNION {p.limits : p \in PipeConfigs}}
Keys == {<<"api-key", r.apiKey>> : r \in Request} \cup {<<"user", r.sub>> : r \in Request}
          \cup {<<"ip", r.ip>> : r \in Request}

(* stage: idle; limit, to find its limiter; creating, having found none;   *)
(* stamped, to be counted; sending; waiting out a backoff; reading a body. *)
GateStages == {"idle", "limit", "creating", "stamped", "sending", "waiting", "body"}
NoRequest == [stage |-> "idle", pipe |-> 1, limit |-> NoLimit, key |-> <<"ip", Nobody>>,
              object |-> NoObject, stamp |-> 0, attempts |-> 0]

-----------------------------------------------------------------------------
GatewayInit ==
  /\ pipelines \in {<<p>> : p \in PipeConfigs}
  /\ limiters = <<[l \in Limits |-> NoObject]>>
  /\ windows = << >>
  /\ request = [c \in Conn |-> NoRequest]
  /\ gateNow = 0

(* AuthPlugin: no auth section, a bypassed prefix or a valid token.        *)
Passes(p, r) == ~p.auth \/ r.path \in p.bypass \/ r.sub # Nobody

(* The limit of the longest prefix.                                        *)
LimitOf(p, r) ==
  LET rules == {rule \in p.limits : r.path \in rule.covers}
  IN  IF rules = {} THEN NoLimit
      ELSE (CHOOSE rule \in rules : \A other \in rules : other.length <= rule.length).limit

(* API key, else the authenticated subject, else the address.              *)
KeyOf(p, r) ==
  IF r.apiKey # Nobody THEN <<"api-key", r.apiKey>>
  ELSE IF p.auth /\ r.path \notin p.bypass THEN <<"user", r.sub>>
  ELSE <<"ip", r.ip>>

Forward(pipe) == [NoRequest EXCEPT !.stage = "sending", !.pipe = pipe]

(* A handler takes the pipeline in service and keeps it.  (Rejected with   *)
(* 401, a request changes nothing.)  Where there is no limit, and where    *)
(* the limit is 0, which no limiter can be made for, it is let through.    *)
Accept(c, r) ==
  LET p == pipelines[Len(pipelines)]
      l == LimitOf(p, r)
  IN
  /\ request[c].stage = "idle"
  /\ Passes(p, r)
  /\ request' = [request EXCEPT ![c] =
       IF l \in {NoLimit, 0} THEN Forward(Len(pipelines))
       ELSE [NoRequest EXCEPT !.stage = "limit", !.pipe = Len(pipelines), !.limit = l,
                              !.key = KeyOf(p, r)]]
  /\ UNCHANGED <<pipelines, limiters, windows, gateNow>>

(* limiter_for: a limiter for the limit is looked up, and where there is   *)
(* none, made and put there in another step.  The call is stamped before   *)
(* the lock on the key's log is taken.                                     *)
Stamp(c, object) ==
  request' = [request EXCEPT ![c].stage = "stamped", ![c].object = object,
                             ![c].stamp = gateNow]

FindLimiter(c) ==
  LET q == request[c]
      found == limiters[q.pipe][q.limit]
  IN
  /\ q.stage = "limit"
  /\ IF found # NoObject THEN Stamp(c, found)
                         ELSE request' = [request EXCEPT ![c].stage = "creating"]
  /\ UNCHANGED <<pipelines, limiters, windows, gateNow>>

NewLimiter(l) ==
  [limit |-> l, logs |-> [k \in Keys |-> << >>], made |-> [k \in Keys |-> << >>]]

CreateLimiter(c) ==
  LET q == request[c] IN
  /\ q.stage = "creating"
  /\ Len(windows) < MaxLimiters
  /\ windows' = Append(windows, NewLimiter(q.limit))
  /\ limiters' = [limiters EXCEPT ![q.pipe][q.limit] = Len(windows)']
  /\ Stamp(c, Len(windows)')
  /\ UNCHANGED <<pipelines, gateNow>>

(* Mutant: a call expires one unit of time too soon.                       *)
DrainEarly(log, now) ==
  LET fresh == {i \in DOMAIN log : now - log[i] < WindowLength - 1}
  IN  IF fresh = {} THEN << >>
      ELSE SubSeq(log, CHOOSE i \in fresh : \A j \in fresh : i <= j, Len(log))

(* drain_expired stops at the first call that has not expired.             *)
DrainExpired(log, now) ==
  LET fresh == {i \in DOMAIN log : now - log[i] < WindowLength}
  IN  IF fresh = {} THEN << >>
      ELSE SubSeq(log, CHOOSE i \in fresh : \A j \in fresh : i <= j, Len(log))

(* check_key_at, under the lock of the key's log: what has expired goes,   *)
(* and the call is admitted if there is room, or answered 429.             *)
CheckKey(c) ==
  LET q == request[c]
      w == windows[q.object]
      log == DrainExpired(w.logs[q.key], q.stamp)
      admitted == Len(log) < w.limit
  IN
  /\ q.stage = "stamped"
  /\ windows' = [windows EXCEPT
       ![q.object].logs[q.key] = IF admitted THEN Append(log, q.stamp) ELSE log,
       ![q.object].made[q.key] = IF admitted THEN Append(@, <<q.stamp, gateNow>>) ELSE @]
  /\ request' = [request EXCEPT ![c] = IF admitted THEN Forward(q.pipe) ELSE NoRequest]
  /\ UNCHANGED <<pipelines, limiters, gateNow>>

(* The upstream answers with less than 500, or with 5xx the last time: its *)
(* body is read, with no time limit of its own.                            *)
Respond(c) ==
  /\ request[c].stage = "sending"
  /\ request' = [request EXCEPT ![c].stage = "body"]
  /\ UNCHANGED <<pipelines, limiters, windows, gateNow>>

(* The body has come, or its end is an error and the response goes out     *)
(* empty.                                                                  *)
FinishBody(c) ==
  /\ request[c].stage = "body"
  /\ request' = [request EXCEPT ![c] = NoRequest]
  /\ UNCHANGED <<pipelines, limiters, windows, gateNow>>

RetriesLeft(q) == q.attempts < pipelines[q.pipe].maxRetries

(* Mutant: a failure is retried and not counted.                           *)
FailUncounted(c) ==
  /\ request[c].stage = "sending"
  /\ request' = [request EXCEPT ![c] =
       IF RetriesLeft(@) THEN [@ EXCEPT !.stage = "waiting"] ELSE NoRequest]
  /\ UNCHANGED <<pipelines, limiters, windows, gateNow>>

(* 5xx, a timeout or a network error: it is tried again after a backoff,   *)
(* until the retries are used up, when the answer is 502 (for 5xx, see     *)
(* Respond).                                                               *)
Fail(c) ==
  LET q == request[c] IN
  /\ q.stage = "sending"
  /\ request' = [request EXCEPT ![c] =
       IF RetriesLeft(q) THEN [q EXCEPT !.stage = "waiting", !.attempts = q.attempts + 1]
                         ELSE NoRequest]
  /\ UNCHANGED <<pipelines, limiters, windows, gateNow>>

Resend(c) ==
  /\ request[c].stage = "waiting"
  /\ request' = [request EXCEPT ![c].stage = "sending"]
  /\ UNCHANGED <<pipelines, limiters, windows, gateNow>>

(* The gateway is a handler of HttpServer, which drops it at an await when *)
(* handler_timeout is over (and answers 504).                              *)
DropHandler(c) ==
  /\ request[c].stage \in {"sending", "waiting", "body"}
  /\ request' = [request EXCEPT ![c] = NoRequest]
  /\ UNCHANGED <<pipelines, limiters, windows, gateNow>>

(* The file has changed and holds a valid configuration.  The new pipeline *)
(* has no limiters yet.                                                    *)
ReloadPipeline(p) ==
  /\ Len(pipelines) <= MaxReloads
  /\ pipelines' = Append(pipelines, p)
  /\ limiters' = Append(limiters, [l \in Limits |-> NoObject])
  /\ UNCHANGED <<windows, request, gateNow>>

GatewayTick ==
  /\ gateNow < MaxGateNow
  /\ gateNow' = gateNow + 1
  /\ UNCHANGED <<pipelines, limiters, windows, request>>

Proceed(c) == \/ FindLimiter(c) \/ CreateLimiter(c) \/ CheckKey(c)
              \/ Respond(c) \/ Fail(c) \/ Resend(c)

GatewayNext ==
  \/ \E c \in Conn : \/ \E r \in Request : Accept(c, r)
                     \/ Proceed(c)
                     \/ FinishBody(c) \/ DropHandler(c)
  \/ \E p \in PipeConfigs : ReloadPipeline(p)
  \/ GatewayTick

(* A handler runs on: sending ends by the timeout at the latest, and a     *)
(* backoff passes.  The pipeline itself does nothing to end the reading of *)
(* a body, and is not to rely on DropHandler.                              *)
GatewayFairness == \A c \in Conn : WF_gatewayVars(Proceed(c))

GatewaySafety == GatewayInit /\ [][GatewayNext]_gatewayVars

GatewaySpec == GatewaySafety /\ GatewayFairness

-----------------------------------------------------------------------------
(* What each variable may hold.                                            *)
GatewayTypeOK ==
  /\ pipelines \in Seq(PipeConfigs)
  /\ limiters \in Seq([Limits -> 0..Len(windows)])
  /\ Len(limiters) = Len(pipelines)
  /\ \A i \in DOMAIN windows :
       /\ windows[i].limit \in Limits \ {0}
       /\ windows[i].logs \in [Keys -> Seq(Nat)]
       /\ \A k \in Keys : Len(windows[i].logs[k]) <= windows[i].limit
  /\ request \in [Conn -> [stage : GateStages, pipe : DOMAIN pipelines,
                           limit : Limits \cup {NoLimit, 0}, key : Keys \cup {<<"ip", Nobody>>},
                           object : 0..Len(windows), stamp : Nat, attempts : Nat]]
  /\ gateNow \in Nat

(* No more than limit calls of a key are both made and admitted by one     *)
(* limiter within any window_duration, though calls are stamped before     *)
(* they get the lock and enter the log out of order.                       *)
WindowBound ==
  \A i \in DOMAIN windows : \A k \in Keys : \A from \in 0..gateNow :
    LET made == windows[i].made[k]
    IN  Cardinality({n \in DOMAIN made : /\ made[n][1] >= from
                                         /\ made[n][2] < from + WindowLength})
          <= windows[i].limit

(* No request stays in the pipeline for ever: whatever the upstream and    *)
(* the watcher do, and also when the server does not drop it, its retries  *)
(* come to an end and it is answered, unless the body of a response never  *)
(* ends (or, in the model, there are MaxLimiters limiters).                *)
RequestsAnswered ==
  \A c \in Conn :
    []<>(\/ request[c].stage \in {"idle", "body"}
         \/ request[c].stage = "creating" /\ Len(windows) = MaxLimiters)
=============================================================================
