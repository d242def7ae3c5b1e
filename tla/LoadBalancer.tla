---------------------------- MODULE LoadBalancer ----------------------------
(***************************************************************************)
(* BackendPool (engine/load-balancer): the vector of backends behind a     *)
(* read-write lock, the map of sticky sessions, each shard of it behind a  *)
(* lock of its own, the threads that select backends, and the tasks that   *)
(* drain a backend, probe all of them and clean the sessions up.           *)
(*                                                                         *)
(* A lock that a step takes and gives back is held in that step only.  Two *)
(* are held longer: a selection that finds its session keeps the shard     *)
(* until it has read the backend vector, and a removal keeps the vector    *)
(* locked for writing until it has been through all shards.                *)
(***************************************************************************)
EXTENDS Integers, Sequences, FiniteSets

CONSTANTS
  Selector,      (* threads that select a backend and connect to it        *)
  Session,       (* session keys; each is in a shard of its own            *)
  Addr,
  Initial,       (* the backends added at start: a sequence of addresses   *)
  Weight,        (* of each address                                        *)
  Hash,          (* fnv1a_hash of each session key                         *)
  CounterSize,   (* number of values of rr_counter, which wraps around     *)
  MaxBackends,   (* bounds, for model checking, on backends ever added, on *)
  MaxConns,      (* connections to one, and on changes of what /health of  *)
  MaxFlips       (* a backend answers                                      *)

NoSession == "none"

ASSUME BalancerAssumption ==
  /\ NoSession \notin Session
  /\ Addr # {}
  /\ Initial \in Seq(Addr)
  /\ Weight \in [Addr -> Nat]
  /\ Hash \in [Session -> Nat]
  /\ CounterSize \in Nat \ {0}
  /\ MaxBackends \in Nat /\ Len(Initial) <= MaxBackends
  /\ MaxConns \in Nat
  /\ MaxFlips \in Nat

Object == 1..MaxBackends     (* Arc<Backend>s, in the order they are made  *)
Unheld == 0                  (* no object; no holder of the write lock     *)

VARIABLES
  made,        (* how many backends have been made                         *)
  backend,     (* each backend                                             *)
  pool,        (* the vector                                               *)
  writer,      (* the backend whose drain task holds it for writing        *)
  swept,       (* the shards that task has been through                    *)
  task,        (* the drain task of each backend                           *)
  session,     (* the entry of each key, as a set of 0 or 1                *)
  holder,      (* the selectors (0 or 1) that hold each shard              *)
  selector,
  counter,     (* rr_counter                                               *)
  checks,      (* the probes of the health checker's round                 *)
  up,          (* what /health of each address would answer                *)
  flips,       (* how often that has changed                               *)
  last,        (* history: the backends (0 or 1) a session has to stay at  *)
  moved        (* history: a session that had to stay was moved            *)

balancerVars == <<made, backend, pool, writer, swept, task, session, holder, selector,
                  counter, checks, up, flips, last, moved>>

(* stage: idle; entry, holding the shard of its session; hash; snapshot,   *)
(* to take the routable backends; pick, to take one of list; find, to look *)
(* chosen up by its address; upsert; forget; chosen.  steady (history): no backend *)
(* was removed since the selection began.                                  *)
SelectorStages == {"idle", "entry", "hash", "snapshot", "pick", "find", "upsert", "forget",
                   "chosen"}
NotSelecting == [stage |-> "idle", key |-> NoSession, list |-> << >>, index |-> 0,
                 chosen |-> Unheld, steady |-> TRUE]

NewBackend(a) == [addr |-> a, healthy |-> TRUE, draining |-> FALSE, conns |-> 0]

(* The backends of S as retain and filter leave them in the vector, whose  *)
(* order is always that in which its backends were made.                   *)
InOrder(S) ==
  CHOOSE list \in [1..Cardinality(S) -> S] :
    /\ {list[i] : i \in DOMAIN list} = S
    /\ \A i, j \in DOMAIN list : i < j => list[i] < list[j]

InPool(o) == o \in {pool[i] : i \in DOMAIN pool}
Routable(o) == backend[o].healthy /\ ~backend[o].draining

(* healthy_backends                                                        *)
RoutableList == InOrder({o \in Object : InPool(o) /\ Routable(o)})

-----------------------------------------------------------------------------
BalancerInit ==
  /\ made = Len(Initial)
  /\ backend = [o \in Object |-> NewBackend(IF o <= Len(Initial) THEN Initial[o]
                                            ELSE CHOOSE a \in Addr : TRUE)]
  /\ pool = [i \in 1..Len(Initial) |-> i]
  /\ writer = Unheld
  /\ swept = {}
  /\ task = [o \in Object |-> "none"]
  /\ session = [s \in Session |-> {}]
  /\ holder = [s \in Session |-> {}]
  /\ selector = [t \in Selector |-> NotSelecting]
  /\ counter = 0
  /\ checks = [o \in Object |-> "none"]
  /\ up \in [Addr -> BOOLEAN]
  /\ flips = 0
  /\ last = [s \in Session |-> {}]
  /\ moved = FALSE

unselecting == <<session, holder, selector, counter, last, moved>>

Add(a) ==
  /\ writer = Unheld
  /\ made < MaxBackends
  /\ made' = made + 1
  /\ backend' = [backend EXCEPT ![made + 1] = NewBackend(a)]
  /\ pool' = Append(pool, made + 1)
  /\ UNCHANGED <<writer, swept, task, checks, up, flips, unselecting>>

(* drain_backend: the first backend of the address that is in the pool.    *)
(* (Where there is none, or it is draining already, nothing changes.)  The *)
(* lookup and the compare_exchange are one step: all that could come       *)
(* between is another drain of the same backend, with which the exchange   *)
(* fails, for nothing else takes a backend of the address out of the pool. *)
Drain(a) ==
  /\ writer = Unheld
  /\ \E i \in DOMAIN pool :
       /\ backend[pool[i]].addr = a
       /\ \A j \in 1..(i - 1) : backend[pool[j]].addr # a
       /\ ~backend[pool[i]].draining
       /\ backend' = [backend EXCEPT ![pool[i]].draining = TRUE]
       /\ task' = [task EXCEPT ![pool[i]] = "draining"]
  /\ UNCHANGED <<made, pool, writer, swept, checks, up, flips, unselecting>>

(* Mutant: time is up only for a backend without connections.              *)
TimeUpIfIdle(o) ==
  /\ task[o] = "draining"
  /\ backend[o].conns = 0
  /\ task' = [task EXCEPT ![o] = "late"]
  /\ UNCHANGED <<made, backend, pool, writer, swept, checks, up, flips, unselecting>>

(* The 60 s are over.                                                      *)
TimeUp(o) ==
  /\ task[o] = "draining"
  /\ task' = [task EXCEPT ![o] = "late"]
  /\ UNCHANGED <<made, backend, pool, writer, swept, checks, up, flips, unselecting>>

(* The task finds no connection left, or its time is up: remove takes all  *)
(* backends of the address out of the vector, ...                          *)
StartRemove(o) ==
  /\ task[o] = "late" \/ (task[o] = "draining" /\ backend[o].conns = 0)
  /\ writer = Unheld
  /\ writer' = o
  /\ swept' = {}
  /\ task' = [task EXCEPT ![o] = "removing"]
  /\ pool' = InOrder({x \in Object : InPool(x) /\ backend[x].addr # backend[o].addr})
  /\ last' = [s \in Session |-> {}]
  /\ selector' = [t \in Selector |->
       [selector[t] EXCEPT !.steady = selector[t].stage \in {"idle", "chosen"}]]
  /\ UNCHANGED <<made, backend, checks, up, flips, session, holder, counter, moved>>

(* ... and then, the vector still locked, goes through the sessions, shard *)
(* by shard, and drops those with an index past the end of it.             *)
SweepShard(o, s) ==
  /\ writer = o
  /\ s \notin swept
  /\ holder[s] = {}
  /\ session' = [session EXCEPT ![s] = {e \in @ : e.index <= Len(pool)}]
  /\ swept' = swept \cup {s}
  /\ UNCHANGED <<made, backend, pool, writer, task, holder, selector, counter, checks, up, flips,
                 last, moved>>

FinishRemove(o) ==
  /\ writer = o
  /\ swept = Session
  /\ writer' = Unheld
  /\ swept' = {}
  /\ task' = [task EXCEPT ![o] = "done"]
  /\ UNCHANGED <<made, backend, pool, checks, up, flips, unselecting>>

-----------------------------------------------------------------------------
Goto(t, stage) == selector' = [selector EXCEPT ![t].stage = stage]

notSelecting == <<made, pool, writer, swept, task, checks, up, flips>>

(* next_round_robin, or next_weighted_round_robin, or next_sticky without  *)
(* sticky sessions: a snapshot of the routable backends, each as often as  *)
(* it weighs, ...                                                          *)
Expanded(list) ==
  LET Copies(n, o) == [i \in 1..n |-> o]
      AtLeastOne(n) == IF n < 1 THEN 1 ELSE n
      from[i \in 0..Len(list)] ==
        IF i = 0 THEN << >>
        ELSE from[i - 1] \o Copies(AtLeastOne(Weight[backend[list[i]].addr]), list[i])
  IN  from[Len(list)]

Snapshot(t, weighted) ==
  LET list == IF weighted THEN Expanded(RoutableList) ELSE RoutableList IN
  /\ writer = Unheld
  /\ \/ selector[t].stage = "idle"
     \/ selector[t].stage = "snapshot" /\ ~weighted
  /\ selector' = [selector EXCEPT
       ![t] = IF list = << >> THEN NotSelecting
              ELSE [@ EXCEPT !.stage = "pick", !.list = list]]
  /\ UNCHANGED <<notSelecting, backend, session, holder, counter, last, moved>>

(* ... and a turn of the counter.                                          *)
Pick(t) ==
  LET q == selector[t] IN
  /\ q.stage = "pick"
  /\ counter' = (counter + 1) % CounterSize
  /\ selector' = [selector EXCEPT ![t] =
       [@ EXCEPT !.chosen = q.list[1 + (counter % Len(q.list))], !.list = << >>,
                 !.stage = IF q.key = NoSession THEN "chosen" ELSE "find"]]
  /\ UNCHANGED <<notSelecting, backend, session, holder, last, moved>>

(* next_least_connections: the first with the fewest.                      *)
LeastConnections(t) ==
  LET list == RoutableList IN
  /\ writer = Unheld
  /\ selector[t].stage = "idle"
  /\ \E i \in DOMAIN list :
       /\ \A j \in DOMAIN list :
            \/ backend[list[i]].conns < backend[list[j]].conns
            \/ backend[list[i]].conns = backend[list[j]].conns /\ i <= j
       /\ selector' = [selector EXCEPT ![t].stage = "chosen", ![t].chosen = list[i]]
  /\ UNCHANGED <<notSelecting, backend, session, holder, counter, last, moved>>

-----------------------------------------------------------------------------
Twice(a) == Cardinality({i \in DOMAIN pool : backend[pool[i]].addr = a}) > 1

(* The selection of t for s ends with o.  (History: s has to stay there,   *)
(* unless o is unhealthy by now, its address is there twice, or a removal  *)
(* or another selection for s interfered.)                                 *)
Selected(t, s, o) ==
  /\ selector' = [selector EXCEPT ![t] = [NotSelecting EXCEPT !.stage = "chosen", !.chosen = o]]
  /\ last' = [last EXCEPT ![s] =
       IF /\ selector[t].steady
          /\ backend[o].healthy
          /\ ~Twice(backend[o].addr)
          /\ \A x \in Selector \ {t} : selector[x].key # s
       THEN {o} ELSE {}]
  /\ moved' = (moved \/ (last[s] # {} /\ o \notin last[s]))

(* Mutant: the entry is not asked.                                         *)
HashAtOnce(t, s) ==
  /\ selector[t].stage = "idle"
  /\ holder[s] = {}
  /\ selector' = [selector EXCEPT ![t].key = s, ![t].stage = "hash"]
  /\ UNCHANGED <<notSelecting, backend, session, holder, counter, last, moved>>

(* select_sticky_backend: an entry that has not expired is kept locked.    *)
FindSession(t, s) ==
  /\ selector[t].stage = "idle"
  /\ holder[s] = {}
  /\ \E live \in BOOLEAN :
       /\ live <=> \E e \in session[s] : ~e.expired
       /\ selector' = [selector EXCEPT ![t].key = s, ![t].stage = IF live THEN "entry" ELSE "hash"]
       /\ holder' = IF live THEN [holder EXCEPT ![s] = {t}] ELSE holder
  /\ UNCHANGED <<notSelecting, backend, session, counter, last, moved>>

(* healthy_backend_at_index: draining is not asked about.                  *)
FollowSession(t) ==
  LET s == selector[t].key IN
  /\ selector[t].stage = "entry"
  /\ writer = Unheld
  /\ \E e \in session[s] :
       IF e.index <= Len(pool) /\ backend[pool[e.index]].healthy
       THEN /\ Selected(t, s, pool[e.index])
            /\ session' = [session EXCEPT ![s] = {[e EXCEPT !.expired = FALSE]}]
       ELSE /\ Goto(t, "hash")
            /\ UNCHANGED <<session, last, moved>>
  /\ holder' = [holder EXCEPT ![s] = {}]
  /\ UNCHANGED <<notSelecting, backend, counter>>

(* The backend the key hashes to, if it is healthy; else a turn of round   *)
(* robin.  With no backend at all the entry goes, in a step of its own.    *)
HashSession(t) ==
  LET s == selector[t].key
      i == 1 + (Hash[s] % Len(pool))
  IN
  /\ selector[t].stage = "hash"
  /\ writer = Unheld
  /\ IF pool = << >> THEN Goto(t, "forget")
     ELSE IF backend[pool[i]].healthy
     THEN selector' = [selector EXCEPT ![t].stage = "upsert", ![t].index = i,
                                       ![t].chosen = pool[i]]
     ELSE Goto(t, "snapshot")
  /\ UNCHANGED <<notSelecting, backend, session, holder, counter, last, moved>>

ForgetSession(t) ==
  LET s == selector[t].key IN
  /\ selector[t].stage = "forget"
  /\ holder[s] = {}
  /\ session' = [session EXCEPT ![s] = {}]
  /\ selector' = [selector EXCEPT ![t] = NotSelecting]
  /\ UNCHANGED <<notSelecting, backend, holder, counter, last, moved>>

(* backend_index_by_address: the first of the address, if there still is   *)
(* one.                                                                    *)
FindIndex(t) ==
  LET same == {i \in DOMAIN pool : backend[pool[i]].addr = backend[selector[t].chosen].addr} IN
  /\ selector[t].stage = "find"
  /\ writer = Unheld
  /\ selector' = [selector EXCEPT ![t] =
       IF same = {} THEN NotSelecting
       ELSE [@ EXCEPT !.stage = "upsert", !.index = CHOOSE i \in same : \A j \in same : i <= j]]
  /\ UNCHANGED <<notSelecting, backend, session, holder, counter, last, moved>>

UpsertSession(t) ==
  LET s == selector[t].key IN
  /\ selector[t].stage = "upsert"
  /\ holder[s] = {}
  /\ session' = [session EXCEPT ![s] = {[index |-> selector[t].index, expired |-> FALSE]}]
  /\ Selected(t, s, selector[t].chosen)
  /\ UNCHANGED <<notSelecting, backend, holder, counter>>

(* The entry's time is up, and the cleanup task drops it.                  *)
SessionExpires(s) ==
  /\ \E e \in session[s] : ~e.expired
  /\ session' = [session EXCEPT ![s] = {[e EXCEPT !.expired = TRUE] : e \in @}]
  /\ last' = [last EXCEPT ![s] = {}]
  /\ UNCHANGED <<notSelecting, backend, holder, selector, counter, moved>>

CleanSession(s) ==
  /\ holder[s] = {}
  /\ \E e \in session[s] : e.expired
  /\ session' = [session EXCEPT ![s] = {}]
  /\ UNCHANGED <<notSelecting, backend, holder, selector, counter, last, moved>>

-----------------------------------------------------------------------------
(* External: who selected a backend connects to it, or does not, and       *)
(* disconnects some time.                                                  *)
Connect(t, connects) ==
  LET o == selector[t].chosen IN
  /\ selector[t].stage = "chosen"
  /\ connects => backend[o].conns < MaxConns
  /\ backend' = IF connects THEN [backend EXCEPT ![o].conns = @ + 1] ELSE backend
  /\ selector' = [selector EXCEPT ![t] = NotSelecting]
  /\ UNCHANGED <<notSelecting, session, holder, counter, last, moved>>

Disconnect(o) ==
  /\ backend[o].conns > 0
  /\ backend' = [backend EXCEPT ![o].conns = @ - 1]
  /\ UNCHANGED <<notSelecting, unselecting>>

UpOrDown(a) ==
  /\ flips < MaxFlips
  /\ flips' = flips + 1
  /\ up' = [up EXCEPT ![a] = ~@]
  /\ UNCHANGED <<made, backend, pool, writer, swept, task, checks, unselecting>>

(* Mutant: only what is routable is probed.                                *)
StartRoundOfRoutable ==
  /\ writer = Unheld
  /\ \A o \in Object : checks[o] = "none"
  /\ pool # << >>
  /\ checks' = [o \in Object |-> IF InPool(o) /\ Routable(o) THEN "sent" ELSE "none"]
  /\ UNCHANGED <<made, backend, pool, writer, swept, task, up, flips, unselecting>>

(* The health checker probes all backends of a snapshot at a time, and     *)
(* starts the next round when all probes have ended.                       *)
StartRound ==
  /\ writer = Unheld
  /\ \A o \in Object : checks[o] = "none"
  /\ pool # << >>
  /\ checks' = [o \in Object |-> IF InPool(o) THEN "sent" ELSE "none"]
  /\ UNCHANGED <<made, backend, pool, writer, swept, task, up, flips, unselecting>>

Probe(o) ==
  /\ checks[o] = "sent"
  /\ checks' = [checks EXCEPT ![o] = IF up[backend[o].addr] THEN "good" ELSE "bad"]
  /\ UNCHANGED <<made, backend, pool, writer, swept, task, up, flips, unselecting>>

SetHealthy(o) ==
  /\ checks[o] \in {"good", "bad"}
  /\ checks' = [checks EXCEPT ![o] = "none"]
  /\ backend' = [backend EXCEPT ![o].healthy = (checks[o] = "good")]
  /\ last' = [s \in Session |-> IF checks[o] = "bad" THEN last[s] \ {o} ELSE last[s]]
  /\ UNCHANGED <<made, pool, writer, swept, task, up, flips, session, holder, selector, counter, moved>>

-----------------------------------------------------------------------------
DrainTask(o) == \/ StartRemove(o)
                \/ \E s \in Session : SweepShard(o, s)
                \/ FinishRemove(o)

HealthChecker == StartRound \/ \E o \in Object : Probe(o) \/ SetHealthy(o)

BalancerNext ==
  \/ \E a \in Addr : Add(a) \/ Drain(a) \/ UpOrDown(a)
  \/ \E o \in Object : TimeUp(o) \/ DrainTask(o) \/ Disconnect(o)
  \/ \E t \in Selector :
       \/ \E weighted \in BOOLEAN : Snapshot(t, weighted)
       \/ Pick(t)
       \/ LeastConnections(t)
       \/ \E s \in Session : FindSession(t, s)
       \/ FollowSession(t)
       \/ HashSession(t)
       \/ ForgetSession(t)
       \/ FindIndex(t)
       \/ UpsertSession(t)
       \/ \E connects \in BOOLEAN : Connect(t, connects)
  \/ \E s \in Session : SessionExpires(s) \/ CleanSession(s)
  \/ HealthChecker

(* The tasks run on, time passes, and a selection that holds a shard goes  *)
(* on when it can.  Nobody has to select, connect or disconnect.           *)
BalancerFairness ==
  /\ \A o \in Object : WF_balancerVars(TimeUp(o)) /\ WF_balancerVars(DrainTask(o))
  /\ \A t \in Selector : WF_balancerVars(FollowSession(t))
  /\ WF_balancerVars(StartRound)
  /\ \A o \in Object : WF_balancerVars(Probe(o) \/ SetHealthy(o))

BalancerSafety == BalancerInit /\ [][BalancerNext]_balancerVars

BalancerSpec == BalancerSafety /\ BalancerFairness

-----------------------------------------------------------------------------
(* What each variable may hold.                                            *)
BalancerTypeOK ==
  /\ made \in 0..MaxBackends
  /\ backend \in [Object -> [addr : Addr, healthy : BOOLEAN, draining : BOOLEAN,
                             conns : 0..MaxConns]]
  /\ pool \in Seq(1..made)
  /\ \A i, j \in DOMAIN pool : i < j => pool[i] < pool[j]
  /\ writer \in Object \cup {Unheld}
  /\ swept \subseteq Session
  /\ task \in [Object -> {"none", "draining", "late", "removing", "done"}]
  /\ \A s \in Session : /\ session[s] \subseteq [index : 1..MaxBackends, expired : BOOLEAN]
                        /\ Cardinality(session[s]) <= 1
                        /\ Cardinality(holder[s]) <= 1
  /\ \A t \in Selector : selector[t].stage \in SelectorStages
  /\ \A t \in Selector, s \in Session :
       t \in holder[s] <=> selector[t].stage = "entry" /\ selector[t].key = s
  /\ counter \in 0..(CounterSize - 1)
  /\ checks \in [Object -> {"none", "sent", "good", "bad"}]

(* A session stays at the backend it was given, whatever is added and      *)
(* selected meanwhile, until it expires, the backend is found unhealthy or *)
(* a backend is removed.                                                   *)
StickyStable == ~moved

(* A selection that holds its shard waits for the vector, and the removal  *)
(* that has the vector waits for that shard.                               *)
Deadlocked == \E s \in Session : holder[s] # {} /\ writer # Unheld /\ s \notin swept

(* A backend that is drained is removed and its task ends, connections or  *)
(* not ...                                                                 *)
DrainEnds == \A o \in Object : (task[o] = "draining") ~> (task[o] = "done")

(* ... and all that can keep it from that is the deadlock.                 *)
OnlyDeadlockStopsDrain ==
  \A o \in Object : <>[](task[o] \in {"none", "done"} \/ Deadlocked)

(* The health of a backend in the pool follows what it answers, once that  *)
(* no longer changes, late probes or not.                                  *)
HealthFollows ==
  \A o \in Object : \A answer \in BOOLEAN :
    (<>[](InPool(o) /\ up[backend[o].addr] = answer))
      => <>[](backend[o].healthy = answer \/ Deadlocked)
=============================================================================
