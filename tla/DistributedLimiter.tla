------------------------- MODULE DistributedLimiter -------------------------
(***************************************************************************)
(* DistributedTokenBucketRateLimiter (engine/rate-limiter): nodes that     *)
(* share one key's bucket in Redis, through a Lua script, and each fall    *)
(* back to a bucket of their own when Redis fails them.                    *)
(*                                                                         *)
(* A call takes its time stamp from the clock of its node, and the script  *)
(* runs at some later time.  Time here is the fastest clock's; the others  *)
(* are behind.  Redis is external: it may fail any request, lose the reply *)
(* to a script it has run, and restart without its scripts and its data.   *)
(***************************************************************************)
EXTENDS TokenBucket

CONSTANTS
  Node,
  Behind,        (* how far the wall clock of each node is behind          *)
  Costs,         (* the tokens a call may ask for                          *)
  Shared,        (* capacity and rate of the limiter                       *)
  MinTtl,        (* the script's least expiry (1000 ms in the code)        *)
  MaxTime,       (* bounds, for model checking, on time and on the time by *)
  MaxSetBack     (* which stamps have gone back when another script runs   *)

ASSUME DistributedAssumption ==
  /\ Behind \in [Node -> Nat]
  /\ Costs \subseteq Nat \ {0}
  /\ Shared \in ValidRules
  /\ MinTtl \in Nat
  /\ MaxTime \in Nat
  /\ MaxSetBack \in Nat

VARIABLES
  scriptLoaded,
  stored,        (* tokens, last_refill and the time of the last write of  *)
                 (* the key in Redis, as a set of 0 or 1                   *)
  fallback,      (* each node's own bucket, as a set of 0 or 1             *)
  call,          (* the call each node makes                               *)
  time,
  account        (* history: since Redis last lost its data, the tokens it *)
                 (* has handed out, the first stamp and the latest time it *)
                 (* saw, and by how much in all its time went back         *)

distVars == <<scriptLoaded, stored, fallback, call, time, account>>

(* stage: idle; eval, to send EVALSHA; load, after NOSCRIPT; again, to     *)
(* send EVALSHA once more; fallback.                                       *)
CallStages == {"idle", "eval", "load", "again", "fallback"}
NoCall == [stage |-> "idle", stamp |-> 0, cost |-> 0]
Full == Shared.capacity * Shared.perToken
Opened(now) == [spent |-> 0, first |-> now, seen |-> now, setBack |-> 0]

-----------------------------------------------------------------------------
(* new: the script has been loaded.                                        *)
DistInit ==
  /\ scriptLoaded = TRUE
  /\ stored = {}
  /\ fallback = [n \in Node |-> {}]
  /\ call = [n \in Node |-> NoCall]
  /\ time = 0
  /\ account = {}

(* check_key reads the clock before anything else.                         *)
CheckKeyAt(n, cost) ==
  /\ call[n].stage = "idle"
  /\ call' = [call EXCEPT ![n] = [stage |-> "eval", cost |-> cost,
                                  stamp |-> AtLeast(0, time - Behind[n])]]
  /\ UNCHANGED <<scriptLoaded, stored, fallback, time, account>>

(* Mutant: only a call that is let through moves last_refill.              *)
LastIfAllowed(old, now, allowed) == IF allowed THEN now ELSE old.last

(* The script keeps the stamp of the call, even an earlier one.            *)
LastRefill(old, now, allowed) == now

(* REDIS_TOKEN_BUCKET_LUA                                                  *)
Script(n) ==
  LET now == call[n].stamp
      cost == call[n].cost * Shared.perToken
      old == IF stored = {} THEN [tokens |-> Full, last |-> now, written |-> time]
             ELSE CHOOSE s \in stored : TRUE
      tokens == AtMost(Full, old.tokens + AtLeast(0, now - old.last))
      allowed == tokens >= cost
      kept == IF account = {} THEN Opened(now) ELSE CHOOSE a \in account : TRUE
  IN
  /\ stored' = {[tokens |-> IF allowed THEN tokens - cost ELSE tokens,
                 last |-> LastRefill(old, now, allowed), written |-> time]}
  /\ account' = {[kept EXCEPT !.spent = @ + (IF allowed THEN call[n].cost ELSE 0),
                              !.setBack = @ + AtLeast(0, kept.seen - now),
                              !.seen = now]}

(* EVALSHA runs the script.  Its reply arrives, or is lost, which is an    *)
(* error like any other.                                                   *)
EvalSha(n, replied) ==
  /\ call[n].stage \in {"eval", "again"}
  /\ scriptLoaded
  /\ \A a \in account : a.setBack <= MaxSetBack
  /\ Script(n)
  /\ call' = [call EXCEPT ![n] = IF replied THEN NoCall ELSE [@ EXCEPT !.stage = "fallback"]]
  /\ UNCHANGED <<scriptLoaded, fallback, time>>

(* NOSCRIPT: the script is loaded and tried once more, and only once.      *)
NoScript(n) ==
  /\ call[n].stage \in {"eval", "again"}
  /\ ~scriptLoaded
  /\ call' = [call EXCEPT ![n].stage = IF @ = "eval" THEN "load" ELSE "fallback"]
  /\ UNCHANGED <<scriptLoaded, stored, fallback, time, account>>

LoadScript(n) ==
  /\ call[n].stage = "load"
  /\ scriptLoaded' = TRUE
  /\ call' = [call EXCEPT ![n].stage = "again"]
  /\ UNCHANGED <<stored, fallback, time, account>>

(* Redis cannot be reached, or answers with another error.                 *)
RedisError(n) ==
  /\ call[n].stage \in {"eval", "load", "again"}
  /\ call' = [call EXCEPT ![n].stage = "fallback"]
  /\ UNCHANGED <<scriptLoaded, stored, fallback, time, account>>

Fallback(n) ==
  /\ call[n].stage = "fallback"
  /\ fallback' = [fallback EXCEPT ![n] =
       {Consume(bucket, call[n].cost, time) :
          bucket \in IF @ = {} THEN {NewBucket(Shared, time)} ELSE @}]
  /\ call' = [call EXCEPT ![n] = NoCall]
  /\ UNCHANGED <<scriptLoaded, stored, time, account>>

RedisRestart(keepsData) ==
  /\ scriptLoaded' = FALSE
  /\ IF keepsData THEN UNCHANGED <<stored, account>> ELSE stored' = {} /\ account' = {}
  /\ UNCHANGED <<fallback, call, time>>

(* Mutant: the expiry does not depend on the rate.                         *)
TtlFixed == MinTtl

(* The time that fills the bucket, but no less than MinTtl.                *)
Ttl == AtLeast(Full, MinTtl)

(* PEXPIRE: the key goes, and is full when it comes back.                  *)
Expire ==
  /\ \E s \in stored : time - s.written >= Ttl
  /\ stored' = {}
  /\ account' = {[a EXCEPT !.seen = time] : a \in account}
  /\ UNCHANGED <<scriptLoaded, fallback, call, time>>

DistTick ==
  /\ time < MaxTime
  /\ time' = time + 1
  /\ UNCHANGED <<scriptLoaded, stored, fallback, call, account>>

DistNext ==
  \/ \E n \in Node : \/ \E cost \in Costs : CheckKeyAt(n, cost)
                     \/ \E replied \in BOOLEAN : EvalSha(n, replied)
                     \/ NoScript(n)
                     \/ LoadScript(n)
                     \/ RedisError(n)
                     \/ Fallback(n)
  \/ \E keepsData \in BOOLEAN : RedisRestart(keepsData)
  \/ Expire
  \/ DistTick

DistSpec == DistInit /\ [][DistNext]_distVars

-----------------------------------------------------------------------------
(* What each variable may hold.                                            *)
DistTypeOK ==
  /\ scriptLoaded \in BOOLEAN
  /\ \A s \in stored : s.tokens \in 0..Full /\ s.last \in 0..time /\ s.written \in 0..time
  /\ stored # {} => account # {}
  /\ \A n \in Node : \A bucket \in fallback[n] :
       bucket.rule = Shared /\ bucket.tokens \in 0..Full /\ bucket.last \in 0..time
  /\ call \in [Node -> [stage : CallStages, stamp : 0..time, cost : Costs \cup {0}]]
  /\ \A a \in account : a.seen \in 0..time /\ a.first \in 0..time /\ a.spent \in Nat
  /\ time \in Nat

(* What all nodes together get out of Redis, while it keeps its data, is   *)
(* the capacity and what the time since the first call earns, and beyond   *)
(* that only the time by which stamps arrived out of order: a late stamp   *)
(* sets last_refill back, and the time up to the stamp before is earned    *)
(* again.  That the key expires adds nothing.                              *)
SharedRateBound ==
  \A a \in account :
    a.spent * Shared.perToken <= Full + (time - a.first) + a.setBack
=============================================================================
