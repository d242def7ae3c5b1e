-------------------------- MODULE MultiTierLimiter --------------------------
(***************************************************************************)
(* MultiTierRateLimiter (engine/rate-limiter): threads that check requests *)
(* against a global, a user's and an endpoint's bucket while an operator   *)
(* changes the rules.                                                      *)
(*                                                                         *)
(* A thread reads the rule of a tier and then, in another step, takes from *)
(* the bucket under the bucket's lock; a bucket whose rule is not the one  *)
(* it is checked with is replaced by a full one.  (A request from an       *)
(* allow-listed address, or one no tier applies to, touches no state.)     *)
(***************************************************************************)
EXTENDS TokenBucket

CONSTANTS
  Checker,        (* threads                                               *)
  Bucket,         (* bucket keys                                           *)
  Tier,           (* keys of rules                                         *)
  TierOf,         (* the tier of each bucket                               *)
  Checks,         (* the buckets, in order, that a request is checked by   *)
  BaseRules,      (* the configured rules, as sets of 0 or 1 rules         *)
  NewRules,       (* what an operator may set                              *)
  MaxUpdates, MaxTierNow                     (* bounds, for model checking *)

ASSUME MultiTierAssumption ==
  /\ TierOf \in [Bucket -> Tier]
  /\ Checks \subseteq Seq(Bucket) \ {<< >>}
  /\ BaseRules \in [Tier -> SUBSET ValidRules]
  /\ \A t \in Tier : \A r, s \in BaseRules[t] : r = s
  /\ NewRules \subseteq ValidRules
  /\ MaxUpdates \in Nat
  /\ MaxTierNow \in Nat

VARIABLES
  dynamicRules,   (* the rules set by the operator                         *)
  bucketOf,       (* the store: for each key, a set of 0 or 1 buckets      *)
  todo,           (* the buckets each thread has still to check            *)
  ruleRead,       (* the rule it has read for the first of them            *)
  tierNow,
  updates,        (* the number of rule changes                            *)
  grants,         (* history: when each bucket there is handed out tokens  *)
  owed            (* history: how often a bucket may yet be replaced       *)

multiTierVars ==
  <<dynamicRules, bucketOf, todo, ruleRead, tierNow, updates, grants, owed>>

-----------------------------------------------------------------------------
MultiTierInit ==
  /\ dynamicRules = [t \in Tier |-> {}]
  /\ bucketOf = [b \in Bucket |-> {}]
  /\ todo = [c \in Checker |-> << >>]
  /\ ruleRead = [c \in Checker |-> {}]
  /\ tierNow = 0
  /\ updates = 0
  /\ grants = [b \in Bucket |-> << >>]
  /\ owed = [b \in Bucket |-> 0]

(* rule_for: a rule set by the operator comes before the configured one.   *)
RuleFor(t) == IF dynamicRules[t] # {} THEN dynamicRules[t] ELSE BaseRules[t]

Check(c, checks) ==
  /\ todo[c] = << >>
  /\ todo' = [todo EXCEPT ![c] = checks]
  /\ UNCHANGED <<dynamicRules, bucketOf, ruleRead, tierNow, updates, grants, owed>>

(* A tier without a rule is passed over.                                   *)
ReadRule(c) ==
  /\ todo[c] # << >>
  /\ ruleRead[c] = {}
  /\ LET rule == RuleFor(TierOf[Head(todo[c])])
     IN  /\ ruleRead' = [ruleRead EXCEPT ![c] = rule]
         /\ todo' = IF rule = {} THEN [todo EXCEPT ![c] = Tail(@)] ELSE todo
  /\ UNCHANGED <<dynamicRules, bucketOf, tierNow, updates, grants, owed>>

(* Mutant: the new bucket is full but goes on under the old rule.          *)
ReplaceTokensOnly(bucket, rule) ==
  IF bucket.rule = rule THEN bucket
  ELSE [bucket EXCEPT !.tokens = rule.capacity * rule.perToken, !.last = tierNow]

(* A bucket of another rule is replaced.                                   *)
Replaced(bucket, rule) ==
  IF bucket.rule = rule THEN bucket ELSE NewBucket(rule, tierNow)

(* InMemoryBucketStore::check_key, under the lock of the bucket.  Every    *)
(* tier is taken from, though an earlier one may have denied the request.  *)
CheckBucket(c) ==
  \E rule \in ruleRead[c] :
    LET b == Head(todo[c])
        before == IF bucketOf[b] = {} THEN {NewBucket(rule, tierNow)} ELSE bucketOf[b]
        now == {Replaced(bucket, rule) : bucket \in before}
        stays == \A bucket \in before : bucket.rule = rule
    IN
    /\ bucketOf' = [bucketOf EXCEPT ![b] = {Consume(bucket, 1, tierNow) : bucket \in now}]
    /\ grants' = [grants EXCEPT
         ![b] = IF \E bucket \in now : Affords(bucket, 1, tierNow)
                THEN Granted(IF stays THEN @ ELSE << >>, 1, tierNow)
                ELSE IF stays THEN @ ELSE << >>]
    /\ owed' = [owed EXCEPT ![b] = @ + (IF rule \in RuleFor(TierOf[b]) THEN 0 ELSE 2)
                                     - (IF stays THEN 0 ELSE 1)]
    /\ todo' = [todo EXCEPT ![c] = Tail(@)]
    /\ ruleRead' = [ruleRead EXCEPT ![c] = {}]
    /\ UNCHANGED <<dynamicRules, tierNow, updates>>

(* update_rate_limit_rule                                                  *)
UpdateRule(t, rule) ==
  /\ updates < MaxUpdates
  /\ updates' = updates + 1
  /\ dynamicRules' = [dynamicRules EXCEPT ![t] = {rule}]
  /\ owed' = [b \in Bucket |->
                owed[b] + (IF TierOf[b] = t /\ RuleFor(t) # {rule} THEN 1 ELSE 0)]
  /\ UNCHANGED <<bucketOf, todo, ruleRead, tierNow, grants>>

TierTick ==
  /\ tierNow < MaxTierNow
  /\ tierNow' = tierNow + 1
  /\ UNCHANGED <<dynamicRules, bucketOf, todo, ruleRead, updates, grants, owed>>

MultiTierNext ==
  \/ \E c \in Checker : \/ \E checks \in Checks : Check(c, checks)
                        \/ ReadRule(c)
                        \/ CheckBucket(c)
  \/ \E t \in Tier, rule \in NewRules : UpdateRule(t, rule)
  \/ TierTick

MultiTierSpec == MultiTierInit /\ [][MultiTierNext]_multiTierVars

-----------------------------------------------------------------------------
(* What each variable may hold.                                            *)
MultiTierTypeOK ==
  /\ dynamicRules \in [Tier -> SUBSET NewRules]
  /\ \A b \in Bucket : \A bucket \in bucketOf[b] :
       /\ bucket.rule \in ValidRules
       /\ bucket.tokens \in 0..(bucket.rule.capacity * bucket.rule.perToken)
       /\ bucket.last \in 0..tierNow
  /\ todo \in [Checker -> Seq(Bucket)]
  /\ tierNow \in Nat
  /\ updates \in 0..MaxUpdates
  /\ grants \in [Bucket -> Seq(Nat)]
  /\ owed \in [Bucket -> Int]

(* However the threads take turns at it and its rule changes, a bucket     *)
(* hands out no more than its rule allows, until it is replaced.           *)
TierRateBound ==
  \A b \in Bucket : \A bucket \in bucketOf[b] : WithinRate(bucket.rule, grants[b])

(* A bucket is replaced by a full one only on account of a change of its   *)
(* rule: once for each change, and twice for each check made with a rule   *)
(* that was changed between reading it and taking from the bucket (once to *)
(* go back to that rule, and once more to leave it).                       *)
ReplacementsAccounted == \A b \in Bucket : owed[b] >= 0
=============================================================================
