---------------------------- MODULE TokenBucket -----------------------------
(***************************************************************************)
(* TokenBucket and the check of one key (engine/rate-limiter).  Tokens are *)
(* counted in time, as in the code: a token is worth perToken units        *)
(* (nanos_per_token), and a unit that passes earns a unit.                 *)
(***************************************************************************)
EXTENDS Integers, Sequences

(* What validate_token_bucket lets through, with rates that are one token  *)
(* in so many units of time.                                               *)
ValidRules == [capacity : Nat \ {0}, perToken : Nat \ {0}]

NewBucket(rule, now) ==
  [rule |-> rule, tokens |-> rule.capacity * rule.perToken, last |-> now]

AtMost(a, b)  == IF a <= b THEN a ELSE b
AtLeast(a, b) == IF a >= b THEN a ELSE b

(* Mutant: last_refill stays where it is.                                  *)
RefillOnly(bucket, now) ==
  [bucket EXCEPT !.tokens = AtMost(@ + AtLeast(now - bucket.last, 0),
                                   bucket.rule.capacity * bucket.rule.perToken)]

(* refill_at: saturating, and capped at the capacity.                      *)
Refill(bucket, now) ==
  [bucket EXCEPT !.tokens = AtMost(@ + AtLeast(now - bucket.last, 0),
                                   bucket.rule.capacity * bucket.rule.perToken),
                 !.last = now]

(* try_consume_at for a positive number of tokens.                         *)
Affords(bucket, cost, now) == Refill(bucket, now).tokens >= cost * bucket.rule.perToken

Consume(bucket, cost, now) ==
  IF Affords(bucket, cost, now)
  THEN [Refill(bucket, now) EXCEPT !.tokens = @ - cost * bucket.rule.perToken]
  ELSE Refill(bucket, now)

(* The times of the tokens a bucket has handed out, after another call.    *)
Granted(grants, cost, now) == grants \o [i \in 1..cost |-> now]

(* Between any two of its grants no bucket hands out more than it holds    *)
(* when full and what the time between them earns.                         *)
WithinRate(rule, grants) ==
  \A i, j \in DOMAIN grants :
    i <= j => (j - i + 1) * rule.perToken
                <= rule.capacity * rule.perToken + (grants[j] - grants[i])
=============================================================================
