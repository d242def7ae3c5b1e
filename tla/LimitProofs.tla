----------------------------- MODULE LimitProofs ----------------------------
(***************************************************************************)
(* The rate limiters, for every rule, number of threads, nodes and keys:   *)
(* what a bucket shared through Redis lets through, what the buckets of    *)
(* the tiers let through while their rules change, and what a window of    *)
(* the gateway lets through.  And the circuit breaker, for every number of *)
(* callers, size of the window and threshold: its ring counts exactly the  *)
(* last results, a half-open period has one probe, and no circuit is left  *)
(* closed over a window that calls for opening it.                         *)
(***************************************************************************)
EXTENDS MultiTierLimiter, DistributedLimiter, Gateway, CircuitBreaker, FunctionTheorems,
        FiniteSetTheorems, SequenceTheorems, WellFoundedInduction, TLAPS

-----------------------------------------------------------------------------
(* Token buckets.                                                          *)

(* The buckets there can be by some time.                                  *)
BucketsBy(now) ==
  {b \in [rule : ValidRules, tokens : Nat, last : 0..now] :
     b.tokens <= b.rule.capacity * b.rule.perToken}

(* Products of numbers are numbers, and one more is once more.             *)
LEMMA Times ==
  /\ \A m, n \in Nat : m * n \in Nat
  /\ \A k, n \in Int : k * n \in Int
  /\ \A k, m, n \in Int : (k + m) * n = k * n + m * n
OBVIOUS

(* What is left after some time, when no more is earned than passes.       *)
LEMMA Chain ==
  \A s, f, k, l, n, g, c \in Int :
    s + f <= s + k + (n - l) /\ s + k <= c + (l - g) => s + f <= c + (n - g)
OBVIOUS

(* A new bucket is one, and full.                                          *)
LEMMA NewBucketIsOne ==
  ASSUME NEW rule \in ValidRules, NEW now \in Nat
  PROVE  /\ NewBucket(rule, now) \in BucketsBy(now)
         /\ NewBucket(rule, now).rule = rule
         /\ NewBucket(rule, now).last = now
         /\ NewBucket(rule, now).tokens = rule.capacity * rule.perToken
<1>1. rule.capacity * rule.perToken \in Nat
  BY Times DEF ValidRules
<1> QED  BY <1>1 DEF NewBucket, BucketsBy

(* A call brings the bucket up to its time, and takes what it may.         *)
LEMMA ConsumeTakes ==
  ASSUME NEW now \in Nat, NEW b \in BucketsBy(now), NEW cost \in Nat
  PROVE  LET full   == b.rule.capacity * b.rule.perToken
             filled_ == AtMost(b.tokens + (now - b.last), full)
             price  == cost * b.rule.perToken
         IN  /\ Consume(b, cost, now) \in BucketsBy(now)
             /\ Consume(b, cost, now).rule = b.rule
             /\ Consume(b, cost, now).last = now
             /\ Affords(b, cost, now) <=> filled_ >= price
             /\ Consume(b, cost, now).tokens =
                  IF Affords(b, cost, now) THEN filled_ - price ELSE filled_
<1> DEFINE full    == b.rule.capacity * b.rule.perToken
           filled_ == AtMost(b.tokens + (now - b.last), full)
           price   == cost * b.rule.perToken
<1>1. /\ full \in Nat /\ price \in Nat
      /\ b \in [rule : ValidRules, tokens : Nat, last : 0..now]
      /\ b.tokens <= full
  BY Times DEF BucketsBy, ValidRules
<1> HIDE DEF full, price
<1>2. filled_ \in Nat /\ filled_ <= full
  BY <1>1 DEF AtMost
<1>3. Refill(b, now) = [rule |-> b.rule, tokens |-> filled_, last |-> now]
  <2>1. AtLeast(now - b.last, 0) = now - b.last
    BY <1>1 DEF AtLeast
  <2>2. Refill(b, now) = [b EXCEPT !.tokens = filled_, !.last = now]
    BY <1>1, <2>1 DEF Refill, full
  <2> HIDE DEF filled_
  <2> QED  BY <1>1, <2>2
<1>4. Affords(b, cost, now) <=> filled_ >= price
  BY <1>3 DEF Affords, price
<1>5. Consume(b, cost, now) =
        [rule |-> b.rule, last |-> now,
         tokens |-> IF Affords(b, cost, now) THEN filled_ - price ELSE filled_]
  BY <1>3 DEF Consume, price
<1>6. (IF Affords(b, cost, now) THEN filled_ - price ELSE filled_) \in 0..full
  BY <1>1, <1>2, <1>4
<1> HIDE DEF filled_
<1>7. Consume(b, cost, now) \in BucketsBy(now)
  BY <1>1, <1>5, <1>6 DEF BucketsBy, full
<1> QED  BY <1>4, <1>5, <1>7 DEF filled_, full, price

(* Buckets stay buckets as time goes on.                                   *)
LEMMA BucketsLast ==
  ASSUME NEW now \in Nat
  PROVE  BucketsBy(now) \subseteq BucketsBy(now + 1)
BY DEF BucketsBy

-----------------------------------------------------------------------------
(* The bucket in Redis.                                                    *)

Scripted == [tokens : 0..Full, last : 0..time, written : 0..time]
Accounts == [spent : Nat, first : 0..time, seen : 0..time, setBack : Nat]

(* What each variable holds, one bucket and one account at the most.       *)
SharedShape ==
  /\ scriptLoaded \in BOOLEAN
  /\ time \in Nat
  /\ stored = {} \/ \E s \in Scripted : stored = {s}
  /\ account = {} \/ \E a \in Accounts : account = {a}
  /\ stored # {} => account # {}
  /\ fallback \in [Node -> SUBSET BucketsBy(time)]
  /\ \A n \in Node : \A b \in fallback[n] : b.rule = Shared
  /\ call \in [Node -> [stage : CallStages, stamp : 0..time, cost : Costs \cup {0}]]

(* What is spent is paid for by what the bucket held when full, what the   *)
(* time to the last stamp has earned and what was earned again; the key's  *)
(* tokens are still to be spent.  While there is no key, the full bucket   *)
(* it will come back with is still to be spent, too.                       *)
Books ==
  \A a \in account :
    /\ \A s \in stored :
         /\ s.last = a.seen
         /\ s.last <= s.written
         /\ a.spent * Shared.perToken + s.tokens <= Full + (a.seen - a.first) + a.setBack
    /\ stored = {} => a.spent * Shared.perToken <= (a.seen - a.first) + a.setBack

SharedInv == SharedShape /\ Books

(* The capacity, in time.                                                  *)
LEMMA FullIsNat == Full \in Nat /\ Shared.perToken \in Nat
BY DistributedAssumption, Times DEF Full, ValidRules

(* Redis starts without a key.                                             *)
LEMMA SharedInitially == DistInit => SharedInv
<1> SUFFICES ASSUME DistInit
             PROVE  SharedInv
  OBVIOUS
<1>1. NoCall \in [stage : CallStages, stamp : 0..time, cost : Costs \cup {0}]
  BY DEF DistInit, NoCall, CallStages
<1> QED  BY <1>1 DEF DistInit, SharedInv, SharedShape, Books

(* The script keeps the books.                                             *)
LEMMA ScriptKeepsBooks ==
  ASSUME SharedInv, NEW n \in Node, Script(n), time' = time
  PROVE  /\ \E s \in Scripted' : stored' = {s}
         /\ \E a \in Accounts' : account' = {a}
         /\ Books'
<1> DEFINE now == call[n].stamp
           price == call[n].cost * Shared.perToken
           old == IF stored = {} THEN [tokens |-> Full, last |-> now, written |-> time]
                  ELSE CHOOSE s \in stored : TRUE
           tokens == AtMost(Full, old.tokens + AtLeast(0, now - old.last))
           allowed == tokens >= price
           left == IF allowed THEN tokens - price ELSE tokens
           kept == IF account = {} THEN Opened(now) ELSE CHOOSE a \in account : TRUE
           spent == kept.spent + (IF allowed THEN call[n].cost ELSE 0)
           setBack == kept.setBack + AtLeast(0, kept.seen - now)
           P == Shared.perToken
<1>0. SharedShape /\ Books
  BY DEF SharedInv
<1>1. now \in 0..time /\ call[n].cost \in Nat /\ time \in Nat
  <2>1. call[n] \in [stage : CallStages, stamp : 0..time, cost : Costs \cup {0}]
    BY <1>0 DEF SharedShape
  <2>2. Costs \cup {0} \subseteq Nat /\ time \in Nat
    BY <1>0, DistributedAssumption DEF SharedShape
  <2> QED  BY <2>1, <2>2
<1>2. price \in Nat /\ Full \in Nat /\ P \in Nat
  BY <1>1, FullIsNat, Times
<1>3. old \in Scripted
  BY <1>0, <1>1, <1>2 DEF SharedShape, Scripted
<1>4. kept \in Accounts
  BY <1>0, <1>1 DEF SharedShape, Accounts, Opened
<1>5. stored' = {[tokens |-> left, last |-> now, written |-> time]}
  BY DEF Script, LastRefill
<1>6. account' = {[kept EXCEPT !.spent = spent, !.setBack = setBack, !.seen = now]}
  BY DEF Script
<1>7. tokens \in 0..Full /\ left \in 0..Full
  <2> HIDE DEF old, price, now
  <2> QED  BY <1>1, <1>2, <1>3 DEF AtMost, AtLeast, Scripted
<1>8. spent \in Nat /\ setBack \in Nat
  <2> HIDE DEF kept, allowed, now
  <2> QED  BY <1>1, <1>4 DEF AtLeast, Accounts
<1>9. /\ kept.spent * P \in Nat
      /\ spent * P = kept.spent * P + (IF allowed THEN price ELSE 0)
  <2> HIDE DEF kept, tokens
  <2>1. kept.spent \in Nat
    BY <1>4 DEF Accounts
  <2>2. (kept.spent + call[n].cost) * P = kept.spent * P + price
    BY <1>1, <1>2, <2>1, Times
  <2> QED  BY <1>2, <2>1, <2>2, Times
<1>10. kept.spent * P + tokens <= Full + (now - kept.first) + setBack
  <2>1. CASE stored = {}
    <3>1. kept.spent * P <= (kept.seen - kept.first) + kept.setBack
      <4>1. CASE account = {}
        BY <1>1, <1>2, <4>1 DEF Opened
      <4>2. CASE account # {}
        <5>1. kept \in account
          BY <4>2
        <5> QED  BY <1>0, <2>1, <5>1 DEF Books
      <4> QED  BY <4>1, <4>2
    <3> HIDE DEF kept, tokens, now
    <3> QED  BY <1>1, <1>2, <1>4, <1>7, <1>9, <3>1 DEF Accounts, AtLeast
  <2>2. CASE stored # {}
    <3>1. old \in stored /\ kept \in account
      BY <1>0, <2>2 DEF SharedShape
    <3>2. /\ old.last = kept.seen
          /\ kept.spent * P + old.tokens <= Full + (kept.seen - kept.first) + kept.setBack
      BY <1>0, <3>1 DEF Books
    <3>3. tokens <= old.tokens + AtLeast(0, now - old.last)
      <4> HIDE DEF old, now
      <4> QED  BY <1>1, <1>2, <1>3 DEF AtMost, AtLeast, Scripted
    <3> HIDE DEF kept, tokens, now, old
    <3> QED  BY <1>1, <1>2, <1>3, <1>4, <1>7, <1>9, <3>2, <3>3
             DEF Accounts, Scripted, AtLeast
  <2> QED  BY <2>1, <2>2
<1> HIDE DEF kept, tokens, now, old, setBack, spent
<1>11. spent * P + left <= Full + (now - kept.first) + setBack
  <2> HIDE DEF price
  <2>1. kept.first \in Nat
    BY <1>4 DEF Accounts
  <2> QED  BY <1>1, <1>2, <1>7, <1>8, <1>9, <1>10, <2>1
<1> HIDE DEF left
<1> DEFINE s1 == [tokens |-> left, last |-> now, written |-> time]
           a1 == [kept EXCEPT !.spent = spent, !.setBack = setBack, !.seen = now]
<1>12. s1 \in Scripted'
  BY <1>1, <1>7 DEF Scripted
<1>13. a1 \in Accounts'
  BY <1>1, <1>4, <1>8 DEF Accounts
<1>14. /\ a1.first = kept.first /\ a1.spent = spent /\ a1.setBack = setBack /\ a1.seen = now
       /\ s1.last = now /\ s1.written = time /\ s1.tokens = left
  BY <1>4 DEF Accounts
<1> HIDE DEF s1, a1
<1>15. stored' = {s1} /\ account' = {a1}
  BY <1>5, <1>6 DEF s1, a1
<1>16. Books'
  BY <1>1, <1>11, <1>14, <1>15 DEF Books
<1> QED  BY <1>12, <1>13, <1>15, <1>16

(* A key that expires has been idle for as long as filling it takes.       *)
LEMMA ExpiryKeepsBooks == SharedInv /\ Expire => SharedInv'
<1> SUFFICES ASSUME SharedInv, Expire
             PROVE  SharedInv'
  OBVIOUS
<1>1. PICK s \in stored : time - s.written >= Ttl
  BY DEF Expire
<1>2. /\ stored' = {}
      /\ account' = {[a EXCEPT !.seen = time] : a \in account}
      /\ UNCHANGED <<scriptLoaded, fallback, call, time>>
  BY DEF Expire
<1>3. SharedShape /\ Books
  BY DEF SharedInv
<1>4. PICK a \in Accounts : account = {a}
  BY <1>1, <1>3 DEF SharedShape
<1>5. s \in Scripted /\ time \in Nat
  BY <1>1, <1>3 DEF SharedShape
<1> DEFINE b == [a EXCEPT !.seen = time]
<1>6. /\ b \in Accounts /\ b.seen = time
      /\ b.spent = a.spent /\ b.first = a.first /\ b.setBack = a.setBack
  BY <1>4, <1>5 DEF Accounts
<1>7. account' = {b}
  BY <1>2, <1>4
<1>8. /\ s.last = a.seen /\ s.last <= s.written
      /\ a.spent * Shared.perToken + s.tokens <= Full + (a.seen - a.first) + a.setBack
  BY <1>1, <1>3, <1>4 DEF Books
<1>9. Ttl \in Nat /\ Ttl >= Full
  BY FullIsNat, DistributedAssumption DEF Ttl, AtLeast
<1>10. a.spent * Shared.perToken \in Nat
  BY FullIsNat, Times DEF Accounts
<1>11. a.spent * Shared.perToken <= (time - a.first) + a.setBack
  BY <1>1, <1>5, <1>8, <1>9, <1>10, FullIsNat DEF Accounts, Scripted
<1> HIDE DEF b
<1>12. Books'
  BY <1>2, <1>6, <1>7, <1>11 DEF Books
<1>13. SharedShape'
  BY <1>2, <1>3, <1>6, <1>7 DEF SharedShape, Accounts
<1> QED  BY <1>12, <1>13 DEF SharedInv

(* Steps that leave Redis alone leave the books alone.                     *)
LEMMA BooksStay ==
  ASSUME SharedInv, UNCHANGED <<stored, account, time>>,
         scriptLoaded' \in BOOLEAN,
         fallback' \in [Node -> SUBSET BucketsBy(time)],
         \A n \in Node : \A b \in fallback'[n] : b.rule = Shared,
         call' \in [Node -> [stage : CallStages, stamp : 0..time, cost : Costs \cup {0}]]
  PROVE  SharedInv'
<1>1. Books'
  BY DEF SharedInv, Books
<1>2. SharedShape'
  BY DEF SharedInv, SharedShape, Scripted, Accounts
<1> QED  BY <1>1, <1>2 DEF SharedInv

(* Every step keeps the books.                                             *)
LEMMA DistStepKeepsBooks == SharedInv /\ [DistNext]_distVars => SharedInv'
<1> SUFFICES ASSUME SharedInv, [DistNext]_distVars
             PROVE  SharedInv'
  OBVIOUS
<1> DEFINE Calls == [stage : CallStages, stamp : 0..time, cost : Costs \cup {0}]
<1>0. /\ SharedShape /\ Books
      /\ time \in Nat
      /\ call \in [Node -> Calls]
      /\ NoCall \in Calls
  BY DEF SharedInv, SharedShape, NoCall, CallStages
<1>1. ASSUME NEW n \in Node, NEW cost \in Costs, CheckKeyAt(n, cost)
      PROVE  SharedInv'
  <2>1. AtLeast(0, time - Behind[n]) \in 0..time
    BY <1>0, DistributedAssumption DEF AtLeast
  <2>2. call' \in [Node -> Calls]
    BY <1>0, <1>1, <2>1 DEF CheckKeyAt, CallStages
  <2> QED  BY <1>0, <1>1, <2>2, BooksStay DEF CheckKeyAt, SharedShape
<1>2. ASSUME NEW n \in Node, NEW replied \in BOOLEAN, EvalSha(n, replied)
      PROVE  SharedInv'
  <2>1. /\ \E s \in Scripted' : stored' = {s}
        /\ \E a \in Accounts' : account' = {a}
        /\ Books'
    BY <1>2, ScriptKeepsBooks DEF EvalSha
  <2>2. call' \in [Node -> Calls]
    BY <1>0, <1>2 DEF EvalSha, CallStages
  <2>3. UNCHANGED <<scriptLoaded, fallback, time>>
    BY <1>2 DEF EvalSha
  <2>4. SharedShape'
    BY <1>0, <2>1, <2>2, <2>3 DEF SharedShape
  <2> QED  BY <2>1, <2>4 DEF SharedInv
<1>3. ASSUME NEW n \in Node, NoScript(n)
      PROVE  SharedInv'
  <2>1. call' \in [Node -> Calls]
    BY <1>0, <1>3 DEF NoScript, CallStages
  <2> QED  BY <1>0, <1>3, <2>1, BooksStay DEF NoScript, SharedShape
<1>4. ASSUME NEW n \in Node, LoadScript(n)
      PROVE  SharedInv'
  <2>1. call' \in [Node -> Calls]
    BY <1>0, <1>4 DEF LoadScript, CallStages
  <2> QED  BY <1>0, <1>4, <2>1, BooksStay DEF LoadScript, SharedShape
<1>5. ASSUME NEW n \in Node, RedisError(n)
      PROVE  SharedInv'
  <2>1. call' \in [Node -> Calls]
    BY <1>0, <1>5 DEF RedisError, CallStages
  <2> QED  BY <1>0, <1>5, <2>1, BooksStay DEF RedisError, SharedShape
<1>6. ASSUME NEW n \in Node, Fallback(n)
      PROVE  SharedInv'
  <2> DEFINE before == IF fallback[n] = {} THEN {NewBucket(Shared, time)} ELSE fallback[n]
             after  == {Consume(b, call[n].cost, time) : b \in before}
  <2>1. /\ fallback' = [fallback EXCEPT ![n] = after]
        /\ call' = [call EXCEPT ![n] = NoCall]
        /\ UNCHANGED <<scriptLoaded, stored, time, account>>
    BY <1>6 DEF Fallback
  <2>2. before \subseteq BucketsBy(time) /\ \A b \in before : b.rule = Shared
    BY <1>0, NewBucketIsOne, DistributedAssumption DEF SharedShape
  <2>3. call[n].cost \in Nat
    <3>1. call[n] \in Calls /\ Costs \cup {0} \subseteq Nat
      BY <1>0, DistributedAssumption
    <3> QED  BY <3>1
  <2> HIDE DEF before
  <2>4. after \subseteq BucketsBy(time) /\ \A b \in after : b.rule = Shared
    <3>1. ASSUME NEW b \in before
          PROVE  /\ Consume(b, call[n].cost, time) \in BucketsBy(time)
                 /\ Consume(b, call[n].cost, time).rule = Shared
      <4>1. b \in BucketsBy(time) /\ b.rule = Shared
        BY <2>2
      <4>2. time \in Nat
        BY <1>0
      <4> QED  BY <2>3, <4>1, <4>2, ConsumeTakes
    <3> QED  BY <3>1
  <2> HIDE DEF after
  <2>5. /\ fallback' \in [Node -> SUBSET BucketsBy(time)]
        /\ \A m \in Node : \A b \in fallback'[m] : b.rule = Shared
    BY <1>0, <2>1, <2>4 DEF SharedShape
  <2>6. call' \in [Node -> Calls]
    BY <1>0, <2>1
  <2> QED  BY <1>0, <2>1, <2>5, <2>6, BooksStay DEF SharedShape
<1>7. ASSUME NEW keepsData \in BOOLEAN, RedisRestart(keepsData)
      PROVE  SharedInv'
  <2>1. CASE keepsData
    BY <1>0, <1>7, <2>1, BooksStay DEF RedisRestart, SharedShape
  <2>2. CASE ~keepsData
    <3>1. stored' = {} /\ account' = {} /\ scriptLoaded' = FALSE
          /\ UNCHANGED <<fallback, call, time>>
      BY <1>7, <2>2 DEF RedisRestart
    <3> QED  BY <1>0, <3>1 DEF SharedInv, SharedShape, Books
  <2> QED  BY <2>1, <2>2
<1>8. ASSUME Expire
      PROVE  SharedInv'
  BY <1>8, ExpiryKeepsBooks
<1>9. ASSUME DistTick
      PROVE  SharedInv'
  <2>1. /\ time' = time + 1
        /\ UNCHANGED <<scriptLoaded, stored, fallback, call, account>>
    BY <1>9 DEF DistTick
  <2>2. /\ Scripted \subseteq Scripted' /\ Accounts \subseteq Accounts'
        /\ Calls \subseteq Calls' /\ BucketsBy(time) \subseteq BucketsBy(time')
        /\ time' \in Nat
    BY <1>0, <2>1, BucketsLast DEF Scripted, Accounts
  <2>3. SharedShape'
    <3>1. stored' = {} \/ \E s \in Scripted' : stored' = {s}
      BY <1>0, <2>1, <2>2 DEF SharedShape
    <3>2. account' = {} \/ \E a \in Accounts' : account' = {a}
      BY <1>0, <2>1, <2>2 DEF SharedShape
    <3>3. call' \in [Node -> Calls']
      BY <1>0, <2>1, <2>2
    <3>4. fallback' \in [Node -> SUBSET BucketsBy(time')]
      BY <1>0, <2>1, <2>2 DEF SharedShape
    <3> QED  BY <1>0, <2>1, <2>2, <3>1, <3>2, <3>3, <3>4 DEF SharedShape
  <2>4. Books'
    BY <1>0, <2>1 DEF Books
  <2> QED  BY <2>3, <2>4 DEF SharedInv
<1>10. ASSUME UNCHANGED distVars
       PROVE  SharedInv'
  BY <1>0, <1>10, BooksStay DEF distVars, SharedShape
<1> QED  BY <1>1, <1>2, <1>3, <1>4, <1>5, <1>6, <1>7, <1>8, <1>9, <1>10 DEF DistNext

(* The limiter in Redis and the nodes' own are typed.                      *)
THEOREM DistIsTyped == DistSpec => []DistTypeOK
<1>1. SharedInv => DistTypeOK
  <2> SUFFICES ASSUME SharedShape
               PROVE  DistTypeOK
    BY DEF SharedInv
  <2>1. /\ \A s \in stored : s.tokens \in 0..Full /\ s.last \in 0..time /\ s.written \in 0..time
        /\ \A a \in account : a.seen \in 0..time /\ a.first \in 0..time /\ a.spent \in Nat
    BY DEF SharedShape, Scripted, Accounts
  <2>2. ASSUME NEW n \in Node, NEW b \in fallback[n]
        PROVE  b.rule = Shared /\ b.tokens \in 0..Full /\ b.last \in 0..time
    <3>1. b \in BucketsBy(time) /\ b.rule = Shared
      BY DEF SharedShape
    <3> QED  BY <3>1, FullIsNat DEF BucketsBy, Full
  <2> QED  BY <2>1, <2>2 DEF SharedShape, DistTypeOK
<1> QED  BY <1>1, SharedInitially, DistStepKeepsBooks, PTL DEF DistSpec

(* What all nodes together get out of Redis is bounded, for every number   *)
(* of nodes, every difference between their clocks and every rule, by the  *)
(* capacity, the time and what late stamps earn again.                     *)
THEOREM SharedRateIsBounded == DistSpec => []SharedRateBound
<1>1. SharedInv => SharedRateBound
  <2> SUFFICES ASSUME SharedInv, NEW a \in account
               PROVE  a.spent * Shared.perToken <= Full + (time - a.first) + a.setBack
    BY DEF SharedRateBound
  <2>1. a \in Accounts /\ time \in Nat
    BY DEF SharedInv, SharedShape
  <2>2. a.spent * Shared.perToken \in Nat
    BY <2>1, FullIsNat, Times DEF Accounts
  <2>3. a.spent * Shared.perToken <= Full + (a.seen - a.first) + a.setBack
    <3>1. CASE stored = {}
      BY <2>1, <2>2, <3>1, FullIsNat DEF SharedInv, Books, Accounts
    <3>2. CASE stored # {}
      <4>1. PICK s \in Scripted : stored = {s}
        BY <3>2 DEF SharedInv, SharedShape
      <4>2. a.spent * Shared.perToken + s.tokens <= Full + (a.seen - a.first) + a.setBack
        BY <4>1 DEF SharedInv, Books
      <4>3. s.tokens \in Nat
        BY <4>1, FullIsNat DEF Scripted
      <4> QED  BY <2>1, <2>2, <4>2, <4>3, FullIsNat DEF Accounts
    <3> QED  BY <3>1, <3>2
  <2> QED  BY <2>1, <2>2, <2>3, FullIsNat DEF Accounts
<1> QED  BY <1>1, SharedInitially, DistStepKeepsBooks, PTL DEF DistSpec

-----------------------------------------------------------------------------
(* The buckets of the tiers.                                               *)

(* What each variable holds: one bucket for a key at the most, one rule    *)
(* for a tier, and a rule read only for a bucket that is to be checked.    *)
TierShape ==
  /\ dynamicRules \in [Tier -> SUBSET NewRules]
  /\ \A t \in Tier : \A r, s \in RuleFor(t) : r = s
  /\ \A b \in Bucket : bucketOf[b] = {} \/ \E x \in BucketsBy(tierNow) : bucketOf[b] = {x}
  /\ bucketOf \in [Bucket -> SUBSET BucketsBy(tierNow)]
  /\ todo \in [Checker -> Seq(Bucket)]
  /\ ruleRead \in [Checker -> SUBSET ValidRules]
  /\ \A c \in Checker : ruleRead[c] # {} => todo[c] # << >>
  /\ tierNow \in Nat
  /\ updates \in 0..MaxUpdates
  /\ grants \in [Bucket -> Seq(Nat)]
  /\ owed \in [Bucket -> Int]

(* What has been handed out since some grant and what the bucket holds     *)
(* come from a full bucket and the time since that grant.                  *)
Earned(x, g) ==
  \A i \in 1..Len(g) :
    /\ g[i] <= x.last
    /\ (Len(g) - i + 1) * x.rule.perToken + x.tokens
         <= x.rule.capacity * x.rule.perToken + (x.last - g[i])

(* Every bucket within its rate and with what it may still spend, and no   *)
(* grants where there is no bucket.                                        *)
TierBooks ==
  \A b \in Bucket :
    /\ bucketOf[b] = {} => grants[b] = << >>
    /\ \A x \in bucketOf[b] : Earned(x, grants[b]) /\ WithinRate(x.rule, grants[b])

(* A bucket under a rule that is no longer its tier's will be replaced.    *)
TierDebts ==
  \A b \in Bucket :
    /\ owed[b] >= 0
    /\ \A x \in bucketOf[b] : x.rule \notin RuleFor(TierOf[b]) => owed[b] >= 1

TierInv == TierShape /\ TierBooks /\ TierDebts

(* The rule of a tier is a valid rule.                                     *)
LEMMA RuleForValid ==
  ASSUME TierShape, NEW t \in Tier
  PROVE  RuleFor(t) \subseteq ValidRules
BY MultiTierAssumption DEF TierShape, RuleFor

(* Nothing is owed, held or read at the start.                             *)
LEMMA TierInitially == MultiTierInit => TierInv
<1> SUFFICES ASSUME MultiTierInit
             PROVE  TierInv
  OBVIOUS
<1>1. TierShape
  BY MultiTierAssumption DEF MultiTierInit, TierShape, RuleFor
<1>2. TierBooks /\ TierDebts
  BY DEF MultiTierInit, TierBooks, TierDebts
<1> QED  BY <1>1, <1>2 DEF TierInv

(* One more grant, now.                                                    *)
LEMMA GrantedOne ==
  ASSUME NEW g \in Seq(Nat), NEW now \in Nat
  PROVE  /\ Granted(g, 1, now) \in Seq(Nat)
         /\ Len(Granted(g, 1, now)) = Len(g) + 1
         /\ \A i \in 1..Len(g) : Granted(g, 1, now)[i] = g[i]
         /\ Granted(g, 1, now)[Len(g) + 1] = now
<1> DEFINE one == [i \in 1..1 |-> now]
<1>1. one \in Seq(Nat) /\ Len(one) = 1 /\ one[1] = now
  <2>1. one = <<now>>
    OBVIOUS
  <2> QED  BY <2>1
<1>2. Len(g) \in Nat
  BY LenProperties
<1> HIDE DEF one
<1>3. /\ g \o one \in Seq(Nat)
      /\ Len(g \o one) = Len(g) + 1
      /\ \A i \in 1..(Len(g) + 1) : (g \o one)[i] = IF i <= Len(g) THEN g[i] ELSE one[i - Len(g)]
  <2>1. /\ g \o one \in Seq(Nat)
        /\ Len(g \o one) = Len(g) + Len(one)
        /\ \A i \in 1..(Len(g) + Len(one)) :
             (g \o one)[i] = IF i <= Len(g) THEN g[i] ELSE one[i - Len(g)]
    BY <1>1, ConcatProperties
  <2> QED  BY <1>1, <2>1
<1>4. (g \o one)[Len(g) + 1] = now
  BY <1>1, <1>2, <1>3
<1>5. \A i \in 1..Len(g) : (g \o one)[i] = g[i]
  BY <1>2, <1>3
<1> QED  BY <1>3, <1>4, <1>5 DEF Granted, one

(* A call on a bucket keeps it within its rate, whether it affords the     *)
(* token or not.                                                           *)
LEMMA ConsumeEarns ==
  ASSUME NEW now \in Nat, NEW x \in BucketsBy(now), NEW g \in Seq(Nat),
         Earned(x, g), WithinRate(x.rule, g)
  PROVE  LET y == Consume(x, 1, now)
             h == IF Affords(x, 1, now) THEN Granted(g, 1, now) ELSE g
         IN  Earned(y, h) /\ WithinRate(y.rule, h)
<1> DEFINE y == Consume(x, 1, now)
           P == x.rule.perToken
           C == x.rule.capacity * P
           filled_ == AtMost(x.tokens + (now - x.last), C)
<1>1. /\ P \in Nat /\ C \in Nat /\ 1 * P = P
      /\ x.tokens \in Nat /\ x.last \in 0..now
  BY Times DEF BucketsBy, ValidRules
<1>2. /\ y \in BucketsBy(now) /\ y.rule = x.rule /\ y.last = now
      /\ Affords(x, 1, now) <=> filled_ >= 1 * P
      /\ y.tokens = IF Affords(x, 1, now) THEN filled_ - 1 * P ELSE filled_
  BY ConsumeTakes
<1>3. /\ Len(g) \in Nat
      /\ DOMAIN g = 1..Len(g)
      /\ \A i \in 1..Len(g) : g[i] \in Nat
  BY LenProperties, ElementOfSeq
<1>4. \A k \in Int : k * P \in Int
  BY <1>1, Times
<1>5. /\ filled_ \in Nat /\ filled_ <= C
      /\ filled_ <= x.tokens + (now - x.last)
  <2> HIDE DEF C
  <2> QED  BY <1>1 DEF AtMost
<1>6. \A i \in 1..Len(g) :
        /\ g[i] <= x.last
        /\ (Len(g) - i + 1) * P + x.tokens <= C + (x.last - g[i])
  BY DEF Earned
<1> HIDE DEF filled_, P, C, y
<1>7. ASSUME NEW i \in 1..Len(g)
      PROVE  /\ g[i] <= now
             /\ (Len(g) - i + 1) * P + filled_ <= C + (now - g[i])
  <2> DEFINE spent == (Len(g) - i + 1) * P
  <2>1. Len(g) - i + 1 \in Int
    BY <1>3
  <2>2. spent \in Int
    BY <1>4, <2>1
  <2>3. g[i] \in Nat /\ g[i] <= x.last /\ spent + x.tokens <= C + (x.last - g[i])
    BY <1>3, <1>6
  <2> HIDE DEF spent
  <2>4. spent + filled_ <= C + (now - g[i])
    <3>1. spent + filled_ <= spent + x.tokens + (now - x.last)
      BY <1>1, <1>5, <2>2
    <3>2. /\ C \in Int /\ x.tokens \in Int /\ x.last \in Int /\ now \in Int
          /\ g[i] \in Int /\ filled_ \in Int
      BY <1>1, <1>5, <2>3
    <3>3. spent + x.tokens <= C + (x.last - g[i])
      BY <2>3
    <3> QED  BY <2>2, <3>1, <3>2, <3>3, Chain
  <2>5. g[i] <= now
    BY <1>1, <2>3
  <2> QED  BY <2>4, <2>5 DEF spent
<1>8. CASE ~Affords(x, 1, now)
  <2>1. y.tokens = filled_ /\ y.rule = x.rule /\ y.last = now
    BY <1>2, <1>8
  <2>2. Earned(y, g)
    BY <1>7, <2>1 DEF Earned, P, C
  <2> QED  BY <1>8, <2>1, <2>2 DEF y
<1>9. CASE Affords(x, 1, now)
  <2> DEFINE h == Granted(g, 1, now)
  <2>1. y.tokens = filled_ - P /\ y.rule = x.rule /\ y.last = now /\ P <= filled_
    BY <1>1, <1>2, <1>5, <1>9
  <2>2. /\ h \in Seq(Nat)
        /\ Len(h) = Len(g) + 1
        /\ DOMAIN h = 1..(Len(g) + 1)
        /\ \A i \in 1..Len(g) : h[i] = g[i]
        /\ h[Len(g) + 1] = now
    BY GrantedOne, LenProperties
  <2> HIDE DEF h
  <2>3. ASSUME NEW i \in 1..Len(h)
        PROVE  /\ h[i] <= now
               /\ (Len(h) - i + 1) * P + (filled_ - P) <= C + (now - h[i])
    <3>1. CASE i = Len(g) + 1
      <4>1. Len(h) - i + 1 = 1
        BY <1>3, <2>2, <3>1
      <4>2. (Len(h) - i + 1) * P = P
        BY <1>1, <4>1
      <4> QED  BY <1>1, <1>5, <2>2, <3>1, <4>2
    <3>2. CASE i \in 1..Len(g)
      <4>1. Len(h) - i + 1 = (Len(g) - i + 1) + 1 /\ Len(g) - i + 1 \in Int
        BY <1>3, <2>2, <3>2
      <4>2. ((Len(g) - i + 1) + 1) * P = (Len(g) - i + 1) * P + P
        BY <1>1, <4>1, Times
      <4>3. h[i] = g[i] /\ g[i] \in Nat
        BY <1>3, <2>2, <3>2
      <4> DEFINE spent == (Len(g) - i + 1) * P
      <4>4. spent \in Int
        BY <1>4, <4>1
      <4>5. g[i] <= now /\ spent + filled_ <= C + (now - g[i])
        BY <1>7, <3>2
      <4>6. (Len(h) - i + 1) * P = spent + P
        BY <4>1, <4>2
      <4> HIDE DEF spent
      <4>7. (spent + P) + (filled_ - P) <= C + (now - g[i])
        BY <1>1, <1>5, <4>3, <4>4, <4>5
      <4> QED  BY <4>3, <4>5, <4>6, <4>7
    <3>3. i = Len(g) + 1 \/ i \in 1..Len(g)
      BY <1>3, <2>2
    <3> QED  BY <3>1, <3>2, <3>3
  <2>4. Earned(y, h)
    BY <2>1, <2>3 DEF Earned, P, C
  <2>5. WithinRate(x.rule, h)
    <3> SUFFICES ASSUME NEW i \in 1..(Len(g) + 1), NEW j \in 1..(Len(g) + 1), i <= j
                 PROVE  (j - i + 1) * P <= C + (h[j] - h[i])
      BY <2>2 DEF WithinRate, P, C
    <3>1. CASE j = Len(g) + 1
      <4> DEFINE spent == (j - i + 1) * P
      <4>1. Len(h) = j /\ i \in 1..Len(h) /\ h[j] = now /\ j - i + 1 \in Int
        BY <1>3, <2>2, <3>1
      <4>2. h[i] \in Nat /\ spent \in Int
        BY <1>4, <2>2, <4>1, ElementOfSeq
      <4>3. spent + (filled_ - P) <= C + (now - h[i])
        BY <2>3, <4>1
      <4> HIDE DEF spent
      <4>4. spent <= C + (now - h[i])
        BY <1>1, <1>5, <2>1, <4>2, <4>3
      <4> QED  BY <4>1, <4>4 DEF spent
    <3>2. CASE j \in 1..Len(g)
      <4>1. i \in 1..Len(g)
        BY <1>3, <3>2
      <4>2. (j - i + 1) * P <= C + (g[j] - g[i])
        BY <1>3, <3>2, <4>1 DEF WithinRate, P, C
      <4> QED  BY <2>2, <3>2, <4>1, <4>2
    <3> QED  BY <1>3, <3>1, <3>2
  <2>6. h = IF Affords(x, 1, now) THEN Granted(g, 1, now) ELSE g
    BY <1>9 DEF h
  <2> QED  BY <2>1, <2>4, <2>5, <2>6 DEF y
<1> QED  BY <1>8, <1>9

(* A new bucket that has handed out nothing has earned it.                 *)
LEMMA NothingGranted ==
  ASSUME NEW x, NEW rule
  PROVE  Earned(x, << >>) /\ WithinRate(rule, << >>)
BY EmptySeq DEF Earned, WithinRate

(* A step that leaves the buckets, the rules and the clock alone.          *)
LEMMA TierStays ==
  ASSUME TierInv,
         UNCHANGED <<dynamicRules, bucketOf, tierNow, updates, grants, owed>>,
         todo' \in [Checker -> Seq(Bucket)],
         ruleRead' \in [Checker -> SUBSET ValidRules],
         \A c \in Checker : ruleRead'[c] # {} => todo'[c] # << >>
  PROVE  TierInv'
<1>1. TierShape'
  BY DEF TierInv, TierShape, RuleFor
<1>2. TierBooks'
  BY DEF TierInv, TierBooks
<1>3. TierDebts'
  BY DEF TierInv, TierDebts, RuleFor
<1> QED  BY <1>1, <1>2, <1>3 DEF TierInv

(* A check of a bucket.                                                    *)
LEMMA CheckBucketKeepsTiers ==
  ASSUME TierInv, NEW c \in Checker, CheckBucket(c)
  PROVE  TierInv'
<1> DEFINE b == Head(todo[c])
<1>0. TierShape /\ TierBooks /\ TierDebts
  BY DEF TierInv
<1>1. PICK rule \in ruleRead[c] :
        LET before == IF bucketOf[b] = {} THEN {NewBucket(rule, tierNow)} ELSE bucketOf[b]
            now == {Replaced(bucket, rule) : bucket \in before}
            stays == \A bucket \in before : bucket.rule = rule
        IN
        /\ bucketOf' = [bucketOf EXCEPT ![b] = {Consume(bucket, 1, tierNow) : bucket \in now}]
        /\ grants' = [grants EXCEPT
             ![b] = IF \E bucket \in now : Affords(bucket, 1, tierNow)
                    THEN Granted(IF stays THEN @ ELSE << >>, 1, tierNow)
                    ELSE IF stays THEN @ ELSE << >>]
        /\ owed' = [owed EXCEPT ![b] = @ + (IF rule \in RuleFor(TierOf[b]) THEN 0 ELSE 2)
                                         - (IF stays THEN 0 ELSE 1)]
        /\ todo' = [todo EXCEPT ![c] = Tail(@)]
        /\ ruleRead' = [ruleRead EXCEPT ![c] = {}]
        /\ UNCHANGED <<dynamicRules, tierNow, updates>>
  BY DEF CheckBucket
<1>2. /\ todo[c] \in Seq(Bucket) /\ todo[c] # << >>
      /\ rule \in ValidRules /\ tierNow \in Nat
  BY <1>0 DEF TierShape
<1>3. b \in Bucket /\ Tail(todo[c]) \in Seq(Bucket)
  BY <1>2, HeadTailProperties
<1> HIDE DEF b
<1> DEFINE before == IF bucketOf[b] = {} THEN {NewBucket(rule, tierNow)} ELSE bucketOf[b]
<1>4. PICK x \in BucketsBy(tierNow) :
        before = {x} /\ (IF bucketOf[b] = {} THEN x = NewBucket(rule, tierNow) ELSE bucketOf[b] = {x})
  <2>1. CASE bucketOf[b] = {}
    BY <1>2, <2>1, NewBucketIsOne
  <2>2. CASE bucketOf[b] # {}
    <3>1. PICK x \in BucketsBy(tierNow) : bucketOf[b] = {x}
      BY <1>0, <1>3, <2>2 DEF TierShape
    <3> QED  BY <2>2, <3>1
  <2> QED  BY <2>1, <2>2
<1> HIDE DEF before
<1> DEFINE y == Replaced(x, rule)
           z == Consume(y, 1, tierNow)
           old == IF x.rule = rule THEN grants[b] ELSE << >>
           new == IF Affords(y, 1, tierNow) THEN Granted(old, 1, tierNow) ELSE old
           debt == owed[b] + (IF rule \in RuleFor(TierOf[b]) THEN 0 ELSE 2)
                           - (IF x.rule = rule THEN 0 ELSE 1)
<1>5. /\ bucketOf' = [bucketOf EXCEPT ![b] = {z}]
      /\ grants' = [grants EXCEPT ![b] = new]
      /\ owed' = [owed EXCEPT ![b] = debt]
      /\ todo' = [todo EXCEPT ![c] = Tail(todo[c])]
      /\ ruleRead' = [ruleRead EXCEPT ![c] = {}]
      /\ UNCHANGED <<dynamicRules, tierNow, updates>>
  <2> DEFINE now == {Replaced(bucket, rule) : bucket \in before}
             stays == \A bucket \in before : bucket.rule = rule
  <2>1. now = {y} /\ (stays <=> x.rule = rule)
    BY <1>4
  <2>2. /\ bucketOf' = [bucketOf EXCEPT ![b] = {Consume(bucket, 1, tierNow) : bucket \in now}]
        /\ grants' = [grants EXCEPT
             ![b] = IF \E bucket \in now : Affords(bucket, 1, tierNow)
                    THEN Granted(IF stays THEN grants[b] ELSE << >>, 1, tierNow)
                    ELSE IF stays THEN grants[b] ELSE << >>]
        /\ owed' = [owed EXCEPT ![b] = owed[b] + (IF rule \in RuleFor(TierOf[b]) THEN 0 ELSE 2)
                                               - (IF stays THEN 0 ELSE 1)]
        /\ todo' = [todo EXCEPT ![c] = Tail(todo[c])]
        /\ ruleRead' = [ruleRead EXCEPT ![c] = {}]
        /\ UNCHANGED <<dynamicRules, tierNow, updates>>
    BY <1>1 DEF before, b
  <2> HIDE DEF now, stays, y
  <2> QED  BY <2>1, <2>2
<1>6. y \in BucketsBy(tierNow) /\ y.rule = rule
  BY <1>2, NewBucketIsOne DEF Replaced
<1>7. z \in BucketsBy(tierNow) /\ z.rule = rule
  BY <1>2, <1>6, ConsumeTakes
<1>8. old \in Seq(Nat) /\ Earned(y, old) /\ WithinRate(y.rule, old)
  <2>0. grants[b] \in Seq(Nat)
    BY <1>0, <1>3 DEF TierShape
  <2>1. CASE x.rule # rule
    BY <2>1, NothingGranted, EmptySeq
  <2>2. CASE x.rule = rule /\ bucketOf[b] = {}
    <3>1. grants[b] = << >>
      BY <1>0, <1>3, <2>2 DEF TierBooks
    <3> QED  BY <2>0, <2>2, <3>1, NothingGranted
  <2>3. CASE x.rule = rule /\ bucketOf[b] # {}
    <3>1. bucketOf[b] = {x} /\ y = x
      BY <1>4, <2>3 DEF Replaced
    <3>2. Earned(x, grants[b]) /\ WithinRate(x.rule, grants[b])
      BY <1>0, <1>3, <3>1 DEF TierBooks
    <3> QED  BY <2>0, <2>3, <3>1, <3>2
  <2> QED  BY <2>1, <2>2, <2>3
<1>9. Earned(z, new) /\ WithinRate(z.rule, new) /\ new \in Seq(Nat)
  <2> HIDE DEF y, old
  <2>1. Earned(z, new) /\ WithinRate(z.rule, new)
    BY <1>2, <1>6, <1>8, ConsumeEarns
  <2>2. Granted(old, 1, tierNow) \in Seq(Nat)
    BY <1>2, <1>8, GrantedOne
  <2> QED  BY <1>8, <2>1, <2>2
<1>10. /\ debt \in Int /\ debt >= 0
       /\ rule \notin RuleFor(TierOf[b]) => debt >= 1
  <2>1. owed[b] \in Int /\ owed[b] >= 0
    BY <1>0, <1>3 DEF TierShape, TierDebts
  <2>2. CASE rule \in RuleFor(TierOf[b]) /\ x.rule # rule
    <3>1. bucketOf[b] = {x}
      BY <1>2, <1>4, <2>2, NewBucketIsOne
    <3>2. TierOf[b] \in Tier
      BY <1>3, MultiTierAssumption
    <3>3. x.rule \notin RuleFor(TierOf[b])
      BY <1>0, <2>2, <3>2 DEF TierShape
    <3>4. owed[b] >= 1
      BY <1>0, <1>3, <3>1, <3>3 DEF TierDebts
    <3> QED  BY <2>1, <2>2, <3>4
  <2>3. CASE rule \in RuleFor(TierOf[b]) /\ x.rule = rule
    BY <2>1, <2>3
  <2>4. CASE rule \notin RuleFor(TierOf[b])
    BY <2>1, <2>4
  <2> QED  BY <2>2, <2>3, <2>4
<1> HIDE DEF z, new, debt
<1>11. TierShape'
  <2>1. bucketOf' \in [Bucket -> SUBSET BucketsBy(tierNow)]
    BY <1>0, <1>5, <1>7 DEF TierShape
  <2>2. \A a \in Bucket : bucketOf'[a] = {} \/ \E w \in BucketsBy(tierNow) : bucketOf'[a] = {w}
    BY <1>0, <1>5, <1>7 DEF TierShape
  <2>3. /\ todo' \in [Checker -> Seq(Bucket)]
        /\ ruleRead' \in [Checker -> SUBSET ValidRules]
        /\ \A d \in Checker : ruleRead'[d] # {} => todo'[d] # << >>
    BY <1>0, <1>3, <1>5 DEF TierShape
  <2>4. grants' \in [Bucket -> Seq(Nat)] /\ owed' \in [Bucket -> Int]
    BY <1>0, <1>5, <1>9, <1>10 DEF TierShape
  <2> QED  BY <1>0, <1>5, <2>1, <2>2, <2>3, <2>4 DEF TierShape, RuleFor
<1>12. TierBooks'
  <2> SUFFICES ASSUME NEW a \in Bucket
               PROVE  /\ bucketOf'[a] = {} => grants'[a] = << >>
                      /\ \A w \in bucketOf'[a] : Earned(w, grants'[a]) /\ WithinRate(w.rule, grants'[a])
    BY DEF TierBooks
  <2>1. CASE a = b
    <3>1. bucketOf'[a] = {z} /\ grants'[a] = new
      BY <1>0, <1>3, <1>5, <2>1 DEF TierShape
    <3> QED  BY <1>9, <3>1
  <2>2. CASE a # b
    <3>1. bucketOf'[a] = bucketOf[a] /\ grants'[a] = grants[a]
      BY <1>0, <1>5, <2>2 DEF TierShape
    <3> QED  BY <1>0, <3>1 DEF TierBooks
  <2> QED  BY <2>1, <2>2
<1>13. TierDebts'
  <2> SUFFICES ASSUME NEW a \in Bucket
               PROVE  /\ owed'[a] >= 0
                      /\ \A w \in bucketOf'[a] : w.rule \notin RuleFor(TierOf[a]) => owed'[a] >= 1
    BY <1>5 DEF TierDebts, RuleFor
  <2>1. CASE a = b
    <3>1. bucketOf'[a] = {z} /\ owed'[a] = debt
      BY <1>0, <1>3, <1>5, <2>1 DEF TierShape
    <3> QED  BY <1>7, <1>10, <2>1, <3>1
  <2>2. CASE a # b
    <3>1. bucketOf'[a] = bucketOf[a] /\ owed'[a] = owed[a]
      BY <1>0, <1>5, <2>2 DEF TierShape
    <3> QED  BY <1>0, <3>1 DEF TierDebts
  <2> QED  BY <2>1, <2>2
<1> QED  BY <1>11, <1>12, <1>13 DEF TierInv

(* A change of a rule.                                                     *)
LEMMA UpdateRuleKeepsTiers ==
  ASSUME TierInv, NEW t \in Tier, NEW rule \in NewRules, UpdateRule(t, rule)
  PROVE  TierInv'
<1>0. TierShape /\ TierBooks /\ TierDebts
  BY DEF TierInv
<1>1. /\ updates < MaxUpdates
      /\ updates' = updates + 1
      /\ dynamicRules' = [dynamicRules EXCEPT ![t] = {rule}]
      /\ owed' = [b \in Bucket |->
                    owed[b] + (IF TierOf[b] = t /\ RuleFor(t) # {rule} THEN 1 ELSE 0)]
      /\ UNCHANGED <<bucketOf, todo, ruleRead, tierNow, grants>>
  BY DEF UpdateRule
<1>2. /\ RuleFor(t)' = {rule}
      /\ \A s \in Tier : s # t => RuleFor(s)' = RuleFor(s)
  BY <1>0, <1>1 DEF TierShape, RuleFor
<1>3. \A b \in Bucket : owed[b] \in Int /\ TierOf[b] \in Tier
  BY <1>0, MultiTierAssumption DEF TierShape
<1>4. TierShape'
  <2>1. updates' \in 0..MaxUpdates
    BY <1>0, <1>1, MultiTierAssumption DEF TierShape
  <2>2. dynamicRules' \in [Tier -> SUBSET NewRules]
    BY <1>0, <1>1 DEF TierShape
  <2>3. \A s \in Tier : \A p, q \in RuleFor(s)' : p = q
    BY <1>0, <1>2 DEF TierShape
  <2>4. owed' \in [Bucket -> Int]
    BY <1>1, <1>3
  <2> QED  BY <1>0, <1>1, <2>1, <2>2, <2>3, <2>4 DEF TierShape
<1>5. TierBooks'
  BY <1>0, <1>1 DEF TierBooks
<1>6. TierDebts'
  <2> SUFFICES ASSUME NEW b \in Bucket
               PROVE  /\ owed'[b] >= 0
                      /\ \A x \in bucketOf[b] : x.rule \notin RuleFor(TierOf[b])' => owed'[b] >= 1
    BY <1>1 DEF TierDebts
  <2>1. owed[b] >= 0
    BY <1>0 DEF TierDebts
  <2>2. CASE TierOf[b] = t /\ RuleFor(t) # {rule}
    BY <1>1, <1>3, <2>1, <2>2
  <2>3. CASE ~(TierOf[b] = t /\ RuleFor(t) # {rule})
    <3>1. owed'[b] = owed[b]
      BY <1>1, <1>3, <2>3
    <3>2. RuleFor(TierOf[b])' = RuleFor(TierOf[b])
      BY <1>2, <1>3, <2>3
    <3> QED  BY <1>0, <2>1, <3>1, <3>2 DEF TierDebts
  <2> QED  BY <2>2, <2>3
<1> QED  BY <1>4, <1>5, <1>6 DEF TierInv

(* Every step keeps the tiers' buckets in order.                           *)
LEMMA TierStepKeepsBooks == TierInv /\ [MultiTierNext]_multiTierVars => TierInv'
<1> SUFFICES ASSUME TierInv, [MultiTierNext]_multiTierVars
             PROVE  TierInv'
  OBVIOUS
<1>0. TierShape
  BY DEF TierInv
<1>1. ASSUME NEW c \in Checker, NEW checks \in Checks, Check(c, checks)
      PROVE  TierInv'
  <2>1. checks \in Seq(Bucket) /\ checks # << >>
    BY MultiTierAssumption
  <2>2. /\ todo' = [todo EXCEPT ![c] = checks]
        /\ UNCHANGED <<dynamicRules, bucketOf, ruleRead, tierNow, updates, grants, owed>>
    BY <1>1 DEF Check
  <2> QED  BY <1>0, <2>1, <2>2, TierStays DEF TierShape
<1>2. ASSUME NEW c \in Checker, ReadRule(c)
      PROVE  TierInv'
  <2> DEFINE rule == RuleFor(TierOf[Head(todo[c])])
  <2>1. /\ todo[c] # << >>
        /\ ruleRead[c] = {}
        /\ ruleRead' = [ruleRead EXCEPT ![c] = rule]
        /\ todo' = IF rule = {} THEN [todo EXCEPT ![c] = Tail(todo[c])] ELSE todo
        /\ UNCHANGED <<dynamicRules, bucketOf, tierNow, updates, grants, owed>>
    BY <1>2 DEF ReadRule
  <2>2. Head(todo[c]) \in Bucket /\ Tail(todo[c]) \in Seq(Bucket)
    BY <1>0, <2>1, HeadTailProperties DEF TierShape
  <2>3. TierOf[Head(todo[c])] \in Tier
    BY <2>2, MultiTierAssumption
  <2>4. rule \subseteq ValidRules
    BY <1>0, <2>3, RuleForValid
  <2> HIDE DEF rule
  <2>5. /\ todo' \in [Checker -> Seq(Bucket)]
        /\ ruleRead' \in [Checker -> SUBSET ValidRules]
    BY <1>0, <2>1, <2>2, <2>4 DEF TierShape
  <2>6. \A d \in Checker : ruleRead'[d] # {} => todo'[d] # << >>
    BY <1>0, <2>1 DEF TierShape
  <2> QED  BY <2>1, <2>5, <2>6, TierStays
<1>3. ASSUME NEW c \in Checker, CheckBucket(c)
      PROVE  TierInv'
  BY <1>3, CheckBucketKeepsTiers
<1>4. ASSUME NEW t \in Tier, NEW rule \in NewRules, UpdateRule(t, rule)
      PROVE  TierInv'
  BY <1>4, UpdateRuleKeepsTiers
<1>5. ASSUME TierTick
      PROVE  TierInv'
  <2>1. /\ tierNow' = tierNow + 1
        /\ UNCHANGED <<dynamicRules, bucketOf, todo, ruleRead, updates, grants, owed>>
    BY <1>5 DEF TierTick
  <2>2. BucketsBy(tierNow) \subseteq BucketsBy(tierNow') /\ tierNow' \in Nat
    BY <1>0, <2>1, BucketsLast DEF TierShape
  <2>3. TierShape'
    <3>1. bucketOf' \in [Bucket -> SUBSET BucketsBy(tierNow')]
      BY <1>0, <2>1, <2>2 DEF TierShape
    <3>2. \A b \in Bucket : bucketOf'[b] = {} \/ \E x \in BucketsBy(tierNow') : bucketOf'[b] = {x}
      BY <1>0, <2>1, <2>2 DEF TierShape
    <3> QED  BY <1>0, <2>1, <2>2, <3>1, <3>2 DEF TierShape, RuleFor
  <2>4. TierBooks'
    BY <2>1 DEF TierInv, TierBooks
  <2>5. TierDebts'
    BY <2>1 DEF TierInv, TierDebts, RuleFor
  <2> QED  BY <2>3, <2>4, <2>5 DEF TierInv
<1>6. ASSUME UNCHANGED multiTierVars
      PROVE  TierInv'
  BY <1>0, <1>6, TierStays DEF multiTierVars, TierShape
<1> QED  BY <1>1, <1>2, <1>3, <1>4, <1>5, <1>6 DEF MultiTierNext

(* The tiers are typed: no bucket holds more than its rule's capacity.     *)
THEOREM MultiTierIsTyped == MultiTierSpec => []MultiTierTypeOK
<1>1. TierInv => MultiTierTypeOK
  <2> SUFFICES ASSUME TierShape
               PROVE  MultiTierTypeOK
    BY DEF TierInv
  <2>1. ASSUME NEW b \in Bucket, NEW x \in bucketOf[b]
        PROVE  /\ x.rule \in ValidRules
               /\ x.tokens \in 0..(x.rule.capacity * x.rule.perToken)
               /\ x.last \in 0..tierNow
    <3>1. x \in BucketsBy(tierNow)
      BY DEF TierShape
    <3>2. x.rule.capacity * x.rule.perToken \in Nat
      BY <3>1, Times DEF BucketsBy, ValidRules
    <3> QED  BY <3>1, <3>2 DEF BucketsBy
  <2> QED  BY <2>1 DEF TierShape, MultiTierTypeOK
<1> QED  BY <1>1, TierInitially, TierStepKeepsBooks, PTL DEF MultiTierSpec

(* Between any two of its grants no tier's bucket hands out more than its  *)
(* rule allows, however the threads and the operator take turns.           *)
THEOREM TierRateIsBounded == MultiTierSpec => []TierRateBound
<1>1. TierInv => TierRateBound
  BY DEF TierInv, TierBooks, TierRateBound
<1> QED  BY <1>1, TierInitially, TierStepKeepsBooks, PTL DEF MultiTierSpec

(* A bucket is replaced by a full one only on account of a change of rule. *)
THEOREM TierReplacementsAccounted == MultiTierSpec => []ReplacementsAccounted
<1>1. TierInv => ReplacementsAccounted
  BY DEF TierInv, TierDebts, ReplacementsAccounted
<1> QED  BY <1>1, TierInitially, TierStepKeepsBooks, PTL DEF MultiTierSpec

-----------------------------------------------------------------------------
(* The limits of a configuration.                                          *)

(* Of finitely many prefixes one is the longest: a smallest set without    *)
(* one would have one more than a smaller set that has one.                *)
LEMMA LongestExists ==
  ASSUME NEW rules, IsFiniteSet(rules), rules # {},
         \A rule \in rules : rule.length \in Nat
  PROVE  \E rule \in rules : \A other \in rules : other.length <= rule.length
<1> DEFINE HasLongest(T) == \E rule \in T : \A other \in T : other.length <= rule.length
           Bad == {T \in SUBSET rules : T # {} /\ ~HasLongest(T)}
<1>1. SUFFICES ASSUME Bad # {}
               PROVE  FALSE
  <2> SUFFICES ASSUME ~HasLongest(rules)
               PROVE  Bad # {}
    BY <1>1
  <2>1. rules \in Bad
    OBVIOUS
  <2> QED  BY <2>1
<1>2. IsWellFoundedOn(StrictSubsetOrdering(rules), SUBSET rules)
  BY FS_StrictSubsetOrderingWellFounded, FS_FiniteSubsetsOfFinite
<1>3. PICK T \in Bad : \A U \in Bad : <<U, T>> \notin StrictSubsetOrdering(rules)
  <2>1. Bad \subseteq SUBSET rules
    OBVIOUS
  <2> HIDE DEF Bad
  <2> QED  BY <1>1, <1>2, <2>1, WFMin
<1>4. PICK rule \in T : TRUE
  BY <1>3
<1>5. T \ {rule} \notin Bad
  <2>1. <<T \ {rule}, T>> \in StrictSubsetOrdering(rules)
    BY <1>3, <1>4 DEF StrictSubsetOrdering
  <2> QED  BY <1>3, <2>1
<1>6. T \in SUBSET rules /\ T # {} /\ ~HasLongest(T)
  BY <1>3
<1>7. T \ {rule} = {} \/ HasLongest(T \ {rule})
  BY <1>5, <1>6
<1>8. CASE T \ {rule} = {}
  <2>1. \A other \in T : other = rule
    BY <1>8
  <2>2. rule.length <= rule.length
    BY <1>4, <1>6
  <2>3. HasLongest(T)
    BY <1>4, <2>1, <2>2
  <2> QED  BY <1>6, <2>3
<1>9. CASE HasLongest(T \ {rule})
  <2>1. PICK long \in T \ {rule} : \A other \in T \ {rule} : other.length <= long.length
    BY <1>9
  <2>2. long.length \in Nat /\ rule.length \in Nat /\ \A other \in T : other.length \in Nat
    BY <1>4, <1>6, <2>1
  <2>3. CASE rule.length <= long.length
    BY <1>6, <2>1, <2>3
  <2>4. CASE ~(rule.length <= long.length)
    <3>1. long.length <= rule.length
      BY <2>2, <2>4
    <3>2. \A other \in T : other.length <= rule.length
      BY <2>1, <2>2, <3>1
    <3> QED  BY <1>4, <1>6, <3>2
  <2> QED  BY <2>3, <2>4
<1> QED  BY <1>7, <1>8, <1>9

(* Limits are numbers.                                                     *)
LEMMA LimitsAreNat == Limits \subseteq Nat
BY GatewayAssumption DEF Limits

(* What a path is limited to is a limit of the configuration, or none.     *)
LEMMA LimitOfTyped ==
  ASSUME NEW p \in PipeConfigs, NEW r
  PROVE  LimitOf(p, r) \in Limits \cup {NoLimit}
<1> DEFINE rules == {rule \in p.limits : r.path \in rule.covers}
<1>1. CASE rules = {}
  BY <1>1 DEF LimitOf
<1>2. CASE rules # {}
  <2>1. IsFiniteSet(rules) /\ \A rule \in rules : rule.length \in Nat
    BY GatewayAssumption, FS_Subset
  <2>2. \E rule \in rules : \A other \in rules : other.length <= rule.length
    <3> HIDE DEF rules
    <3> QED  BY <1>2, <2>1, LongestExists
  <2> DEFINE longest == CHOOSE rule \in rules : \A other \in rules : other.length <= rule.length
  <2>3. longest \in rules
    <3> HIDE DEF rules
    <3> QED  BY <2>2
  <2>4. longest \in p.limits
    BY <2>3
  <2>5. LimitOf(p, r) = longest.limit
    BY <1>2 DEF LimitOf
  <2> HIDE DEF longest
  <2> QED  BY <2>4, <2>5 DEF Limits
<1> QED  BY <1>1, <1>2

(* The key of a request is one.                                            *)
LEMMA KeyOfTyped ==
  ASSUME NEW p, NEW r \in Request
  PROVE  KeyOf(p, r) \in Keys
BY DEF KeyOf, Keys

-----------------------------------------------------------------------------
(* The log of a key.                                                       *)

(* The calls made from some time on and admitted before a window is over.  *)
Counted(made, from) ==
  {n \in DOMAIN made : made[n][1] >= from /\ made[n][2] < from + WindowLength}

(* The log is what was admitted last, in the order of admission; what was  *)
(* admitted before that has expired; and no window has more than the limit.*)
LogRight(limit, log, made, now) ==
  /\ Len(log) <= limit
  /\ Len(log) <= Len(made)
  /\ \A j \in 1..Len(log) : log[j] = made[Len(made) - Len(log) + j][1]
  /\ \A m \in 1..(Len(made) - Len(log)) : made[m][1] + WindowLength <= now
  /\ \A from \in Nat : Cardinality(Counted(made, from)) <= limit

(* What drains from the log are its first calls, and they have expired.    *)
LEMMA Drains ==
  ASSUME NEW log \in Seq(Nat), NEW now \in Nat
  PROVE  /\ DrainExpired(log, now) \in Seq(Nat)
         /\ Len(DrainExpired(log, now)) <= Len(log)
         /\ \A j \in 1..Len(DrainExpired(log, now)) :
              DrainExpired(log, now)[j] = log[Len(log) - Len(DrainExpired(log, now)) + j]
         /\ \A m \in 1..(Len(log) - Len(DrainExpired(log, now))) : log[m] + WindowLength <= now
<1> DEFINE fresh == {i \in DOMAIN log : now - log[i] < WindowLength}
           rest == DrainExpired(log, now)
<1>1. /\ Len(log) \in Nat /\ DOMAIN log = 1..Len(log)
      /\ \A i \in 1..Len(log) : log[i] \in Nat
      /\ WindowLength \in Nat
  BY LenProperties, ElementOfSeq, GatewayAssumption
<1>2. CASE fresh = {}
  <2>1. rest = << >>
    BY <1>2 DEF DrainExpired
  <2>2. rest \in Seq(Nat) /\ Len(rest) = 0
    BY <2>1, EmptySeq
  <2>3. \A m \in 1..Len(log) : log[m] + WindowLength <= now
    <3>1. \A m \in 1..Len(log) : ~(now - log[m] < WindowLength)
      BY <1>1, <1>2
    <3> QED  BY <1>1, <3>1
  <2> HIDE DEF rest
  <2>4. /\ rest \in Seq(Nat)
        /\ Len(rest) <= Len(log)
        /\ \A j \in 1..Len(rest) : rest[j] = log[Len(log) - Len(rest) + j]
        /\ \A m \in 1..(Len(log) - Len(rest)) : log[m] + WindowLength <= now
    BY <1>1, <2>2, <2>3
  <2> QED  BY <2>4 DEF rest
<1>3. CASE fresh # {}
  <2> DEFINE first == CHOOSE i \in fresh : \A j \in fresh : i <= j
  <2>1. \E i \in fresh : \A j \in fresh : i <= j
    <3>1. fresh \subseteq Nat
      BY <1>1
    <3> HIDE DEF fresh
    <3>2. PICK i \in fresh : \A j \in fresh : <<j, i>> \notin OpToRel(<, Nat)
      BY <1>3, <3>1, NatLessThanWellFounded, WFMin
    <3>3. \A j \in fresh : ~(j < i)
      BY <3>1, <3>2 DEF OpToRel
    <3>4. \A j \in fresh : i <= j
      BY <3>1, <3>3
    <3> QED  BY <3>4
  <2>2. first \in fresh /\ \A j \in fresh : first <= j
    <3> HIDE DEF fresh
    <3> QED  BY <2>1
  <2>3. first \in 1..Len(log)
    BY <1>1, <2>2
  <2>4. rest = SubSeq(log, first, Len(log))
    BY <1>3 DEF DrainExpired
  <2>5. \A m \in 1..(first - 1) : log[m] + WindowLength <= now
    <3> SUFFICES ASSUME NEW m \in 1..(first - 1)
                 PROVE  log[m] + WindowLength <= now
      OBVIOUS
    <3>1. m \in 1..Len(log) /\ ~(first <= m)
      BY <1>1, <2>3
    <3>2. m \notin fresh
      BY <2>2, <3>1
    <3>3. ~(now - log[m] < WindowLength)
      BY <1>1, <3>1, <3>2
    <3> QED  BY <1>1, <3>1, <3>3
  <2> HIDE DEF first, fresh
  <2>6. /\ rest \in Seq(Nat)
        /\ Len(rest) = Len(log) - first + 1
        /\ \A j \in 1..(Len(log) - first + 1) : rest[j] = log[first + j - 1]
    <3>1. \A i \in first..Len(log) : log[i] \in Nat
      BY <1>1, <2>3
    <3> HIDE DEF rest
    <3> QED  BY <1>1, <2>3, <2>4, <3>1, SubSeqProperties
  <2> HIDE DEF rest
  <2>7. /\ rest \in Seq(Nat)
        /\ Len(rest) <= Len(log)
        /\ \A j \in 1..Len(rest) : rest[j] = log[Len(log) - Len(rest) + j]
        /\ \A m \in 1..(Len(log) - Len(rest)) : log[m] + WindowLength <= now
    BY <1>1, <2>3, <2>5, <2>6
  <2> QED  BY <2>7 DEF rest
<1> QED  BY <1>2, <1>3

(* Between two calls the log stays right, as time goes on.                 *)
LEMMA LogRightLater ==
  ASSUME NEW limit, NEW log, NEW made \in Seq(Nat \X Nat), NEW now \in Nat, NEW later \in Nat,
         Len(log) \in Nat, now <= later, LogRight(limit, log, made, now)
  PROVE  LogRight(limit, log, made, later)
<1>1. Len(made) \in Nat /\ \A m \in 1..Len(made) : made[m][1] \in Nat
  <2>1. Len(made) \in Nat /\ \A m \in 1..Len(made) : made[m] \in Nat \X Nat
    BY LenProperties, ElementOfSeq
  <2> QED  BY <2>1
<1>2. \A m \in 1..(Len(made) - Len(log)) : made[m][1] + WindowLength <= later
  <2> SUFFICES ASSUME NEW m \in 1..(Len(made) - Len(log))
               PROVE  made[m][1] + WindowLength <= later
    OBVIOUS
  <2>1. made[m][1] + WindowLength <= now
    BY DEF LogRight
  <2>2. m \in 1..Len(made)
    BY <1>1
  <2> QED  BY <1>1, <2>1, <2>2, GatewayAssumption
<1> QED  BY <1>2 DEF LogRight

(* Draining what has expired by the stamp of a call keeps the log right.   *)
LEMMA DrainedRight ==
  ASSUME NEW limit \in Nat, NEW log \in Seq(Nat), NEW made \in Seq(Nat \X Nat),
         NEW now \in Nat, NEW stamp \in Nat, stamp <= now,
         LogRight(limit, log, made, now)
  PROVE  LogRight(limit, DrainExpired(log, stamp), made, now)
<1> DEFINE rest == DrainExpired(log, stamp)
<1>1. /\ Len(log) \in Nat /\ Len(made) \in Nat
      /\ \A m \in 1..Len(log) : log[m] \in Nat
      /\ WindowLength \in Nat
  BY LenProperties, ElementOfSeq, GatewayAssumption
<1>2. /\ rest \in Seq(Nat)
      /\ Len(rest) <= Len(log)
      /\ \A j \in 1..Len(rest) : rest[j] = log[Len(log) - Len(rest) + j]
      /\ \A m \in 1..(Len(log) - Len(rest)) : log[m] + WindowLength <= stamp
  BY Drains
<1> HIDE DEF rest
<1>3. Len(rest) \in Nat
  BY <1>2, LenProperties
<1>4. /\ Len(log) <= limit
      /\ Len(log) <= Len(made)
      /\ \A j \in 1..Len(log) : log[j] = made[Len(made) - Len(log) + j][1]
      /\ \A m \in 1..(Len(made) - Len(log)) : made[m][1] + WindowLength <= now
      /\ \A from \in Nat : Cardinality(Counted(made, from)) <= limit
  BY DEF LogRight
<1>5. Len(rest) <= limit /\ Len(rest) <= Len(made)
  BY <1>1, <1>2, <1>3, <1>4
<1>6. ASSUME NEW j \in 1..Len(rest)
      PROVE  rest[j] = made[Len(made) - Len(rest) + j][1]
  <2> DEFINE k == Len(log) - Len(rest) + j
  <2>1. k \in 1..Len(log) /\ Len(made) - Len(log) + k = Len(made) - Len(rest) + j
    BY <1>1, <1>2, <1>3
  <2>2. rest[j] = log[k]
    BY <1>2
  <2> HIDE DEF k
  <2>3. log[k] = made[Len(made) - Len(log) + k][1]
    BY <1>4, <2>1
  <2> QED  BY <2>1, <2>2, <2>3
<1>7. ASSUME NEW m \in 1..(Len(made) - Len(rest))
      PROVE  made[m][1] + WindowLength <= now
  <2>1. CASE m \in 1..(Len(made) - Len(log))
    BY <1>4, <2>1
  <2>2. CASE m \notin 1..(Len(made) - Len(log))
    <3> DEFINE k == m - (Len(made) - Len(log))
    <3>1. /\ k \in 1..(Len(log) - Len(rest)) /\ k \in 1..Len(log)
          /\ Len(made) - Len(log) + k = m
      BY <1>1, <1>2, <1>3, <1>4, <2>2
    <3> HIDE DEF k
    <3>2. log[k] = made[m][1] /\ log[k] + WindowLength <= stamp /\ log[k] \in Nat
      BY <1>1, <1>2, <1>4, <3>1
    <3> QED  BY <1>1, <3>2
  <2> QED  BY <2>1, <2>2
<1>8. LogRight(limit, rest, made, now)
  BY <1>4, <1>5, <1>6, <1>7 DEF LogRight
<1> QED  BY <1>8 DEF rest

(* Admitting a call while there is room keeps the log right: whatever is   *)
(* in a window together with the new call is still in the log.             *)
LEMMA AdmittedRight ==
  ASSUME NEW limit \in Nat, NEW log \in Seq(Nat), NEW made \in Seq(Nat \X Nat),
         NEW now \in Nat, NEW stamp \in Nat,
         LogRight(limit, log, made, now), Len(log) < limit
  PROVE  LogRight(limit, Append(log, stamp), Append(made, <<stamp, now>>), now)
<1> DEFINE new  == Append(log, stamp)
           more == Append(made, <<stamp, now>>)
<1>1. /\ Len(log) \in Nat /\ Len(made) \in Nat
      /\ \A m \in 1..Len(made) : made[m] \in Nat \X Nat
      /\ DOMAIN made = 1..Len(made)
      /\ WindowLength \in Nat
  BY LenProperties, ElementOfSeq, GatewayAssumption
<1>2. /\ Len(new) = Len(log) + 1
      /\ \A j \in 1..Len(log) : new[j] = log[j]
      /\ new[Len(log) + 1] = stamp
  BY AppendProperties
<1>3. /\ more \in Seq(Nat \X Nat)
      /\ Len(more) = Len(made) + 1
      /\ DOMAIN more = 1..(Len(made) + 1)
      /\ \A j \in 1..Len(made) : more[j] = made[j]
      /\ more[Len(made) + 1] = <<stamp, now>>
  <2>1. <<stamp, now>> \in Nat \X Nat
    OBVIOUS
  <2> QED  BY <1>1, <2>1, AppendProperties
<1> HIDE DEF new, more
<1>4. /\ Len(log) <= Len(made)
      /\ \A j \in 1..Len(log) : log[j] = made[Len(made) - Len(log) + j][1]
      /\ \A m \in 1..(Len(made) - Len(log)) : made[m][1] + WindowLength <= now
      /\ \A from \in Nat : Cardinality(Counted(made, from)) <= limit
  BY DEF LogRight
<1>5. Len(new) <= limit /\ Len(new) <= Len(more) /\ Len(more) - Len(new) = Len(made) - Len(log)
  BY <1>1, <1>2, <1>3, <1>4
<1>6. ASSUME NEW j \in 1..Len(new)
      PROVE  new[j] = more[Len(more) - Len(new) + j][1]
  <2>1. CASE j = Len(log) + 1
    <3>1. Len(more) - Len(new) + j = Len(made) + 1
      BY <1>1, <1>2, <1>3, <2>1
    <3> QED  BY <1>2, <1>3, <2>1, <3>1
  <2>2. CASE j \in 1..Len(log)
    <3>1. Len(more) - Len(new) + j = Len(made) - Len(log) + j
      BY <1>5
    <3>2. Len(made) - Len(log) + j \in 1..Len(made)
      <4>1. Len(log) <= Len(made)
        BY <1>4
      <4> QED  BY <1>1, <2>2, <4>1
    <3>3. more[Len(made) - Len(log) + j] = made[Len(made) - Len(log) + j]
      BY <1>3, <3>2
    <3>4. new[j] = log[j] /\ log[j] = made[Len(made) - Len(log) + j][1]
      BY <1>2, <1>4, <2>2
    <3> QED  BY <3>1, <3>3, <3>4
  <2> QED  BY <1>1, <1>2, <2>1, <2>2
<1>7. ASSUME NEW m \in 1..(Len(more) - Len(new))
      PROVE  more[m][1] + WindowLength <= now
  <2>1. m \in 1..(Len(made) - Len(log)) /\ m \in 1..Len(made)
    BY <1>1, <1>4, <1>5
  <2> QED  BY <1>3, <1>4, <2>1
<1>8. ASSUME NEW from \in Nat
      PROVE  Cardinality(Counted(more, from)) <= limit
  <2>1. CASE now < from + WindowLength
    <3> DEFINE last == (Len(more) - Len(new) + 1)..Len(more)
    <3>1. Counted(more, from) \subseteq last
      <4> SUFFICES ASSUME NEW n \in 1..Len(more), more[n][1] >= from
                   PROVE  n \in last
        BY <1>3 DEF Counted
      <4>1. more[n] \in Nat \X Nat
        BY <1>3, ElementOfSeq
      <4>2. ~(more[n][1] + WindowLength <= now)
        BY <1>1, <2>1, <4>1
      <4>3. n \notin 1..(Len(more) - Len(new))
        BY <1>7, <4>2
      <4> QED  BY <1>1, <1>2, <1>3, <4>3
    <3>2. IsFiniteSet(last) /\ Cardinality(last) <= Len(new)
      BY <1>1, <1>2, <1>3, <1>5, FS_Interval
    <3>3. Cardinality(Counted(more, from)) <= Cardinality(last) /\ Cardinality(last) \in Nat
          /\ Cardinality(Counted(more, from)) \in Nat
      BY <3>1, <3>2, FS_Subset, FS_CardinalityType
    <3> HIDE DEF last
    <3> QED  BY <1>1, <1>2, <1>5, <3>2, <3>3
  <2>2. CASE ~(now < from + WindowLength)
    <3>1. Counted(more, from) = Counted(made, from)
      <4>1. Len(made) + 1 \notin Counted(more, from)
        BY <1>3, <2>2 DEF Counted
      <4>2. \A n \in 1..Len(made) : n \in Counted(more, from) <=> n \in Counted(made, from)
        <5> SUFFICES ASSUME NEW n \in 1..Len(made)
                     PROVE  n \in Counted(more, from) <=> n \in Counted(made, from)
          OBVIOUS
        <5>1. more[n] = made[n] /\ n \in DOMAIN made /\ n \in DOMAIN more
          BY <1>1, <1>3
        <5> QED  BY <5>1 DEF Counted
      <4>3. Counted(made, from) \subseteq 1..Len(made) /\ Counted(more, from) \subseteq 1..(Len(made) + 1)
        BY <1>1, <1>3 DEF Counted
      <4>4. \A n \in 1..(Len(made) + 1) : n \in 1..Len(made) \/ n = Len(made) + 1
        BY <1>1
      <4> QED  BY <4>1, <4>2, <4>3, <4>4
    <3> QED  BY <1>4, <3>1
  <2> QED  BY <2>1, <2>2
<1>9. LogRight(limit, new, more, now)
  BY <1>5, <1>6, <1>7, <1>8 DEF LogRight
<1> QED  BY <1>9 DEF new, more

-----------------------------------------------------------------------------
(* The gateway.                                                            *)

Windowed == [limit : Limits \ {0}, logs : [Keys -> Seq(Nat)], made : [Keys -> Seq(Nat \X Nat)]]

AnyRequest(pipes, objects, now) ==
  [stage : GateStages, pipe : 1..pipes, limit : Limits \cup {NoLimit, 0},
   key : Keys \cup {<<"ip", Nobody>>}, object : 0..objects, stamp : 0..now, attempts : Nat]

(* The requests there can be while there are so many pipelines and         *)
(* limiters: one that looks for a limiter has a limit and a key, one that  *)
(* is to be counted has a limiter, and no stamp is from the future.        *)
RequestsBy(pipes, objects, now) ==
  {q \in AnyRequest(pipes, objects, now) :
     /\ q.stage \in {"limit", "creating", "stamped"} => q.limit \in Limits \ {0} /\ q.key \in Keys
     /\ q.stage = "stamped" => q.object # NoObject}

GateShape ==
  /\ pipelines \in Seq(PipeConfigs)
  /\ Len(pipelines) > 0
  /\ limiters \in Seq([Limits -> 0..Len(windows)])
  /\ Len(limiters) = Len(pipelines)
  /\ windows \in Seq(Windowed)
  /\ request \in [Conn -> RequestsBy(Len(pipelines), Len(windows), gateNow)]
  /\ gateNow \in Nat

LogsRight ==
  \A i \in 1..Len(windows) : \A k \in Keys :
    LogRight(windows[i].limit, windows[i].logs[k], windows[i].made[k], gateNow)

GateInv == GateShape /\ LogsRight

(* A request is one later, too, and when there are more pipelines and      *)
(* limiters.                                                               *)
LEMMA RequestsLast ==
  ASSUME NEW pipes \in Nat, NEW objects \in Nat, NEW now \in Nat,
         NEW pipes2 \in Nat, NEW objects2 \in Nat, NEW now2 \in Nat,
         pipes <= pipes2, objects <= objects2, now <= now2
  PROVE  RequestsBy(pipes, objects, now) \subseteq RequestsBy(pipes2, objects2, now2)
<1>1. 1..pipes \subseteq 1..pipes2 /\ 0..objects \subseteq 0..objects2 /\ 0..now \subseteq 0..now2
  OBVIOUS
<1> QED  BY <1>1 DEF RequestsBy, AnyRequest

(* The handler that waits is one, and so is one that sends.                *)
LEMMA ForwardIsOne ==
  ASSUME NEW pipes \in Nat \ {0}, NEW objects \in Nat, NEW now \in Nat, NEW pipe \in 1..pipes
  PROVE  /\ NoRequest \in RequestsBy(pipes, objects, now)
         /\ Forward(pipe) \in RequestsBy(pipes, objects, now)
<1>1. NoRequest \in AnyRequest(pipes, objects, now) /\ NoRequest.stage = "idle"
  BY DEF NoRequest, AnyRequest, GateStages, NoObject
<1>2. Forward(pipe) \in AnyRequest(pipes, objects, now) /\ Forward(pipe).stage = "sending"
  BY <1>1 DEF Forward, AnyRequest, GateStages
<1> QED  BY <1>1, <1>2 DEF RequestsBy

(* The gateway starts without limiters.                                    *)
LEMMA GateInitially == GatewayInit => GateInv
<1> SUFFICES ASSUME GatewayInit
             PROVE  GateInv
  OBVIOUS
<1>1. PICK p \in PipeConfigs : pipelines = <<p>>
  BY DEF GatewayInit
<1>2. windows = << >> /\ Len(windows) = 0 /\ gateNow = 0
  BY EmptySeq DEF GatewayInit
<1>3. pipelines \in Seq(PipeConfigs) /\ Len(pipelines) = 1
  BY <1>1
<1>4. limiters \in Seq([Limits -> 0..Len(windows)]) /\ Len(limiters) = 1
  <2>1. [l \in Limits |-> NoObject] \in [Limits -> 0..Len(windows)]
    BY <1>2 DEF NoObject
  <2> QED  BY <2>1 DEF GatewayInit
<1>5. windows \in Seq(Windowed)
  BY <1>2, EmptySeq
<1>6. request \in [Conn -> RequestsBy(Len(pipelines), Len(windows), gateNow)]
  <2>1. NoRequest \in RequestsBy(1, 0, 0)
    BY ForwardIsOne
  <2> QED  BY <1>2, <1>3, <2>1 DEF GatewayInit
<1>7. GateShape
  BY <1>2, <1>3, <1>4, <1>5, <1>6 DEF GateShape
<1>8. LogsRight
  BY <1>2 DEF LogsRight
<1> QED  BY <1>7, <1>8 DEF GateInv

(* What a step that concerns one handler alone has to keep.                *)
LEMMA OneRequest ==
  ASSUME GateInv, NEW c \in Conn, UNCHANGED <<pipelines, limiters, windows, gateNow>>,
         NEW q \in RequestsBy(Len(pipelines), Len(windows), gateNow),
         request' = [request EXCEPT ![c] = q]
  PROVE  GateInv'
<1>1. request' \in [Conn -> RequestsBy(Len(pipelines), Len(windows), gateNow)]
  BY DEF GateInv, GateShape
<1>2. GateShape'
  BY <1>1 DEF GateInv, GateShape
<1>3. LogsRight'
  BY DEF GateInv, LogsRight
<1> QED  BY <1>2, <1>3 DEF GateInv

(* Numbers of pipelines, limiters and so on, and the request of a handler. *)
LEMMA GateFacts ==
  ASSUME GateInv, NEW c \in Conn
  PROVE  /\ Len(pipelines) \in Nat \ {0} /\ Len(windows) \in Nat /\ gateNow \in Nat
         /\ request[c] \in RequestsBy(Len(pipelines), Len(windows), gateNow)
         /\ request[c].pipe \in 1..Len(pipelines)
<1>1. /\ Len(pipelines) \in Nat \ {0} /\ Len(windows) \in Nat /\ gateNow \in Nat
      /\ request[c] \in RequestsBy(Len(pipelines), Len(windows), gateNow)
  BY LenProperties DEF GateInv, GateShape
<1> QED  BY <1>1 DEF RequestsBy, AnyRequest

(* A handler takes a request.                                              *)
LEMMA AcceptKeeps ==
  ASSUME GateInv, NEW c \in Conn, NEW r \in Request, Accept(c, r)
  PROVE  GateInv'
<1> DEFINE pipe == Len(pipelines)
           p == pipelines[pipe]
           l == LimitOf(p, r)
           q == [NoRequest EXCEPT !.stage = "limit", !.pipe = pipe, !.limit = l,
                                  !.key = KeyOf(p, r)]
<1>1. pipe \in Nat \ {0} /\ Len(windows) \in Nat /\ gateNow \in Nat
  BY GateFacts
<1>2. p \in PipeConfigs
  BY <1>1, ElementOfSeq DEF GateInv, GateShape
<1>3. l \in Limits \cup {NoLimit} /\ KeyOf(p, r) \in Keys
  BY <1>2, LimitOfTyped, KeyOfTyped
<1>4. /\ request' = [request EXCEPT ![c] = IF l \in {NoLimit, 0} THEN Forward(pipe) ELSE q]
      /\ UNCHANGED <<pipelines, limiters, windows, gateNow>>
  BY DEF Accept
<1> HIDE DEF l, p
<1>5. CASE l \in {NoLimit, 0}
  <2>1. Forward(pipe) \in RequestsBy(pipe, Len(windows), gateNow)
    BY <1>1, ForwardIsOne
  <2> QED  BY <1>4, <1>5, <2>1, OneRequest
<1>6. CASE l \notin {NoLimit, 0}
  <2>1. q \in RequestsBy(pipe, Len(windows), gateNow)
    <3>1. NoRequest \in AnyRequest(pipe, Len(windows), gateNow)
      BY <1>1, ForwardIsOne DEF RequestsBy
    <3>2. pipe \in 1..pipe
      BY <1>1
    <3> HIDE DEF pipe
    <3>3. q \in AnyRequest(pipe, Len(windows), gateNow)
      BY <1>3, <3>1, <3>2 DEF AnyRequest, GateStages
    <3>4. q.stage = "limit" /\ q.limit = l /\ q.key = KeyOf(p, r)
      BY <3>1 DEF AnyRequest
    <3>5. l \in Limits \ {0}
      BY <1>3, <1>6
    <3> HIDE DEF q
    <3> QED  BY <1>3, <3>3, <3>4, <3>5 DEF RequestsBy
  <2> HIDE DEF q
  <2> QED  BY <1>4, <1>6, <2>1, OneRequest
<1> QED  BY <1>5, <1>6

(* It finds its limiter, or finds none.                                    *)
LEMMA FindLimiterKeeps ==
  ASSUME GateInv, NEW c \in Conn, FindLimiter(c)
  PROVE  GateInv'
<1> DEFINE found == limiters[request[c].pipe][request[c].limit]
<1>1. /\ Len(pipelines) \in Nat \ {0} /\ Len(windows) \in Nat /\ gateNow \in Nat
      /\ request[c] \in RequestsBy(Len(pipelines), Len(windows), gateNow)
      /\ request[c].pipe \in 1..Len(pipelines)
  BY GateFacts
<1>2. /\ request[c].stage = "limit"
      /\ IF found # NoObject THEN Stamp(c, found)
                             ELSE request' = [request EXCEPT ![c].stage = "creating"]
      /\ UNCHANGED <<pipelines, limiters, windows, gateNow>>
  BY DEF FindLimiter
<1>3. request[c].limit \in Limits
  BY <1>1, <1>2 DEF RequestsBy
<1>4. found \in 0..Len(windows)
  <2>1. limiters[request[c].pipe] \in [Limits -> 0..Len(windows)]
    <3>1. request[c].pipe \in 1..Len(limiters) /\ limiters \in Seq([Limits -> 0..Len(windows)])
      BY <1>1 DEF GateInv, GateShape
    <3> QED  BY <3>1, ElementOfSeq
  <2> QED  BY <1>3, <2>1
<1> HIDE DEF found
<1>5. CASE found # NoObject
  <2> DEFINE q == [request[c] EXCEPT !.stage = "stamped", !.object = found, !.stamp = gateNow]
  <2>1. request' = [request EXCEPT ![c] = q]
    BY <1>2, <1>5 DEF Stamp, GateInv, GateShape
  <2>2. q \in RequestsBy(Len(pipelines), Len(windows), gateNow)
    <3>1. request[c] \in AnyRequest(Len(pipelines), Len(windows), gateNow)
      BY <1>1 DEF RequestsBy
    <3>2. gateNow \in 0..gateNow
      BY <1>1
    <3>3. q \in AnyRequest(Len(pipelines), Len(windows), gateNow)
      BY <1>4, <3>1, <3>2 DEF AnyRequest, GateStages
    <3>4. q.stage = "stamped" /\ q.object = found
          /\ q.limit = request[c].limit /\ q.key = request[c].key
      BY <3>1 DEF AnyRequest
    <3>5. request[c].limit \in Limits \ {0} /\ request[c].key \in Keys
      BY <1>1, <1>2 DEF RequestsBy
    <3> HIDE DEF q
    <3> QED  BY <1>5, <3>3, <3>4, <3>5 DEF RequestsBy
  <2> HIDE DEF q
  <2> QED  BY <1>2, <2>1, <2>2, OneRequest
<1>6. CASE found = NoObject
  <2> DEFINE q == [request[c] EXCEPT !.stage = "creating"]
  <2>1. request' = [request EXCEPT ![c] = q]
    BY <1>2, <1>6
  <2>2. q \in RequestsBy(Len(pipelines), Len(windows), gateNow)
    BY <1>1, <1>2 DEF RequestsBy, AnyRequest, GateStages
  <2> HIDE DEF q
  <2> QED  BY <1>2, <2>1, <2>2, OneRequest
<1> QED  BY <1>5, <1>6

(* It makes one.                                                           *)
LEMMA CreateLimiterKeeps ==
  ASSUME GateInv, NEW c \in Conn, CreateLimiter(c)
  PROVE  GateInv'
<1> DEFINE l == request[c].limit
           pipe == request[c].pipe
           n == Len(windows) + 1
           q == [request[c] EXCEPT !.stage = "stamped", !.object = n, !.stamp = gateNow]
<1>0. GateShape /\ LogsRight
  BY DEF GateInv
<1>1. /\ Len(pipelines) \in Nat \ {0} /\ Len(windows) \in Nat /\ gateNow \in Nat
      /\ request[c] \in RequestsBy(Len(pipelines), Len(windows), gateNow)
      /\ pipe \in 1..Len(pipelines)
  BY GateFacts
<1>2. /\ request[c].stage = "creating"
      /\ windows' = Append(windows, NewLimiter(l))
      /\ limiters' = [limiters EXCEPT ![pipe][l] = Len(windows')]
      /\ Stamp(c, Len(windows'))
      /\ UNCHANGED <<pipelines, gateNow>>
  BY DEF CreateLimiter
<1>3. l \in Limits \ {0} /\ request[c].key \in Keys
  BY <1>1, <1>2 DEF RequestsBy
<1>4. NewLimiter(l) \in Windowed
  <2>1. << >> \in Seq(Nat) /\ << >> \in Seq(Nat \X Nat)
    BY EmptySeq
  <2> QED  BY <1>3, <2>1 DEF NewLimiter, Windowed
<1>5. /\ windows' \in Seq(Windowed)
      /\ Len(windows') = n
      /\ \A i \in 1..Len(windows) : windows'[i] = windows[i]
      /\ windows'[n] = NewLimiter(l)
  BY <1>0, <1>2, <1>4, AppendProperties DEF GateShape
<1>6. request' = [request EXCEPT ![c] = q]
  BY <1>0, <1>2, <1>5 DEF Stamp, GateShape
<1>7. /\ q \in RequestsBy(Len(pipelines), n, gateNow)
      /\ RequestsBy(Len(pipelines), Len(windows), gateNow) \subseteq RequestsBy(Len(pipelines), n, gateNow)
  <2>1. n \in 1..n /\ n \in Nat /\ Len(windows) <= n
    BY <1>1
  <2>2. Len(pipelines) \in Nat /\ Len(pipelines) <= Len(pipelines) /\ gateNow <= gateNow
    BY <1>1
  <2> HIDE DEF n
  <2>3. RequestsBy(Len(pipelines), Len(windows), gateNow) \subseteq RequestsBy(Len(pipelines), n, gateNow)
    BY <1>1, <2>1, <2>2, RequestsLast
  <2>4. request[c] \in RequestsBy(Len(pipelines), n, gateNow)
    BY <1>1, <2>3
  <2>5. q \in RequestsBy(Len(pipelines), n, gateNow)
    <3>1. request[c] \in AnyRequest(Len(pipelines), n, gateNow)
      BY <2>4 DEF RequestsBy
    <3>2. gateNow \in 0..gateNow /\ n \in 0..n /\ n # 0
      BY <1>1, <2>1
    <3>3. q \in AnyRequest(Len(pipelines), n, gateNow)
      BY <3>1, <3>2 DEF AnyRequest, GateStages
    <3>4. q.stage = "stamped" /\ q.object = n /\ q.limit = l /\ q.key = request[c].key
      BY <3>1 DEF AnyRequest
    <3> HIDE DEF q, l
    <3> QED  BY <1>3, <3>2, <3>3, <3>4 DEF RequestsBy, NoObject
  <2> QED  BY <2>3, <2>5
<1>8. request' \in [Conn -> RequestsBy(Len(pipelines), n, gateNow)]
  <2> HIDE DEF q, n
  <2> QED  BY <1>0, <1>6, <1>7 DEF GateShape
<1>9. limiters' \in Seq([Limits -> 0..n]) /\ Len(limiters') = Len(limiters)
  <2>1. limiters \in Seq([Limits -> 0..Len(windows)]) /\ Len(limiters) = Len(pipelines)
    BY <1>0 DEF GateShape
  <2>2. [Limits -> 0..Len(windows)] \subseteq [Limits -> 0..n] /\ n \in 0..n
    BY <1>1
  <2>3. limiters \in Seq([Limits -> 0..n])
    BY <2>1, <2>2, SeqMonotonic
  <2>4. pipe \in 1..Len(limiters)
    BY <1>1, <2>1
  <2> HIDE DEF n, pipe, l
  <2>5. limiters[pipe] \in [Limits -> 0..n]
    BY <2>3, <2>4, ElementOfSeq
  <2>6. [limiters[pipe] EXCEPT ![l] = n] \in [Limits -> 0..n]
    BY <2>2, <2>5
  <2>7. limiters' = [limiters EXCEPT ![pipe] = [limiters[pipe] EXCEPT ![l] = n]]
    BY <1>2, <1>5
  <2> QED  BY <2>3, <2>4, <2>6, <2>7, ExceptSeq
<1>10. GateShape'
  BY <1>0, <1>2, <1>5, <1>8, <1>9 DEF GateShape
<1>11. LogsRight'
  <2> SUFFICES ASSUME NEW i \in 1..Len(windows'), NEW k \in Keys
               PROVE  LogRight(windows'[i].limit, windows'[i].logs[k], windows'[i].made[k], gateNow)
    BY <1>2 DEF LogsRight
  <2>1. CASE i \in 1..Len(windows)
    BY <1>0, <1>5, <2>1 DEF LogsRight
  <2>2. CASE i = n
    <3>1. /\ windows'[i].limit = l /\ windows'[i].logs[k] = << >> /\ windows'[i].made[k] = << >>
      BY <1>5, <2>2 DEF NewLimiter
    <3>2. Len(<< >>) = 0 /\ \A from : Counted(<< >>, from) = {}
      BY EmptySeq DEF Counted
    <3>3. l \in Nat
      BY <1>3, LimitsAreNat
    <3> HIDE DEF l
    <3>4. LogRight(l, << >>, << >>, gateNow)
      <4>1. \A from \in Nat : Cardinality(Counted(<< >>, from)) <= l
        BY <3>2, <3>3, FS_EmptySet
      <4>2. \A m \in 1..(Len(<< >>) - Len(<< >>)) : FALSE
        BY <3>2
      <4>3. \A j \in 1..Len(<< >>) : FALSE
        BY <3>2
      <4>4. Len(<< >>) <= l /\ Len(<< >>) <= Len(<< >>)
        BY <3>2, <3>3
      <4> QED  BY <4>1, <4>2, <4>3, <4>4 DEF LogRight
    <3> QED  BY <3>1, <3>4
  <2> QED  BY <1>1, <1>5, <2>1, <2>2
<1> QED  BY <1>10, <1>11 DEF GateInv

(* Its call is counted.                                                    *)
LEMMA CheckKeyKeeps ==
  ASSUME GateInv, NEW c \in Conn, CheckKey(c)
  PROVE  GateInv'
<1> DEFINE q == request[c]
           w == windows[q.object]
           log == DrainExpired(w.logs[q.key], q.stamp)
           admitted == Len(log) < w.limit
           log2 == IF admitted THEN Append(log, q.stamp) ELSE log
           made2 == IF admitted THEN Append(w.made[q.key], <<q.stamp, gateNow>>) ELSE w.made[q.key]
           w2 == [w EXCEPT !.logs = [w.logs EXCEPT ![q.key] = log2],
                           !.made = [w.made EXCEPT ![q.key] = made2]]
           q2 == IF admitted THEN Forward(q.pipe) ELSE NoRequest
<1>0. GateShape /\ LogsRight
  BY DEF GateInv
<1>1. /\ Len(pipelines) \in Nat \ {0} /\ Len(windows) \in Nat /\ gateNow \in Nat
      /\ q \in RequestsBy(Len(pipelines), Len(windows), gateNow)
      /\ q.pipe \in 1..Len(pipelines)
  BY GateFacts
<1>2. /\ q.stage = "stamped"
      /\ windows' = [windows EXCEPT
           ![q.object].logs[q.key] = log2,
           ![q.object].made[q.key] = IF admitted THEN Append(@, <<q.stamp, gateNow>>) ELSE @]
      /\ request' = [request EXCEPT ![c] = q2]
      /\ UNCHANGED <<pipelines, limiters, gateNow>>
  BY DEF CheckKey
<1>3. q.object \in 1..Len(windows) /\ q.key \in Keys /\ q.stamp \in 0..gateNow
  BY <1>1, <1>2 DEF RequestsBy, AnyRequest, NoObject
<1>4. w \in Windowed /\ windows \in Seq(Windowed)
  BY <1>0, <1>3, ElementOfSeq DEF GateShape
<1>5. /\ w.logs \in [Keys -> Seq(Nat)] /\ w.made \in [Keys -> Seq(Nat \X Nat)]
      /\ w.limit \in Nat /\ w.limit \in Limits \ {0}
      /\ w.logs[q.key] \in Seq(Nat) /\ w.made[q.key] \in Seq(Nat \X Nat)
  <2> HIDE DEF w, q
  <2> QED  BY <1>3, <1>4, LimitsAreNat DEF Windowed
<1>6. LogRight(w.limit, w.logs[q.key], w.made[q.key], gateNow)
  BY <1>0, <1>3 DEF LogsRight
<1> HIDE DEF q
<1>7. windows' = [windows EXCEPT ![q.object] = w2]
  <2>1. windows' = [windows EXCEPT ![q.object] =
          [[w EXCEPT !.logs[q.key] = log2]
             EXCEPT !.made[q.key] = IF admitted THEN Append(@, <<q.stamp, gateNow>>) ELSE @]]
    BY <1>2, <1>3, <1>4, LenProperties
  <2>2. [[w EXCEPT !.logs[q.key] = log2]
             EXCEPT !.made[q.key] = IF admitted THEN Append(@, <<q.stamp, gateNow>>) ELSE @] = w2
    <3> HIDE DEF log2, admitted, w
    <3> QED  BY <1>4 DEF Windowed
  <2> QED  BY <2>1, <2>2
<1> HIDE DEF w
<1>8. log \in Seq(Nat) /\ Len(log) \in Nat /\ LogRight(w.limit, log, w.made[q.key], gateNow)
  <2>1. log \in Seq(Nat)
    BY <1>3, <1>5, Drains
  <2>2. LogRight(w.limit, log, w.made[q.key], gateNow)
    BY <1>1, <1>3, <1>5, <1>6, DrainedRight
  <2> QED  BY <2>1, <2>2, LenProperties
<1> HIDE DEF log
<1>9. log2 \in Seq(Nat) /\ made2 \in Seq(Nat \X Nat) /\ LogRight(w.limit, log2, made2, gateNow)
  <2>1. CASE admitted
    <3>1. LogRight(w.limit, Append(log, q.stamp), Append(w.made[q.key], <<q.stamp, gateNow>>), gateNow)
      <4>1. q.stamp \in Nat /\ gateNow \in Nat
        BY <1>1, <1>3
      <4> QED  BY <1>5, <1>8, <2>1, <4>1, AdmittedRight
    <3>2. Append(log, q.stamp) \in Seq(Nat)
      BY <1>3, <1>8, AppendProperties
    <3>3. <<q.stamp, gateNow>> \in Nat \X Nat
      BY <1>1, <1>3
    <3>4. Append(w.made[q.key], <<q.stamp, gateNow>>) \in Seq(Nat \X Nat)
      BY <1>5, <3>3, AppendProperties
    <3> QED  BY <2>1, <3>1, <3>2, <3>4
  <2>2. CASE ~admitted
    BY <1>5, <1>8, <2>2
  <2> QED  BY <2>1, <2>2
<1>10. q2 \in RequestsBy(Len(pipelines), Len(windows), gateNow)
  <2> HIDE DEF admitted
  <2> QED  BY <1>1, ForwardIsOne
<1> HIDE DEF log2, made2, q2
<1>11. /\ w2 \in Windowed /\ w2.limit = w.limit
       /\ w2.logs = [w.logs EXCEPT ![q.key] = log2]
       /\ w2.made = [w.made EXCEPT ![q.key] = made2]
  <2>1. /\ [w.logs EXCEPT ![q.key] = log2] \in [Keys -> Seq(Nat)]
        /\ [w.made EXCEPT ![q.key] = made2] \in [Keys -> Seq(Nat \X Nat)]
    BY <1>5, <1>9
  <2> QED  BY <1>4, <2>1 DEF Windowed
<1> HIDE DEF w2
<1>12. /\ windows' \in Seq(Windowed)
       /\ Len(windows') = Len(windows)
       /\ \A i \in 1..Len(windows) : windows'[i] = IF i = q.object THEN w2 ELSE windows[i]
  BY <1>3, <1>4, <1>7, <1>11, ExceptSeq
<1>13. GateShape'
  <2>1. request' \in [Conn -> RequestsBy(Len(pipelines), Len(windows), gateNow)]
    BY <1>0, <1>2, <1>10 DEF GateShape
  <2> QED  BY <1>0, <1>2, <1>12, <2>1 DEF GateShape
<1>14. LogsRight'
  <2> SUFFICES ASSUME NEW i \in 1..Len(windows), NEW k \in Keys
               PROVE  LogRight(windows'[i].limit, windows'[i].logs[k], windows'[i].made[k], gateNow)
    BY <1>2, <1>12 DEF LogsRight
  <2>1. CASE i # q.object
    BY <1>0, <1>12, <2>1 DEF LogsRight
  <2>2. CASE i = q.object /\ k = q.key
    <3>1. windows'[i] = w2 /\ w2.logs[k] = log2 /\ w2.made[k] = made2
      BY <1>5, <1>11, <1>12, <2>2
    <3> QED  BY <1>9, <1>11, <3>1
  <2>3. CASE i = q.object /\ k # q.key
    <3>1. windows'[i] = w2 /\ w2.logs[k] = w.logs[k] /\ w2.made[k] = w.made[k]
      BY <1>5, <1>11, <1>12, <2>3
    <3>2. LogRight(w.limit, w.logs[k], w.made[k], gateNow)
      BY <1>0, <2>3 DEF LogsRight, w
    <3> QED  BY <1>11, <3>1, <3>2
  <2> QED  BY <2>1, <2>2, <2>3
<1> QED  BY <1>13, <1>14 DEF GateInv

(* A new configuration is put in service.                                  *)
LEMMA ReloadKeeps ==
  ASSUME GateInv, NEW p \in PipeConfigs, ReloadPipeline(p)
  PROVE  GateInv'
<1>0. GateShape /\ LogsRight
  BY DEF GateInv
<1>1. /\ pipelines' = Append(pipelines, p)
      /\ limiters' = Append(limiters, [l \in Limits |-> NoObject])
      /\ UNCHANGED <<windows, request, gateNow>>
  BY DEF ReloadPipeline
<1>2. Len(pipelines) \in Nat /\ Len(windows) \in Nat /\ gateNow \in Nat
  BY <1>0, LenProperties DEF GateShape
<1>3. pipelines' \in Seq(PipeConfigs) /\ Len(pipelines') = Len(pipelines) + 1
  BY <1>0, <1>1, AppendProperties DEF GateShape
<1>4. limiters' \in Seq([Limits -> 0..Len(windows)]) /\ Len(limiters') = Len(limiters) + 1
  <2>1. [l \in Limits |-> NoObject] \in [Limits -> 0..Len(windows)]
    BY <1>2 DEF NoObject
  <2> HIDE DEF NoObject
  <2> QED  BY <1>0, <1>1, <2>1, AppendProperties DEF GateShape
<1>5. RequestsBy(Len(pipelines), Len(windows), gateNow)
        \subseteq RequestsBy(Len(pipelines) + 1, Len(windows), gateNow)
  BY <1>2, RequestsLast
<1>6. request' \in [Conn -> RequestsBy(Len(pipelines'), Len(windows'), gateNow')]
  BY <1>0, <1>1, <1>3, <1>5 DEF GateShape
<1>7. GateShape'
  BY <1>0, <1>1, <1>2, <1>3, <1>4, <1>6 DEF GateShape
<1>8. LogsRight'
  BY <1>0, <1>1 DEF LogsRight
<1> QED  BY <1>7, <1>8 DEF GateInv

(* Time passes.                                                            *)
LEMMA GateTickKeeps == GateInv /\ GatewayTick => GateInv'
<1> SUFFICES ASSUME GateInv, GatewayTick
             PROVE  GateInv'
  OBVIOUS
<1>0. GateShape /\ LogsRight
  BY DEF GateInv
<1>1. gateNow' = gateNow + 1 /\ UNCHANGED <<pipelines, limiters, windows, request>>
  BY DEF GatewayTick
<1>2. Len(pipelines) \in Nat /\ Len(windows) \in Nat /\ gateNow \in Nat /\ gateNow' \in Nat
      /\ gateNow <= gateNow'
  BY <1>0, <1>1, LenProperties DEF GateShape
<1>3. RequestsBy(Len(pipelines), Len(windows), gateNow)
        \subseteq RequestsBy(Len(pipelines), Len(windows), gateNow')
  BY <1>2, RequestsLast
<1>4. GateShape'
  <2>1. request' \in [Conn -> RequestsBy(Len(pipelines'), Len(windows'), gateNow')]
    BY <1>0, <1>1, <1>3 DEF GateShape
  <2> QED  BY <1>0, <1>1, <1>2, <2>1 DEF GateShape
<1>5. LogsRight'
  <2> SUFFICES ASSUME NEW i \in 1..Len(windows), NEW k \in Keys
               PROVE  LogRight(windows[i].limit, windows[i].logs[k], windows[i].made[k], gateNow')
    BY <1>1 DEF LogsRight
  <2>1. windows[i] \in Windowed
    BY <1>0, ElementOfSeq DEF GateShape
  <2>2. windows[i].logs[k] \in Seq(Nat) /\ windows[i].made[k] \in Seq(Nat \X Nat)
    BY <2>1 DEF Windowed
  <2>3. Len(windows[i].logs[k]) \in Nat
    BY <2>2, LenProperties
  <2>4. LogRight(windows[i].limit, windows[i].logs[k], windows[i].made[k], gateNow)
    BY <1>0 DEF LogsRight
  <2> QED  BY <1>2, <2>2, <2>3, <2>4, LogRightLater
<1> QED  BY <1>4, <1>5 DEF GateInv

(* Every step of the gateway keeps its logs right.                         *)
LEMMA GateStepKeeps == GateInv /\ [GatewayNext]_gatewayVars => GateInv'
<1> SUFFICES ASSUME GateInv, [GatewayNext]_gatewayVars
             PROVE  GateInv'
  OBVIOUS
<1> DEFINE R == RequestsBy(Len(pipelines), Len(windows), gateNow)
<1>0. ASSUME NEW c \in Conn
      PROVE  /\ NoRequest \in R
             /\ [request[c] EXCEPT !.stage = "body"] \in R
             /\ [request[c] EXCEPT !.stage = "sending"] \in R
             /\ [request[c] EXCEPT !.stage = "waiting", !.attempts = request[c].attempts + 1] \in R
  <2>1. /\ Len(pipelines) \in Nat \ {0} /\ Len(windows) \in Nat /\ gateNow \in Nat
        /\ request[c] \in R
        /\ request[c].pipe \in 1..Len(pipelines)
    BY GateFacts
  <2>2. request[c] \in AnyRequest(Len(pipelines), Len(windows), gateNow)
    BY <2>1 DEF RequestsBy
  <2>3. request[c].attempts + 1 \in Nat
    BY <2>2 DEF AnyRequest
  <2>4. ASSUME NEW q \in AnyRequest(Len(pipelines), Len(windows), gateNow),
               q.stage \notin {"limit", "creating", "stamped"}
        PROVE  q \in R
    BY <2>4 DEF RequestsBy
  <2>5. [request[c] EXCEPT !.stage = "body"] \in R
    BY <2>2, <2>4 DEF AnyRequest, GateStages
  <2>6. [request[c] EXCEPT !.stage = "sending"] \in R
    BY <2>2, <2>4 DEF AnyRequest, GateStages
  <2>7. [request[c] EXCEPT !.stage = "waiting", !.attempts = request[c].attempts + 1] \in R
    BY <2>2, <2>3, <2>4 DEF AnyRequest, GateStages
  <2> QED  BY <2>1, <2>5, <2>6, <2>7, ForwardIsOne
<1> HIDE DEF R
<1>1. ASSUME NEW c \in Conn, NEW q \in R, request' = [request EXCEPT ![c] = q],
             UNCHANGED <<pipelines, limiters, windows, gateNow>>
      PROVE  GateInv'
  BY <1>1, OneRequest DEF R
<1>2. ASSUME NEW c \in Conn, NEW r \in Request, Accept(c, r)
      PROVE  GateInv'
  BY <1>2, AcceptKeeps
<1>3. ASSUME NEW c \in Conn, Proceed(c)
      PROVE  GateInv'
  <2>1. CASE FindLimiter(c)
    BY <2>1, FindLimiterKeeps
  <2>2. CASE CreateLimiter(c)
    BY <2>2, CreateLimiterKeeps
  <2>3. CASE CheckKey(c)
    BY <2>3, CheckKeyKeeps
  <2>4. CASE Respond(c)
    BY <1>0, <1>1, <2>4 DEF Respond
  <2>5. CASE Fail(c)
    <3> DEFINE q == IF RetriesLeft(request[c])
                    THEN [request[c] EXCEPT !.stage = "waiting", !.attempts = request[c].attempts + 1]
                    ELSE NoRequest
    <3>1. q \in R
      BY <1>0
    <3>2. request' = [request EXCEPT ![c] = q] /\ UNCHANGED <<pipelines, limiters, windows, gateNow>>
      BY <2>5 DEF Fail
    <3> HIDE DEF q
    <3> QED  BY <1>1, <3>1, <3>2
  <2>6. CASE Resend(c)
    BY <1>0, <1>1, <2>6 DEF Resend
  <2> QED  BY <1>3, <2>1, <2>2, <2>3, <2>4, <2>5, <2>6 DEF Proceed
<1>4. ASSUME NEW c \in Conn, FinishBody(c) \/ DropHandler(c)
      PROVE  GateInv'
  BY <1>0, <1>1, <1>4 DEF FinishBody, DropHandler
<1>5. ASSUME NEW p \in PipeConfigs, ReloadPipeline(p)
      PROVE  GateInv'
  BY <1>5, ReloadKeeps
<1>6. ASSUME GatewayTick
      PROVE  GateInv'
  BY <1>6, GateTickKeeps
<1>7. ASSUME UNCHANGED gatewayVars
      PROVE  GateInv'
  BY <1>7 DEF gatewayVars, GateInv, GateShape, LogsRight
<1> QED  BY <1>2, <1>3, <1>4, <1>5, <1>6, <1>7 DEF GatewayNext

(* The gateway is typed: no log of a limiter is longer than its limit.     *)
THEOREM GatewayIsTyped == GatewaySafety => []GatewayTypeOK
<1>1. GateInv => GatewayTypeOK
  <2> SUFFICES ASSUME GateShape, LogsRight
               PROVE  GatewayTypeOK
    BY DEF GateInv
  <2>1. /\ DOMAIN pipelines = 1..Len(pipelines) /\ DOMAIN windows = 1..Len(windows)
        /\ gateNow \in Nat
    BY LenProperties DEF GateShape
  <2>2. ASSUME NEW i \in DOMAIN windows
        PROVE  /\ windows[i].limit \in Limits \ {0}
               /\ windows[i].logs \in [Keys -> Seq(Nat)]
               /\ \A k \in Keys : Len(windows[i].logs[k]) <= windows[i].limit
    <3>1. windows[i] \in Windowed
      BY <2>1, ElementOfSeq DEF GateShape
    <3> QED  BY <2>1, <3>1 DEF Windowed, LogsRight, LogRight
  <2>3. request \in [Conn -> [stage : GateStages, pipe : DOMAIN pipelines,
                             limit : Limits \cup {NoLimit, 0}, key : Keys \cup {<<"ip", Nobody>>},
                             object : 0..Len(windows), stamp : Nat, attempts : Nat]]
    <3>1. AnyRequest(Len(pipelines), Len(windows), gateNow) \subseteq
            [stage : GateStages, pipe : DOMAIN pipelines,
             limit : Limits \cup {NoLimit, 0}, key : Keys \cup {<<"ip", Nobody>>},
             object : 0..Len(windows), stamp : Nat, attempts : Nat]
      BY <2>1 DEF AnyRequest
    <3>2. RequestsBy(Len(pipelines), Len(windows), gateNow)
            \subseteq AnyRequest(Len(pipelines), Len(windows), gateNow)
      BY DEF RequestsBy
    <3> QED  BY <3>1, <3>2 DEF GateShape
  <2> QED  BY <2>1, <2>2, <2>3 DEF GateShape, GatewayTypeOK
<1> QED  BY <1>1, GateInitially, GateStepKeeps, PTL DEF GatewaySafety

(* No more than limit calls of a key are both made and admitted by one     *)
(* limiter within any window, for every number of handlers, every window   *)
(* and every limit, though calls enter the log out of order.               *)
THEOREM GatewayWindowIsBounded == GatewaySafety => []WindowBound
<1>1. GateInv => WindowBound
  <2> SUFFICES ASSUME GateInv, NEW i \in DOMAIN windows, NEW k \in Keys, NEW from \in 0..gateNow
               PROVE  LET made == windows[i].made[k]
                      IN  Cardinality({n \in DOMAIN made : /\ made[n][1] >= from
                                                           /\ made[n][2] < from + WindowLength})
                            <= windows[i].limit
    BY DEF WindowBound
  <2>1. i \in 1..Len(windows) /\ from \in Nat
    BY LenProperties DEF GateInv, GateShape
  <2>2. Cardinality(Counted(windows[i].made[k], from)) <= windows[i].limit
    BY <2>1 DEF GateInv, LogsRight, LogRight
  <2> QED  BY <2>2 DEF Counted
<1> QED  BY <1>1, GateInitially, GateStepKeeps, PTL DEF GatewaySafety

-----------------------------------------------------------------------------
(* The circuit breaker: how often an outcome occurs in a sequence of       *)
(* results.                                                                *)

(* It is a number, and nothing occurs in the empty sequence.               *)
LEMMA CountIsNat ==
  ASSUME NEW s \in Seq(Outcome), NEW o
  PROVE  /\ IsFiniteSet({i \in DOMAIN s : s[i] = o})
         /\ CountIn(s, o) \in Nat
<1>1. DOMAIN s = 1..Len(s) /\ Len(s) \in Nat
  BY LenProperties
<1>2. IsFiniteSet(1..Len(s))
  BY <1>1, FS_Interval
<1>3. IsFiniteSet({i \in DOMAIN s : s[i] = o})
  BY <1>1, <1>2, FS_Subset
<1> QED  BY <1>3, FS_CardinalityType DEF CountIn

(* An empty window counts nothing.                                         *)
LEMMA CountOfNone == \A o : CountIn(<< >>, o) = 0
<1>1. \A o : {i \in DOMAIN << >> : << >>[i] = o} = {}
  OBVIOUS
<1> QED  BY <1>1, FS_EmptySet DEF CountIn

(* A new result counts once, at the end.                                   *)
LEMMA CountAppend ==
  ASSUME NEW s \in Seq(Outcome), NEW r \in Outcome, NEW o
  PROVE  CountIn(Append(s, r), o) = CountIn(s, o) + (IF o = r THEN 1 ELSE 0)
<1> DEFINE t == Append(s, r)
           before == {i \in DOMAIN s : s[i] = o}
           after  == {i \in DOMAIN t : t[i] = o}
<1>1. /\ Len(s) \in Nat
      /\ DOMAIN s = 1..Len(s)
      /\ DOMAIN t = 1..(Len(s) + 1)
      /\ \A i \in 1..Len(s) : t[i] = s[i]
      /\ t[Len(s) + 1] = r
  BY LenProperties, AppendProperties
<1>2. IsFiniteSet(before) /\ CountIn(s, o) = Cardinality(before) /\ Cardinality(before) \in Nat
  BY CountIsNat, FS_CardinalityType DEF CountIn
<1>3. CountIn(t, o) = Cardinality(after)
  BY DEF CountIn
<1>4. CASE o = r
  <2>1. after = before \cup {Len(s) + 1} /\ Len(s) + 1 \notin before
    <3> HIDE DEF t
    <3> QED  BY <1>1, <1>4
  <2> QED  BY <1>2, <1>3, <1>4, <2>1, FS_AddElement
<1>5. CASE o # r
  <2>1. after = before
    <3> HIDE DEF t
    <3> QED  BY <1>1, <1>5
  <2> HIDE DEF before, after
  <2> QED  BY <1>2, <1>3, <1>5, <2>1
<1> QED  BY <1>4, <1>5

(* The oldest result no longer counts once it is dropped.                  *)
LEMMA CountTail ==
  ASSUME NEW s \in Seq(Outcome), Len(s) > 0, NEW o
  PROVE  CountIn(Tail(s), o) = CountIn(s, o) - (IF o = s[1] THEN 1 ELSE 0)
<1> DEFINE t == Tail(s)
           before == {i \in DOMAIN s : s[i] = o}
           after  == {i \in DOMAIN t : t[i] = o}
<1>0. s # << >>
  BY EmptySeq
<1>1. /\ Len(s) \in Nat
      /\ DOMAIN s = 1..Len(s)
      /\ DOMAIN t = 1..(Len(s) - 1)
      /\ \A i \in 1..(Len(s) - 1) : t[i] = s[i + 1]
  BY <1>0, LenProperties, HeadTailProperties
<1>2. IsFiniteSet(before) /\ CountIn(s, o) = Cardinality(before) /\ Cardinality(before) \in Nat
  BY CountIsNat, FS_CardinalityType DEF CountIn
<1>3. CountIn(Tail(s), o) = Cardinality(after)
  BY DEF CountIn
<1> HIDE DEF t
<1> DEFINE f == [i \in before \ {1} |-> i - 1]
<1>4. f \in Bijection(before \ {1}, after)
  <2>1. f \in [before \ {1} -> after]
    BY <1>1
  <2>2. \A a, b \in before \ {1} : f[a] = f[b] => a = b
    BY <1>1
  <2>3. \A b \in after : \E a \in before \ {1} : f[a] = b
    <3> SUFFICES ASSUME NEW b \in after
                 PROVE  \E a \in before \ {1} : f[a] = b
      OBVIOUS
    <3>1. b + 1 \in before \ {1} /\ (b + 1) - 1 = b
      BY <1>1
    <3> QED  BY <3>1
  <2> HIDE DEF f, before, after
  <2> QED  BY <2>1, <2>2, <2>3, Fun_IsBij
<1> HIDE DEF f
<1>5. /\ IsFiniteSet(before \ {1})
      /\ Cardinality(before \ {1}) =
           IF 1 \in before THEN Cardinality(before) - 1 ELSE Cardinality(before)
  BY <1>2, FS_RemoveElement
<1>6. Cardinality(after) = Cardinality(before \ {1})
  <2>1. ExistsBijection(before \ {1}, after)
    BY <1>4, Fun_ExistsBij
  <2> HIDE DEF before, after
  <2> QED  BY <1>5, <2>1, FS_Bijection
<1>7. 1 \in before <=> o = s[1]
  BY <1>1
<1> HIDE DEF before, after
<1> QED  BY <1>2, <1>3, <1>5, <1>6, <1>7

-----------------------------------------------------------------------------
(* The ring.                                                               *)

(* Where the ring holds the result that is j-th oldest: from the start     *)
(* while it fills, from the next index on, and round, once it is full.     *)
RingSlot(j) ==
  IF filled < Window           THEN j - 1
  ELSE IF nextIndex + j - 1 < Window THEN nextIndex + j - 1
       ELSE nextIndex + j - 1 - Window

(* The ring holds the recent results in order and nothing else, and writes *)
(* next behind the last of them.                                           *)
RingHolds ==
  /\ filled = Len(recent)
  /\ filled < Window => nextIndex = filled
  /\ \A i \in 0..(Window - 1) : filled <= i => buckets[i] = Empty
  /\ \A j \in 1..filled : buckets[RingSlot(j)] = recent[j]

(* The invariant that makes the counts of the ring exact.                  *)
RingInv == BreakerTypeOK /\ RingHolds /\ WindowIsRecent

(* The next index goes up by one, and round at the end.                    *)
LEMMA NextIndexWraps ==
  ASSUME NEW n \in 0..(Window - 1)
  PROVE  (n + 1) % Window = IF n + 1 = Window THEN 0 ELSE n + 1
BY BreakerAssumption

(* An empty ring holds an empty list.                                      *)
LEMMA RingEmpty ==
  ASSUME buckets = [i \in 0..(Window - 1) |-> Empty], nextIndex = 0, filled = 0,
         counts = [o \in Outcome |-> 0], recent = << >>
  PROVE  RingHolds /\ WindowIsRecent /\ counts \in [Outcome -> Nat]
<1>1. Len(recent) = 0
  BY EmptySeq
<1> QED  BY <1>1, CountOfNone DEF RingHolds, WindowIsRecent

(* A result that enters the window takes the place of the oldest one when  *)
(* the window is full, and stands behind the others when it is not.        *)
LEMMA RecordKeepsRing ==
  ASSUME RingInv, NEW o \in Outcome, Record(o),
         recent' = IF Len(recent) < Window THEN Append(recent, o)
                                           ELSE Append(Tail(recent), o)
  PROVE  /\ RingHolds'
         /\ WindowIsRecent'
         /\ counts' \in [Outcome -> Nat]
         /\ buckets' \in [0..(Window - 1) -> Outcome \cup {Empty}]
         /\ nextIndex' \in 0..(Window - 1)
         /\ filled' \in 0..Window
         /\ recent' \in Seq(Outcome)
<1> USE DEF RingInv
<1>1. /\ Window \in Nat /\ Window > 0
      /\ buckets \in [0..(Window - 1) -> Outcome \cup {Empty}]
      /\ nextIndex \in 0..(Window - 1)
      /\ filled \in 0..Window
      /\ counts \in [Outcome -> Nat]
      /\ recent \in Seq(Outcome)
      /\ filled = Len(recent)
      /\ Empty \notin Outcome
  BY BreakerAssumption DEF BreakerTypeOK, RingHolds, Outcome, Empty
<1>2. /\ buckets' = [buckets EXCEPT ![nextIndex] = o]
      /\ nextIndex' = IF nextIndex + 1 = Window THEN 0 ELSE nextIndex + 1
      /\ filled' = IF buckets[nextIndex] = Empty THEN filled + 1 ELSE filled
      /\ counts' = [p \in Outcome |-> counts[p] + (IF p = o THEN 1 ELSE 0)
                                     - (IF p = buckets[nextIndex] THEN 1 ELSE 0)]
  BY <1>1, NextIndexWraps DEF Record
<1>3. \A p \in Outcome : counts[p] = CountIn(recent, p) /\ CountIn(recent, p) \in Nat
  BY <1>1, CountIsNat DEF WindowIsRecent
<1>4. CASE filled < Window
  <2>1. /\ recent' = Append(recent, o)
        /\ recent' \in Seq(Outcome)
        /\ Len(recent') = Len(recent) + 1
        /\ \A j \in 1..Len(recent) : recent'[j] = recent[j]
        /\ recent'[Len(recent) + 1] = o
    BY <1>1, <1>4, AppendProperties
  <2>2. nextIndex = filled /\ buckets[nextIndex] = Empty /\ filled' = filled + 1
    BY <1>1, <1>2, <1>4 DEF RingHolds
  <2>3. \A p \in Outcome : counts'[p] = CountIn(recent', p) /\ CountIn(recent', p) \in Nat
    <3> SUFFICES ASSUME NEW p \in Outcome
                 PROVE  counts'[p] = CountIn(recent', p) /\ CountIn(recent', p) \in Nat
      OBVIOUS
    <3>1. CountIn(recent', p) = CountIn(recent, p) + (IF p = o THEN 1 ELSE 0)
      BY <1>1, <2>1, CountAppend
    <3>2. counts'[p] = counts[p] + (IF p = o THEN 1 ELSE 0) - 0
      BY <1>1, <1>2, <2>2
    <3> QED  BY <1>1, <1>3, <3>1, <3>2
  <2>4. RingHolds'
    <3>1. filled' = Len(recent')
      BY <1>1, <2>1, <2>2
    <3>2. filled' < Window => nextIndex' = filled'
      BY <1>1, <1>2, <2>2
    <3>3. \A i \in 0..(Window - 1) : filled' <= i => buckets'[i] = Empty
      BY <1>1, <1>2, <2>2 DEF RingHolds
    <3>4. ASSUME NEW j \in 1..filled'
          PROVE  buckets'[RingSlot(j)'] = recent'[j]
      <4>1. RingSlot(j)' = j - 1
        <5>1. filled' = Window => nextIndex' = 0
          BY <1>1, <1>2, <2>2
        <5> QED  BY <1>1, <1>4, <2>2, <5>1 DEF RingSlot
      <4>2. CASE j = filled + 1
        BY <1>1, <1>2, <2>1, <2>2, <4>1, <4>2
      <4>3. CASE j \in 1..filled
        <5>1. RingSlot(j) = j - 1
          BY <1>4 DEF RingSlot
        <5>2. buckets[j - 1] = recent[j]
          BY <4>3, <5>1 DEF RingHolds
        <5>3. buckets'[j - 1] = buckets[j - 1]
          BY <1>1, <1>2, <1>4, <2>2, <4>3
        <5> QED  BY <1>1, <2>1, <4>1, <4>3, <5>2, <5>3
      <4> QED  BY <1>1, <2>2, <4>2, <4>3
    <3> QED  BY <3>1, <3>2, <3>3, <3>4 DEF RingHolds
  <2> QED  BY <1>1, <1>2, <1>4, <2>1, <2>2, <2>3, <2>4 DEF WindowIsRecent, RingHolds
<1>5. CASE filled = Window
  <2>0. Len(recent) > 0 /\ recent # << >>
    <3>1. Len(recent) > 0
      BY <1>1, <1>5
    <3> QED  BY <3>1, EmptySeq
  <2>1. /\ Tail(recent) \in Seq(Outcome)
        /\ Len(Tail(recent)) = Window - 1
        /\ \A j \in 1..(Window - 1) : Tail(recent)[j] = recent[j + 1]
    BY <1>1, <1>5, <2>0, HeadTailProperties
  <2>2. /\ recent' = Append(Tail(recent), o)
        /\ recent' \in Seq(Outcome)
        /\ Len(recent') = Window
        /\ \A j \in 1..(Window - 1) : recent'[j] = recent[j + 1]
        /\ recent'[Window] = o
    <3>1. recent' = Append(Tail(recent), o)
      BY <1>1, <1>5
    <3> QED  BY <1>1, <2>1, <3>1, AppendProperties
  <2>3. buckets[nextIndex] = recent[1] /\ recent[1] \in Outcome
    <3>1. RingSlot(1) = nextIndex
      BY <1>1, <1>5 DEF RingSlot
    <3>2. 1 \in 1..Len(recent) /\ 1 \in 1..filled
      BY <1>1, <2>0
    <3>3. buckets[RingSlot(1)] = recent[1]
      BY <3>2 DEF RingHolds
    <3> QED  BY <1>1, <3>1, <3>2, <3>3, ElementOfSeq
  <2>4. filled' = filled
    BY <1>1, <1>2, <2>3
  <2>5. \A p \in Outcome : counts'[p] = CountIn(recent', p) /\ CountIn(recent', p) \in Nat
    <3> SUFFICES ASSUME NEW p \in Outcome
                 PROVE  counts'[p] = CountIn(recent', p) /\ CountIn(recent', p) \in Nat
      OBVIOUS
    <3>1. CountIn(recent', p) = CountIn(Tail(recent), p) + (IF p = o THEN 1 ELSE 0)
      <4>1. Tail(recent) \in Seq(Outcome)
        BY <2>1
      <4>2. CountIn(Append(Tail(recent), o), p) =
              CountIn(Tail(recent), p) + (IF p = o THEN 1 ELSE 0)
        BY <4>1, CountAppend
      <4>3. recent' = Append(Tail(recent), o)
        BY <2>2
      <4> QED  BY <4>2, <4>3
    <3>2. CountIn(Tail(recent), p) = CountIn(recent, p) - (IF p = recent[1] THEN 1 ELSE 0)
      BY <1>1, <1>5, CountTail
    <3>3. counts'[p] = counts[p] + (IF p = o THEN 1 ELSE 0) - (IF p = recent[1] THEN 1 ELSE 0)
      BY <1>2, <2>3
    <3>4. CountIn(recent', p) \in Nat
      BY <2>2, CountIsNat
    <3> QED  BY <1>1, <1>3, <3>1, <3>2, <3>3, <3>4
  <2>6. RingHolds'
    <3>1. filled' = Len(recent')
      BY <1>5, <2>2, <2>4
    <3>2. ~(filled' < Window)
      BY <1>1, <1>5, <2>4
    <3>3. \A i \in 0..(Window - 1) : ~(filled' <= i)
      BY <1>1, <1>5, <2>4
    <3>4. ASSUME NEW j \in 1..filled'
          PROVE  buckets'[RingSlot(j)'] = recent'[j]
      <4>1. RingSlot(j)' = IF nextIndex' + j - 1 < Window THEN nextIndex' + j - 1
                       ELSE nextIndex' + j - 1 - Window
        BY <3>2 DEF RingSlot
      <4>2. CASE j = Window
        <5>1. RingSlot(j)' = nextIndex
          BY <1>1, <1>2, <4>1, <4>2
        <5> QED  BY <1>1, <1>2, <2>2, <4>2, <5>1
      <4>3. CASE j \in 1..(Window - 1)
        <5>1. j + 1 \in 1..filled
          BY <1>1, <1>5, <4>3
        <5>2. /\ RingSlot(j)' = RingSlot(j + 1)
              /\ RingSlot(j + 1) \in 0..(Window - 1)
              /\ RingSlot(j + 1) # nextIndex
          BY <1>1, <1>2, <1>5, <4>1, <4>3 DEF RingSlot
        <5>3. buckets'[RingSlot(j + 1)] = buckets[RingSlot(j + 1)]
          BY <1>1, <1>2, <5>2
        <5>4. buckets[RingSlot(j + 1)] = recent[j + 1]
          BY <5>1 DEF RingHolds
        <5> HIDE DEF RingInv
        <5> QED  BY <2>2, <4>3, <5>2, <5>3, <5>4
      <4>4. j = Window \/ j \in 1..(Window - 1)
        BY <1>1, <1>5, <2>4
      <4> QED  BY <4>2, <4>3, <4>4
    <3> QED  BY <3>1, <3>2, <3>3, <3>4 DEF RingHolds
  <2>7. WindowIsRecent'
    BY <2>5, <2>6 DEF WindowIsRecent, RingHolds
  <2>8. counts' \in [Outcome -> Nat]
    BY <1>2, <2>5
  <2>9. /\ buckets' \in [0..(Window - 1) -> Outcome \cup {Empty}]
        /\ nextIndex' \in 0..(Window - 1)
        /\ filled' \in 0..Window
    BY <1>1, <1>2, <2>4
  <2> QED  BY <2>2, <2>6, <2>7, <2>8, <2>9
<1> QED  BY <1>1, <1>4, <1>5

-----------------------------------------------------------------------------
(* Types, and the ring in every step.                                      *)

(* The breaker starts closed, over an empty window.                        *)
LEMMA BreakerInitRing == BreakerInit => RingInv
<1> SUFFICES ASSUME BreakerInit
             PROVE  RingInv
  OBVIOUS
<1> USE DEF BreakerInit
<1>1. RingHolds /\ WindowIsRecent /\ counts \in [Outcome -> Nat]
  BY RingEmpty
<1>2. NoVerdict \in [outcome : Outcome, at : Nat, total : Nat, errors : Nat]
  BY DEF NoVerdict, Outcome
<1>3. recent \in Seq(Outcome)
  BY EmptySeq
<1>4. BreakerTypeOK
  BY <1>1, <1>2, <1>3, BreakerAssumption DEF BreakerTypeOK, Never
<1> QED  BY <1>1, <1>4 DEF RingInv

(* What the ring says depends on the window and the history alone.         *)
LEMMA RingStays ==
  ASSUME RingInv, UNCHANGED <<window, recent>>
  PROVE  /\ RingHolds' /\ WindowIsRecent'
         /\ buckets' = buckets /\ nextIndex' = nextIndex /\ filled' = filled
         /\ counts' = counts /\ recent' = recent
<1>1. /\ buckets' = buckets /\ nextIndex' = nextIndex /\ filled' = filled
      /\ counts' = counts /\ recent' = recent
  BY DEF window
<1>2. RingHolds'
  BY <1>1 DEF RingInv, RingHolds, RingSlot
<1>3. WindowIsRecent'
  BY <1>1 DEF RingInv, WindowIsRecent
<1> QED  BY <1>1, <1>2, <1>3

(* A caller that leaves is a caller still.                                 *)
LEMMA LeaveTyped ==
  ASSUME BreakerTypeOK, NEW c \in Caller, Leave(c)
  PROVE  /\ doing' \in [Caller -> {"idle", "running", "judging"}]
         /\ permit' \in [Caller -> {"Closed", "HalfOpenProbe"}]
BY DEF BreakerTypeOK, Leave

(* Opening keeps the state in order.                                       *)
LEMMA OpenTyped ==
  ASSUME RingInv, NEW c \in Caller, OpenCircuit(c), Leave(c),
         verdict' = [verdict EXCEPT ![c] = NoVerdict], UNCHANGED <<clock, probers>>
  PROVE  RingInv'
<1>1. NoVerdict \in [outcome : Outcome, at : Nat, total : Nat, errors : Nat]
  BY DEF NoVerdict, Outcome
<1>2. UNCHANGED <<window, recent>>
  BY DEF OpenCircuit
<1>3. BreakerTypeOK'
  <2>1. circuit' = "Open" /\ probing' = FALSE /\ openedAt' \in Nat /\ openedAt' # Never
    BY DEF RingInv, BreakerTypeOK, OpenCircuit, Never
  <2>2. verdict' \in [Caller -> [outcome : Outcome, at : Nat, total : Nat, errors : Nat]]
    BY <1>1 DEF RingInv, BreakerTypeOK
  <2> QED  BY <1>2, <2>1, <2>2, RingStays, LeaveTyped DEF RingInv, BreakerTypeOK
<1> QED  BY <1>2, <1>3, RingStays DEF RingInv

(* So does closing, which empties the window.                              *)
LEMMA CloseTyped ==
  ASSUME RingInv, NEW c \in Caller, CloseCircuit, Leave(c),
         verdict' = [verdict EXCEPT ![c] = NoVerdict], UNCHANGED <<clock, probers>>
  PROVE  RingInv'
<1>1. NoVerdict \in [outcome : Outcome, at : Nat, total : Nat, errors : Nat]
  BY DEF NoVerdict, Outcome
<1>2. RingHolds' /\ WindowIsRecent' /\ counts' \in [Outcome -> Nat]
  <2>1. (RingHolds /\ WindowIsRecent /\ counts \in [Outcome -> Nat])'
    <3>1. /\ buckets' = [i \in 0..(Window - 1) |-> Empty]
          /\ nextIndex' = 0
          /\ filled' = 0
          /\ counts' = [o \in Outcome |-> 0]
          /\ recent' = << >>
      BY DEF CloseCircuit
    <3>2. Len(recent') = 0
      BY <3>1, EmptySeq
    <3>3. \A o : CountIn(recent', o) = 0
      BY <3>1, CountOfNone
    <3> QED  BY <3>1, <3>2, <3>3 DEF RingHolds, WindowIsRecent
  <2> QED  BY <2>1
<1>3. recent' \in Seq(Outcome)
  BY EmptySeq DEF CloseCircuit
<1>4. BreakerTypeOK'
  <2>1. circuit' = "Closed" /\ probing' = FALSE /\ openedAt' = Never
    BY DEF CloseCircuit
  <2>2. verdict' \in [Caller -> [outcome : Outcome, at : Nat, total : Nat, errors : Nat]]
    BY <1>1 DEF RingInv, BreakerTypeOK
  <2>3. /\ buckets' \in [0..(Window - 1) -> Outcome \cup {Empty}]
        /\ nextIndex' \in 0..(Window - 1)
        /\ filled' \in 0..Window
    BY BreakerAssumption DEF CloseCircuit
  <2> QED  BY <1>2, <1>3, <2>1, <2>2, <2>3, LeaveTyped DEF RingInv, BreakerTypeOK
<1> QED  BY <1>2, <1>4 DEF RingInv

(* Every step keeps the types and the ring.                                *)
LEMMA BreakerStepRing == RingInv /\ [BreakerNext]_breakerVars => RingInv'
<1> SUFFICES ASSUME RingInv, [BreakerNext]_breakerVars
             PROVE  RingInv'
  OBVIOUS
<1>0. BreakerTypeOK
  BY DEF RingInv
<1>1. ASSUME NEW c \in Caller, AcquireClosed(c)
      PROVE  RingInv'
  <2>1. UNCHANGED <<window, recent>>
    BY <1>1 DEF AcquireClosed, Run
  <2>2. BreakerTypeOK'
    BY <1>0, <1>1, <2>1, RingStays DEF BreakerTypeOK, AcquireClosed, Run, breaker
  <2> QED  BY <2>1, <2>2, RingStays DEF RingInv
<1>2. ASSUME NEW c \in Caller, AcquireProbe(c)
      PROVE  RingInv'
  <2>1. UNCHANGED <<window, recent>>
    BY <1>2 DEF AcquireProbe, Run
  <2>2. circuit' = "HalfOpen" /\ openedAt' = Never /\ probing' = TRUE
    BY <1>0, <1>2 DEF BreakerTypeOK, AcquireProbe
  <2>3. /\ doing' \in [Caller -> {"idle", "running", "judging"}]
        /\ permit' \in [Caller -> {"Closed", "HalfOpenProbe"}]
        /\ UNCHANGED <<verdict, clock>>
        /\ probers' \subseteq Caller \cup {Gone}
    BY <1>0, <1>2 DEF BreakerTypeOK, AcquireProbe, Run
  <2>4. BreakerTypeOK'
    BY <1>0, <2>1, <2>2, <2>3, RingStays DEF BreakerTypeOK
  <2> QED  BY <2>1, <2>4, RingStays DEF RingInv
<1>3. ASSUME NEW c \in Caller, Abandon(c)
      PROVE  RingInv'
  <2>1. UNCHANGED <<window, recent>>
    BY <1>3 DEF Abandon
  <2>2. probers' \subseteq Caller \cup {Gone}
    BY <1>0, <1>3 DEF Abandon, BreakerTypeOK
  <2>3. BreakerTypeOK'
    BY <1>0, <1>3, <2>1, <2>2, RingStays, LeaveTyped DEF BreakerTypeOK, Abandon, breaker
  <2> QED  BY <2>1, <2>3, RingStays DEF RingInv
<1>4. ASSUME NEW c \in Caller, NEW o \in Outcome, Finish(c, o)
      PROVE  RingInv'
  <2>1. /\ Record(o)
        /\ recent' = IF Len(recent) < Window THEN Append(recent, o)
                                             ELSE Append(Tail(recent), o)
    BY <1>4 DEF Finish
  <2>2. /\ RingHolds' /\ WindowIsRecent'
        /\ counts' \in [Outcome -> Nat]
        /\ buckets' \in [0..(Window - 1) -> Outcome \cup {Empty}]
        /\ nextIndex' \in 0..(Window - 1)
        /\ filled' \in 0..Window
        /\ recent' \in Seq(Outcome)
    BY <2>1, RecordKeepsRing
  <2>3. counts'["Failure"] + counts'["Timeout"] \in Nat /\ filled' \in Nat
    BY <2>2, BreakerAssumption DEF Outcome
  <2>4. verdict' \in [Caller -> [outcome : Outcome, at : Nat, total : Nat, errors : Nat]]
    BY <1>0, <1>4, <2>3 DEF Finish, BreakerTypeOK
  <2>5. doing' \in [Caller -> {"idle", "running", "judging"}]
    BY <1>0, <1>4 DEF Finish, BreakerTypeOK
  <2>6. BreakerTypeOK'
    BY <1>0, <1>4, <2>2, <2>4, <2>5 DEF Finish, breaker, BreakerTypeOK
  <2> QED  BY <2>2, <2>6 DEF RingInv
<1>5. ASSUME NEW c \in Caller, Judge(c)
      PROVE  RingInv'
  <2>1. /\ Leave(c)
        /\ verdict' = [verdict EXCEPT ![c] = NoVerdict]
        /\ UNCHANGED <<clock, probers>>
    BY <1>5 DEF Judge
  <2>2. CASE OpenCircuit(c)
    BY <2>1, <2>2, OpenTyped
  <2>3. CASE CloseCircuit
    BY <2>1, <2>3, CloseTyped
  <2>4. CASE UNCHANGED <<breaker, window, recent>>
    <3>1. UNCHANGED <<window, recent>>
      BY <2>4
    <3>2. NoVerdict \in [outcome : Outcome, at : Nat, total : Nat, errors : Nat]
      BY DEF NoVerdict, Outcome
    <3>3. BreakerTypeOK'
      BY <1>0, <2>1, <2>4, <3>1, <3>2, RingStays, LeaveTyped DEF BreakerTypeOK, breaker
    <3> QED  BY <3>1, <3>3, RingStays DEF RingInv
  <2> QED  BY <1>5, <2>2, <2>3, <2>4 DEF Judge
<1>6. ASSUME BreakerTick
      PROVE  RingInv'
  <2>1. UNCHANGED <<window, recent>>
    BY <1>6 DEF BreakerTick
  <2>2. BreakerTypeOK'
    BY <1>0, <1>6, <2>1, RingStays DEF BreakerTypeOK, BreakerTick, breaker, callers
  <2> QED  BY <2>1, <2>2, RingStays DEF RingInv
<1>7. ASSUME UNCHANGED breakerVars
      PROVE  RingInv'
  <2>1. UNCHANGED <<window, recent>>
    BY <1>7 DEF breakerVars
  <2>2. BreakerTypeOK'
    BY <1>0, <1>7, <2>1, RingStays DEF BreakerTypeOK, breakerVars, breaker, callers
  <2> QED  BY <2>1, <2>2, RingStays DEF RingInv
<1> QED  BY <1>1, <1>2, <1>3, <1>4, <1>5, <1>6, <1>7 DEF BreakerNext

(* The breaker is typed: its counts never fall below zero, no circuit is   *)
(* half open without its probe, and only an open one has a time of opening.*)
THEOREM BreakerIsTyped == BreakerSafety => []BreakerTypeOK
<1>1. RingInv => BreakerTypeOK
  BY DEF RingInv
<1> QED  BY <1>1, BreakerInitRing, BreakerStepRing, PTL DEF BreakerSafety

(* The counts that decide about opening are those of the last results, as  *)
(* many as the window holds, for every size of the window.                 *)
THEOREM BreakerWindowIsRecent == BreakerSafety => []WindowIsRecent
<1>1. RingInv => WindowIsRecent
  BY DEF RingInv
<1> QED  BY <1>1, BreakerInitRing, BreakerStepRing, PTL DEF BreakerSafety

-----------------------------------------------------------------------------
(* The probe.                                                              *)

(* No two probes have been let in.                                         *)
ProbersAgree == \A p, q \in probers : p = q

(* A set whose members are equal has at most one of them.                  *)
LEMMA AgreeingAreFew ==
  ASSUME NEW S, \A p, q \in S : p = q
  PROVE  Cardinality(S) <= 1
<1>1. CASE S = {}
  BY <1>1, FS_EmptySet
<1>2. CASE S # {}
  <2>1. PICK p \in S : TRUE
    BY <1>2
  <2>2. S = {p}
    BY <2>1
  <2>3. Cardinality({p}) = 1
    BY FS_Singleton
  <2> QED  BY <2>2, <2>3
<1> QED  BY <1>1, <1>2

(* A probe is let in when the circuit leaves the open state, and no other  *)
(* while it stays half open.                                               *)
LEMMA BreakerStepProbe ==
  BreakerTypeOK /\ ProbersAgree /\ [BreakerNext]_breakerVars => ProbersAgree'
<1> SUFFICES ASSUME BreakerTypeOK, ProbersAgree, [BreakerNext]_breakerVars
             PROVE  ProbersAgree'
  OBVIOUS
<1>1. ASSUME NEW c \in Caller, AcquireProbe(c)
      PROVE  ProbersAgree'
  <2>1. circuit = "Open"
    BY <1>1 DEF AcquireProbe, BreakerTypeOK
  <2> QED  BY <1>1, <2>1 DEF AcquireProbe, ProbersAgree
<1>2. ASSUME NEW c \in Caller, Abandon(c)
      PROVE  ProbersAgree'
  BY <1>2 DEF Abandon, ProbersAgree
<1>3. ASSUME UNCHANGED probers
      PROVE  ProbersAgree'
  BY <1>3 DEF ProbersAgree
<1> QED  BY <1>1, <1>2, <1>3
            DEF BreakerNext, AcquireClosed, Finish, Judge, BreakerTick, breakerVars

(* Each half-open period lets one probe through, however many callers      *)
(* there are and whoever of them is late, dropped or judged meanwhile.     *)
THEOREM BreakerHasOneProbe == BreakerSafety => []OneProbePerPeriod
<1>1. BreakerInit => ProbersAgree
  BY DEF BreakerInit, ProbersAgree
<1>2. ProbersAgree => OneProbePerPeriod
  BY AgreeingAreFew DEF ProbersAgree, OneProbePerPeriod
<1> QED  BY <1>1, <1>2, BreakerIsTyped, BreakerStepProbe, PTL DEF BreakerSafety

-----------------------------------------------------------------------------
(* The decision.                                                           *)

Errors == counts["Failure"] + counts["Timeout"]

(* Whenever a closed circuit's window calls for opening, some caller holds *)
(* exactly that window in its verdict and has still to judge it.           *)
JudgePending ==
  circuit = "Closed" /\ TooManyErrors(filled, Errors)
    => \E c \in Caller : /\ doing[c] = "judging"
                         /\ verdict[c].total = filled
                         /\ verdict[c].errors = Errors

(* The result that tips the window brings its own judge; a judge opens the *)
(* circuit when the window it took along calls for it, whatever came since.*)
LEMMA BreakerStepPending ==
  BreakerTypeOK /\ JudgePending /\ [BreakerNext]_breakerVars => JudgePending'
<1> SUFFICES ASSUME BreakerTypeOK, JudgePending, [BreakerNext]_breakerVars
             PROVE  JudgePending'
  OBVIOUS
<1>1. ASSUME NEW c \in Caller, AcquireClosed(c)
      PROVE  JudgePending'
  BY <1>1 DEF AcquireClosed, Run, breaker, window, JudgePending, Errors, BreakerTypeOK
<1>2. ASSUME NEW c \in Caller, AcquireProbe(c)
      PROVE  JudgePending'
  BY <1>2 DEF AcquireProbe, JudgePending
<1>3. ASSUME NEW c \in Caller, Abandon(c)
      PROVE  JudgePending'
  BY <1>3 DEF Abandon, Leave, breaker, window, JudgePending, Errors, BreakerTypeOK
<1>4. ASSUME NEW c \in Caller, NEW o \in Outcome, Finish(c, o)
      PROVE  JudgePending'
  <2>1. /\ doing'[c] = "judging"
        /\ verdict'[c].total = filled'
        /\ verdict'[c].errors = Errors'
    BY <1>4 DEF Finish, Errors, BreakerTypeOK
  <2> QED  BY <2>1 DEF JudgePending
<1>5. ASSUME NEW c \in Caller, Judge(c)
      PROVE  JudgePending'
  <2>1. CASE OpenCircuit(c)
    BY <2>1 DEF OpenCircuit, JudgePending
  <2>2. CASE CloseCircuit
    <3>1. filled' = 0 /\ Errors' = 0
      BY <2>2 DEF CloseCircuit, Errors, Outcome
    <3>2. ~TooManyErrors(filled', Errors')
      BY <3>1, BreakerAssumption DEF TooManyErrors
    <3> QED  BY <3>2 DEF JudgePending, TooManyErrors
  <2>3. CASE /\ ~TooManyErrors(verdict[c].total, verdict[c].errors)
             /\ UNCHANGED <<breaker, window, recent>>
    <3>1. circuit' = circuit /\ filled' = filled /\ Errors' = Errors
      BY <2>3 DEF breaker, window, Errors
    <3>2. \A d \in Caller \ {c} : doing'[d] = doing[d] /\ verdict'[d] = verdict[d]
      BY <1>5 DEF Judge, Leave, BreakerTypeOK
    <3>3. SUFFICES ASSUME circuit = "Closed", TooManyErrors(filled, Errors)
                   PROVE  \E d \in Caller : /\ doing'[d] = "judging"
                                            /\ verdict'[d].total = filled
                                            /\ verdict'[d].errors = Errors
      BY <3>1 DEF JudgePending, TooManyErrors
    <3>4. PICK d \in Caller : /\ doing[d] = "judging"
                              /\ verdict[d].total = filled
                              /\ verdict[d].errors = Errors
      BY <3>3 DEF JudgePending
    <3>5. d # c
      BY <2>3, <3>3, <3>4
    <3> QED  BY <3>2, <3>4, <3>5
  <2> QED  BY <1>5, <2>1, <2>2, <2>3 DEF Judge
<1>6. ASSUME BreakerTick
      PROVE  JudgePending'
  BY <1>6 DEF BreakerTick, breaker, window, callers, JudgePending, Errors
<1>7. ASSUME UNCHANGED breakerVars
      PROVE  JudgePending'
  BY <1>7 DEF breakerVars, breaker, window, callers, JudgePending, Errors
<1> QED  BY <1>1, <1>2, <1>3, <1>4, <1>5, <1>6, <1>7 DEF BreakerNext

(* A circuit is never left closed over a window that calls for opening it. *)
THEOREM BreakerClosedIsHealthy == BreakerSafety => []ClosedIsHealthy
<1>1. BreakerInit => JudgePending
  <2> SUFFICES ASSUME BreakerInit
               PROVE  ~TooManyErrors(filled, Errors)
    BY DEF JudgePending
  <2> QED  BY BreakerAssumption DEF BreakerInit, TooManyErrors, Errors, Outcome
<1>2. JudgePending => ClosedIsHealthy
  BY DEF JudgePending, ClosedIsHealthy, Errors
<1> QED  BY <1>1, <1>2, BreakerIsTyped, BreakerStepPending, PTL DEF BreakerSafety
=============================================================================
