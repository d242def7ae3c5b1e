----------------------------- MODULE QueueProofs ----------------------------
(***************************************************************************)
(* The in-memory queue, for every set of jobs, limits and schedules: its   *)
(* type invariant, that no job is ever in two places, that no job exceeds  *)
(* its attempts or is available before its time, and that jobs leave       *)
(* pending in order.                                                       *)
(***************************************************************************)
EXTENDS Queue, QueueOpsProofs

(* The empty queue is typed.                                               *)
LEMMA QueueInitTyped == QueueInit => QueueTypeOK
BY EmptyQueueType DEF QueueInit, QueueTypeOK

(* The first pending job is at position 1.                                 *)
LEMMA FrontIsPosition ==
  ASSUME NEW v \in QueueValue, v.pending # << >>
  PROVE  1 \in DOMAIN v.pending
<1>1. v.pending \in Seq(Entry) /\ DOMAIN v.pending = 1..Len(v.pending)
  BY QueueFields
<1>2. Len(v.pending) \in Nat \ {0}
  BY <1>1, EmptySeq
<1> QED  BY <1>1, <1>2

(* Every operation keeps the queue typed.                                  *)
LEMMA QueueStepTyped == QueueTypeOK /\ [QueueNext]_queueVars => QueueTypeOK'
<1> SUFFICES ASSUME QueueTypeOK, [QueueNext]_queueVars
             PROVE  QueueTypeOK'
  OBVIOUS
<1> USE DEF QueueTypeOK
<1>1. CASE \E j \in Job : EnqueueJob(j)
  BY <1>1, EnqueueType DEF EnqueueJob
<1>2. CASE DequeueAny
  BY <1>2, FrontIsPosition, MoveType DEF DequeueAny
<1>3. CASE \E n \in QueueName : DequeueFrom(n)
  BY <1>3, MoveType DEF DequeueFrom
<1>4. CASE \E j \in Job : AckJob(j)
  BY <1>4, AckType DEF AckJob
<1>5. CASE \E j \in Job : NackJob(j)
  BY <1>5, NackType DEF NackJob
<1>6. CASE PromoteReady
  BY <1>6, PromoteType DEF PromoteReady
<1>7. CASE Tick
  BY <1>7 DEF Tick
<1>8. CASE UNCHANGED queueVars
  BY <1>8 DEF queueVars
<1> QED  BY <1>1, <1>2, <1>3, <1>4, <1>5, <1>6, <1>7, <1>8 DEF QueueNext

(* Every reachable queue is a queue value.                                 *)
THEOREM QueueTyped == QueueSpec => []QueueTypeOK
BY QueueInitTyped, QueueStepTyped, PTL DEF QueueSpec

(* Every operation keeps each job in one place.                            *)
LEMMA QueueStepUnique ==
  QueueTypeOK /\ OnePlace /\ [QueueNext]_queueVars => OnePlace'
<1> SUFFICES ASSUME QueueTypeOK, OnePlace, [QueueNext]_queueVars
             PROVE  OnePlace'
  OBVIOUS
<1> USE DEF QueueTypeOK, OnePlace
<1>1. CASE \E j \in Job : EnqueueJob(j)
  BY <1>1, EnqueueUnique DEF EnqueueJob
<1>2. CASE DequeueAny
  BY <1>2, FrontIsPosition, MoveUnique DEF DequeueAny
<1>3. CASE \E n \in QueueName : DequeueFrom(n)
  BY <1>3, MoveUnique DEF DequeueFrom
<1>4. CASE \E j \in Job : AckJob(j)
  BY <1>4, AckUnique DEF AckJob
<1>5. CASE \E j \in Job : NackJob(j)
  BY <1>5, NackUnique DEF NackJob
<1>6. CASE PromoteReady
  BY <1>6, PromoteUnique DEF PromoteReady
<1>7. CASE Tick
  BY <1>7 DEF Tick
<1>8. CASE UNCHANGED queueVars
  BY <1>8 DEF queueVars
<1> QED  BY <1>1, <1>2, <1>3, <1>4, <1>5, <1>6, <1>7, <1>8 DEF QueueNext

(* No job is ever in two places, or twice in one, however enqueues,        *)
(* dequeues, acks, nacks and promotions interleave.                        *)
THEOREM QueueUnique == QueueSpec => []OnePlace
<1>1. QueueInit => OnePlace
  BY EmptyQueueUnique DEF QueueInit, OnePlace
<1> QED  BY <1>1, QueueTyped, QueueStepUnique, PTL DEF QueueSpec

-----------------------------------------------------------------------------
(* What the operations do to each container.                               *)

(* An enqueued job is scheduled, or joins the line.                        *)
LEMMA EnqueueEffect ==
  ASSUME NEW v \in QueueValue, NEW j \in Job, NEW t \in Nat
  PROVE  LET w == Enqueue(v, j, t) IN
         /\ w.processing = v.processing /\ w.completed = v.completed
         /\ w.dead_letter = v.dead_letter /\ w.reasons = v.reasons
         /\ ScheduledAt[j] > t => w.pending = v.pending /\ w.scheduled = v.scheduled \cup {j}
         /\ ~(ScheduledAt[j] > t) => /\ w.pending = Append(v.pending, [id |-> j, attempts |-> 0])
                                     /\ w.scheduled = v.scheduled
<1> DEFINE w    == Enqueue(v, j, t)
           line == Append(v.pending, [id |-> j, attempts |-> 0])
<1>1. ScheduledAt[j] > t => w = [v EXCEPT !.scheduled = v.scheduled \cup {j}]
  BY QueueFields DEF Enqueue
<1>2. ~(ScheduledAt[j] > t) => w = [v EXCEPT !.pending = line]
  BY QueueFields DEF Enqueue
<1> HIDE DEF w, line
<1>3. ASSUME ScheduledAt[j] > t
      PROVE  /\ w.pending = v.pending /\ w.scheduled = v.scheduled \cup {j}
             /\ w.processing = v.processing /\ w.completed = v.completed
             /\ w.dead_letter = v.dead_letter /\ w.reasons = v.reasons
  BY <1>1, <1>3, QueueFields
<1>4. ASSUME ~(ScheduledAt[j] > t)
      PROVE  /\ w.pending = line /\ w.scheduled = v.scheduled
             /\ w.processing = v.processing /\ w.completed = v.completed
             /\ w.dead_letter = v.dead_letter /\ w.reasons = v.reasons
  BY <1>2, <1>4, QueueFields
<1> QED  BY <1>3, <1>4 DEF w, line

(* All that a nack can do to the line.                                     *)
LEMMA NackLine ==
  ASSUME NEW v \in QueueValue, NEW j \in Job, IsProcessing(v, j), NEW w, w = Nack(v, j)
  PROVE  /\ w.processing = {p \in v.processing : p.id # j}
         /\ w.pending = v.pending \/ w.pending = Append(v.pending, Requeued(v, j))
         /\ Requeued(v, j) \in Entry
<1>1. Requeued(v, j) \in Entry
  BY NackEffect
<1>2. /\ w.processing = {p \in v.processing : p.id # j}
      /\ Dies(v, j) => w.pending = v.pending
      /\ ~Dies(v, j) => w.pending = Append(v.pending, Requeued(v, j))
  BY NackFields
<1> QED  BY <1>1, <1>2

(* The positions of a line that one entry joins.                           *)
LEMMA JoinedLine ==
  ASSUME NEW v \in QueueValue, NEW e \in Entry, NEW line, line = Append(v.pending, e)
  PROVE  /\ DOMAIN line = 1..(Len(v.pending) + 1)
         /\ \A k \in DOMAIN line :
              \/ k \in DOMAIN v.pending /\ line[k] = v.pending[k]
              \/ k = Len(v.pending) + 1 /\ line[k] = e
<1>1. /\ DOMAIN line = 1..(Len(v.pending) + 1)
      /\ \A k \in 1..Len(v.pending) : line[k] = v.pending[k]
      /\ line[Len(v.pending) + 1] = e
  BY QueueFields, AppendOne
<1> QED  BY <1>1, QueueFields

(* Of a line that one entry leaves, each entry was there before.           *)
LEMMA LeftLine ==
  ASSUME NEW v \in QueueValue, NEW i \in DOMAIN v.pending,
         NEW w, w = MoveToProcessing(v, i), NEW k \in DOMAIN w.pending
  PROVE  \E m \in DOMAIN v.pending : w.pending[k] = v.pending[m]
<1>1. /\ DOMAIN w.pending = 1..(Len(v.pending) - 1)
      /\ w.pending[k] = IF k < i THEN v.pending[k] ELSE v.pending[k + 1]
  BY MoveEffect
<1>2. k \in DOMAIN v.pending /\ k + 1 \in DOMAIN v.pending
  BY <1>1, QueueFields
<1> QED  BY <1>1, <1>2

(* Of a line that promoted jobs join, each entry was there or is one of    *)
(* them.                                                                   *)
LEMMA PromotedLine ==
  ASSUME NEW v \in QueueValue, NEW t, NEW s \in HeapOrders(Ready(v, t))
  PROVE  LET w == Promote(v, s) IN
         \A k \in DOMAIN w.pending :
           \/ k \in DOMAIN v.pending /\ w.pending[k] = v.pending[k]
           \/ /\ k > Len(v.pending)
              /\ w.pending[k].id \in Ready(v, t) /\ w.pending[k].attempts = 0
<1> DEFINE w == Promote(v, s)
           n == Len(v.pending)
           c == Cardinality(Ready(v, t))
<1>1. /\ c \in Nat /\ DOMAIN s = 1..c /\ DOMAIN w.pending = 1..(n + c)
      /\ \A m \in 1..n : w.pending[m] = v.pending[m]
      /\ \A m \in DOMAIN s : w.pending[n + m] = [id |-> s[m], attempts |-> 0]
      /\ \A m \in DOMAIN s : s[m] \in Ready(v, t)
  BY PromoteEffect
<1> HIDE DEF c, w
<1>2. n \in Nat /\ DOMAIN v.pending = 1..n
  BY QueueFields
<1> HIDE DEF n
<1>3. ASSUME NEW k \in DOMAIN w.pending
      PROVE  \/ k \in DOMAIN v.pending /\ w.pending[k] = v.pending[k]
             \/ /\ k > n
                /\ w.pending[k].id \in Ready(v, t) /\ w.pending[k].attempts = 0
  <2>0. k \in Nat /\ k >= 1 /\ k <= n + c
    BY <1>1, <1>2, <1>3
  <2>1. CASE k <= n
    BY <1>1, <1>2, <2>0, <2>1
  <2>2. CASE k > n
    <3>1. k - n \in DOMAIN s /\ n + (k - n) = k
      BY <1>1, <1>2, <2>0, <2>2
    <3>2. w.pending[k] = [id |-> s[k - n], attempts |-> 0] /\ s[k - n] \in Ready(v, t)
      BY <1>1, <3>1
    <3> QED  BY <2>2, <3>2
  <2> QED  BY <1>2, <2>0, <2>1, <2>2
<1> QED  BY <1>3 DEF n, w

-----------------------------------------------------------------------------
(* The accounting of retries.                                              *)
(*                                                                         *)
(* A reason is on record only for a job that the queue knows, and never    *)
(* for one that still waits for its time.                                  *)

Accounted(v, e) == HasBudget(e) /\ (e.id \in v.reasons <=> e.attempts > 0)

Accounts(v) ==
  /\ \A i \in DOMAIN v.pending : Accounted(v, v.pending[i])
  /\ \A e \in v.processing : Accounted(v, e)
  /\ \A j \in Job : v.dead_letter[j] > 0 => j \in v.reasons
  /\ \A j \in Job : v.completed[j] > 0 => j \notin v.reasons
  /\ \A j \in v.scheduled : j \notin v.reasons
  /\ v.reasons \subseteq Known(v)

(* A new job has no reason on record.                                      *)
LEMMA EnqueueAccounts ==
  ASSUME NEW v \in QueueValue, NoDuplicate(v), Accounts(v), NEW j \in Job, NEW t \in Nat,
         j \notin Known(v), NEW w, w = Enqueue(v, j, t)
  PROVE  Accounts(w)
<1> DEFINE e == [id |-> j, attempts |-> 0]
<1>1. /\ w.processing = v.processing /\ w.completed = v.completed
      /\ w.dead_letter = v.dead_letter /\ w.reasons = v.reasons
      /\ ScheduledAt[j] > t => w.pending = v.pending /\ w.scheduled = v.scheduled \cup {j}
      /\ ~(ScheduledAt[j] > t) => w.pending = Append(v.pending, e) /\ w.scheduled = v.scheduled
  BY EnqueueEffect
<1>2. Known(v) \subseteq Known(w) /\ j \notin v.reasons
  BY EnqueueKnows DEF Accounts
<1>3. e \in Entry /\ e.id = j /\ e.attempts = 0
  BY DEF Entry
<1>4. Accounted(w, e)
  BY <1>1, <1>2, <1>3 DEF Accounted, HasBudget
<1> HIDE DEF e
<1>5. \A k \in DOMAIN w.pending : Accounted(w, w.pending[k])
  <2>1. CASE ScheduledAt[j] > t
    BY <1>1, <2>1 DEF Accounts, Accounted
  <2>2. CASE ~(ScheduledAt[j] > t)
    <3>1. \A k \in DOMAIN w.pending :
            \/ k \in DOMAIN v.pending /\ w.pending[k] = v.pending[k]
            \/ w.pending[k] = e
      BY <1>1, <1>3, <2>2, JoinedLine
    <3> QED  BY <1>1, <1>4, <3>1 DEF Accounts, Accounted
  <2> QED  BY <2>1, <2>2
<1>6. \A k \in w.scheduled : k \notin w.reasons
  BY <1>1, <1>2 DEF Accounts
<1> QED  BY <1>1, <1>2, <1>5, <1>6 DEF Accounts, Accounted

(* Moving a job changes no account.                                        *)
LEMMA MoveAccounts ==
  ASSUME NEW v \in QueueValue, Accounts(v), NEW i \in DOMAIN v.pending,
         NEW w, w = MoveToProcessing(v, i)
  PROVE  Accounts(w)
<1>1. /\ w.processing = {p \in v.processing : p.id # v.pending[i].id} \cup {v.pending[i]}
      /\ w.scheduled = v.scheduled /\ w.completed = v.completed
      /\ w.dead_letter = v.dead_letter /\ w.reasons = v.reasons
  BY MoveEffect
<1>2. \A k \in DOMAIN w.pending : \E m \in DOMAIN v.pending : w.pending[k] = v.pending[m]
  BY LeftLine
<1>3. Known(v) \subseteq Known(w)
  BY MoveKnows
<1> QED  BY <1>1, <1>2, <1>3 DEF Accounts, Accounted

(* A completed job loses its reason, and is in no other container.         *)
LEMMA AckAccounts ==
  ASSUME NEW v \in QueueValue, NoDuplicate(v), Accounts(v), NEW j \in Job, IsProcessing(v, j),
         NEW w, w = Ack(v, j)
  PROVE  Accounts(w)
<1>1. /\ w.pending = v.pending /\ w.scheduled = v.scheduled
      /\ w.processing = {p \in v.processing : p.id # j}
      /\ w.dead_letter = v.dead_letter /\ w.reasons = v.reasons \ {j}
      /\ w.completed = [v.completed EXCEPT ![j] = v.completed[j] + 1]
  BY AckFields
<1>2. PICK e \in v.processing : e.id = j
  BY DEF IsProcessing
<1>3. /\ \A i \in DOMAIN v.pending : v.pending[i].id # j
      /\ v.dead_letter[j] = 0
  BY <1>2, Apart
<1>4. Known(v) \subseteq Known(w)
  BY AckKnows
<1>5. \A k \in Job : k # j => w.completed[k] = v.completed[k]
  BY <1>1, QueueFields
<1>6. \A i \in DOMAIN w.pending : Accounted(w, w.pending[i])
  BY <1>1, <1>3 DEF Accounts, Accounted
<1>7. \A f \in w.processing : Accounted(w, f)
  BY <1>1 DEF Accounts, Accounted
<1>8. \A k \in Job : w.dead_letter[k] > 0 => k \in w.reasons
  BY <1>1, <1>3 DEF Accounts
<1>9. \A k \in Job : w.completed[k] > 0 => k \notin w.reasons
  BY <1>1, <1>5 DEF Accounts
<1> QED  BY <1>1, <1>4, <1>6, <1>7, <1>8, <1>9 DEF Accounts

(* A failed job gets a reason, one more attempt and, with none left, dies. *)
LEMMA NackAccounts ==
  ASSUME NEW v \in QueueValue, NoDuplicate(v), Accounts(v), NEW j \in Job, IsProcessing(v, j),
         NEW w, w = Nack(v, j)
  PROVE  Accounts(w)
<1> DEFINE r == Requeued(v, j)
<1>1. /\ w.scheduled = v.scheduled /\ w.completed = v.completed
      /\ w.processing = {p \in v.processing : p.id # j}
      /\ w.reasons = v.reasons \cup {j}
      /\ Dies(v, j) =>
           /\ w.pending = v.pending
           /\ w.dead_letter = [v.dead_letter EXCEPT ![j] = v.dead_letter[j] + 1]
      /\ ~Dies(v, j) => w.pending = Append(v.pending, r) /\ w.dead_letter = v.dead_letter
  BY NackFields
<1>2. PICK e \in v.processing : e.id = j
  BY DEF IsProcessing
<1>3. /\ \A i \in DOMAIN v.pending : v.pending[i].id # j
      /\ v.completed[j] = 0 /\ j \notin v.scheduled
  BY <1>2, Apart
<1>4. Known(v) \subseteq Known(w) /\ j \in Known(v)
  BY <1>2, NackKnows DEF Known, ProcessingIds
<1>5. \A k \in Job : k # j => w.dead_letter[k] = v.dead_letter[k]
  BY <1>1, QueueFields
<1>6. \A i \in DOMAIN v.pending : Accounted(w, v.pending[i])
  BY <1>1, <1>3 DEF Accounts, Accounted
<1>7. \A f \in w.processing : Accounted(w, f)
  BY <1>1 DEF Accounts, Accounted
<1>8. /\ r \in Entry /\ r.id = j /\ r.attempts > 0
      /\ ~Dies(v, j) => r.attempts < MaxAttempts[j]
  <2> DEFINE f == CHOOSE x \in v.processing : x.id = j
  <2>1. f.attempts \in Nat /\ r \in Entry
    BY ProcessingEntry, NackEffect
  <2>2. r.id = j /\ r.attempts = f.attempts + 1
    BY DEF Requeued
  <2>3. ~Dies(v, j) => ~(f.attempts + 1 >= MaxAttempts[j])
    BY DEF Dies
  <2>4. MaxAttempts[j] \in Nat
    BY QueueAssumption
  <2> HIDE DEF f, r
  <2> QED  BY <2>1, <2>2, <2>3, <2>4
<1> HIDE DEF r
<1>9. ~Dies(v, j) => Accounted(w, r)
  BY <1>1, <1>8 DEF Accounted, HasBudget
<1>10. \A i \in DOMAIN w.pending : Accounted(w, w.pending[i])
  <2>1. CASE Dies(v, j)
    BY <1>1, <1>6, <2>1
  <2>2. CASE ~Dies(v, j)
    <3>1. \A k \in DOMAIN w.pending :
            \/ k \in DOMAIN v.pending /\ w.pending[k] = v.pending[k]
            \/ w.pending[k] = r
      BY <1>1, <1>8, <2>2, JoinedLine
    <3> QED  BY <1>6, <1>9, <2>2, <3>1
  <2> QED  BY <2>1, <2>2
<1>11. \A k \in Job : w.dead_letter[k] > 0 => k \in w.reasons
  BY <1>1, <1>5 DEF Accounts
<1>12. \A k \in Job : w.completed[k] > 0 => k \notin w.reasons
  BY <1>1, <1>3 DEF Accounts
<1>13. \A k \in w.scheduled : k \notin w.reasons
  BY <1>1, <1>3 DEF Accounts
<1>14. w.reasons \subseteq Known(w)
  BY <1>1, <1>4 DEF Accounts
<1> QED  BY <1>7, <1>10, <1>11, <1>12, <1>13, <1>14 DEF Accounts

(* A promoted job has not failed yet.                                      *)
LEMMA PromoteAccounts ==
  ASSUME NEW v \in QueueValue, Accounts(v), NEW t, NEW s \in HeapOrders(Ready(v, t)),
         NEW w, w = Promote(v, s)
  PROVE  Accounts(w)
<1>1. /\ w.scheduled = v.scheduled \ Ready(v, t)
      /\ w.processing = v.processing /\ w.completed = v.completed
      /\ w.dead_letter = v.dead_letter /\ w.reasons = v.reasons
  BY PromoteEffect
<1>2. Known(v) \subseteq Known(w)
  BY PromoteKnows
<1>3. \A e : e.id \in Ready(v, t) /\ e.attempts = 0 => Accounted(w, e)
  BY <1>1 DEF Accounts, Accounted, HasBudget, Ready
<1>4. \A k \in DOMAIN w.pending : Accounted(w, w.pending[k])
  <2>1. ASSUME NEW k \in DOMAIN v.pending
        PROVE  Accounted(w, v.pending[k])
    BY <1>1 DEF Accounts, Accounted
  <2>2. \A k \in DOMAIN w.pending :
          \/ k \in DOMAIN v.pending /\ w.pending[k] = v.pending[k]
          \/ /\ k > Len(v.pending)
             /\ w.pending[k].id \in Ready(v, t) /\ w.pending[k].attempts = 0
    BY PromotedLine
  <2> QED  BY <1>3, <2>1, <2>2
<1> QED  BY <1>1, <1>2, <1>4 DEF Accounts, Accounted

(* Every step keeps the accounts.                                          *)
LEMMA QueueStepAccounts ==
  QueueTypeOK /\ OnePlace /\ Accounts(q) /\ [QueueNext]_queueVars => Accounts(q)'
<1> SUFFICES ASSUME QueueTypeOK, OnePlace, Accounts(q), [QueueNext]_queueVars
             PROVE  Accounts(q')
  OBVIOUS
<1> USE DEF QueueTypeOK, OnePlace
<1>1. CASE \E j \in Job : EnqueueJob(j)
  BY <1>1, EnqueueAccounts DEF EnqueueJob
<1>2. CASE DequeueAny
  BY <1>2, FrontIsPosition, MoveAccounts DEF DequeueAny
<1>3. CASE \E n \in QueueName : DequeueFrom(n)
  BY <1>3, MoveAccounts DEF DequeueFrom
<1>4. CASE \E j \in Job : AckJob(j)
  BY <1>4, AckAccounts DEF AckJob
<1>5. CASE \E j \in Job : NackJob(j)
  BY <1>5, NackAccounts DEF NackJob
<1>6. CASE PromoteReady
  BY <1>6, PromoteAccounts DEF PromoteReady
<1>7. CASE Tick
  BY <1>7 DEF Tick
<1>8. CASE UNCHANGED queueVars
  BY <1>8 DEF queueVars
<1> QED  BY <1>1, <1>2, <1>3, <1>4, <1>5, <1>6, <1>7, <1>8 DEF QueueNext

(* No job is delivered more often than max_attempts allows, and            *)
(* failure_reasons has exactly the jobs that failed and did not complete.  *)
THEOREM QueueAccountsForRetries == QueueSpec => []RetryAccounting
<1>1. QueueInit => Accounts(q)
  <2> SUFFICES ASSUME QueueInit  PROVE Accounts(q)
    OBVIOUS
  <2>1. /\ q.pending = << >> /\ q.processing = {} /\ q.scheduled = {} /\ q.reasons = {}
        /\ \A j \in Job : q.completed[j] = 0 /\ q.dead_letter[j] = 0
    BY DEF QueueInit, EmptyQueue
  <2>2. DOMAIN q.pending = {}
    BY <2>1
  <2> QED  BY <2>1, <2>2 DEF Accounts
<1>2. Accounts(q) => RetryAccounting
  BY DEF Accounts, Accounted, RetryAccounting, WithinBudget, ReasonsAgree, IsDead, IsCompleted
<1> QED  BY <1>1, <1>2, QueueTyped, QueueUnique, QueueStepAccounts, PTL DEF QueueSpec

-----------------------------------------------------------------------------
(* Scheduled jobs and the clock.                                           *)

DueBy(v, t) == \A j \in PendingIds(v) \cup ProcessingIds(v) : ScheduledAt[j] <= t

(* It is enough that whatever is pending or processing after an operation  *)
(* was so before, or is due.                                               *)
LEMMA StaysDue ==
  ASSUME NEW v, NEW w, NEW t, DueBy(v, t),
         \A k \in DOMAIN w.pending :
           \/ \E m \in DOMAIN v.pending : w.pending[k].id = v.pending[m].id
           \/ \E e \in v.processing : w.pending[k].id = e.id
           \/ ScheduledAt[w.pending[k].id] <= t,
         \A f \in w.processing : \/ \E m \in DOMAIN v.pending : f.id = v.pending[m].id
                                 \/ \E e \in v.processing : f.id = e.id
  PROVE  DueBy(w, t)
BY DEF DueBy, PendingIds, ProcessingIds

(* Enqueueing makes a job available only if its time has come.             *)
LEMMA EnqueueDue ==
  ASSUME NEW v \in QueueValue, NEW t \in Nat, DueBy(v, t), NEW j \in Job,
         NEW w, w = Enqueue(v, j, t)
  PROVE  DueBy(w, t)
<1> DEFINE e == [id |-> j, attempts |-> 0]
<1>1. /\ w.processing = v.processing
      /\ ScheduledAt[j] > t => w.pending = v.pending
      /\ ~(ScheduledAt[j] > t) => w.pending = Append(v.pending, e)
  BY EnqueueEffect
<1>2. ScheduledAt[j] \in Nat /\ e \in Entry /\ e.id = j
  BY QueueAssumption DEF Entry
<1> HIDE DEF e
<1>3. \A k \in DOMAIN w.pending :
        \/ \E m \in DOMAIN v.pending : w.pending[k].id = v.pending[m].id
        \/ ScheduledAt[w.pending[k].id] <= t
  <2>1. CASE ScheduledAt[j] > t
    BY <1>1, <2>1
  <2>2. CASE ~(ScheduledAt[j] > t)
    <3>1. ScheduledAt[e.id] <= t
      BY <1>2, <2>2
    <3>2. \A k \in DOMAIN w.pending :
            \/ k \in DOMAIN v.pending /\ w.pending[k] = v.pending[k]
            \/ w.pending[k] = e
      BY <1>1, <1>2, <2>2, JoinedLine
    <3> QED  BY <3>1, <3>2
  <2> QED  BY <2>1, <2>2
<1> QED  BY <1>1, <1>3, StaysDue

(* A dequeue moves a job that was available.                               *)
LEMMA MoveDue ==
  ASSUME NEW v \in QueueValue, NEW t, DueBy(v, t), NEW i \in DOMAIN v.pending,
         NEW w, w = MoveToProcessing(v, i)
  PROVE  DueBy(w, t)
<1>1. w.processing = {p \in v.processing : p.id # v.pending[i].id} \cup {v.pending[i]}
  BY MoveEffect
<1>2. \A k \in DOMAIN w.pending : \E m \in DOMAIN v.pending : w.pending[k] = v.pending[m]
  BY LeftLine
<1> QED  BY <1>1, <1>2, StaysDue

(* An ack makes nothing available.                                         *)
LEMMA AckDue ==
  ASSUME NEW v \in QueueValue, NEW t, DueBy(v, t), NEW j \in Job, IsProcessing(v, j),
         NEW w, w = Ack(v, j)
  PROVE  DueBy(w, t)
<1>1. w.pending = v.pending /\ w.processing = {p \in v.processing : p.id # j}
  BY AckFields
<1> QED  BY <1>1, StaysDue

(* A nack makes available a job that had been handed out.                  *)
LEMMA NackDue ==
  ASSUME NEW v \in QueueValue, NEW t, DueBy(v, t), NEW j \in Job, IsProcessing(v, j),
         NEW w, w = Nack(v, j)
  PROVE  DueBy(w, t)
<1>1. /\ w.processing = {p \in v.processing : p.id # j}
      /\ w.pending = v.pending \/ w.pending = Append(v.pending, Requeued(v, j))
      /\ Requeued(v, j) \in Entry
  BY NackLine
<1>2. \E e \in v.processing : Requeued(v, j).id = e.id
  BY DEF IsProcessing, Requeued
<1>3. \A k \in DOMAIN w.pending :
        \/ \E m \in DOMAIN v.pending : w.pending[k].id = v.pending[m].id
        \/ \E e \in v.processing : w.pending[k].id = e.id
  <2>1. CASE w.pending = v.pending
    BY <2>1
  <2>2. CASE w.pending = Append(v.pending, Requeued(v, j))
    <3>1. \A k \in DOMAIN w.pending :
            \/ k \in DOMAIN v.pending /\ w.pending[k] = v.pending[k]
            \/ w.pending[k] = Requeued(v, j)
      BY <1>1, <2>2, JoinedLine
    <3> QED  BY <1>2, <3>1
  <2> QED  BY <1>1, <2>1, <2>2
<1> QED  BY <1>1, <1>3, StaysDue

(* Promotion makes the ready jobs available, which are due.                *)
LEMMA PromoteDue ==
  ASSUME NEW v \in QueueValue, NEW t, DueBy(v, t), NEW s \in HeapOrders(Ready(v, t)),
         NEW w, w = Promote(v, s)
  PROVE  DueBy(w, t)
<1>1. w.processing = v.processing
  BY PromoteEffect
<1>2. ASSUME NEW k \in DOMAIN w.pending
      PROVE  \/ \E m \in DOMAIN v.pending : w.pending[k].id = v.pending[m].id
             \/ ScheduledAt[w.pending[k].id] <= t
  <2>1. \A i \in DOMAIN w.pending :
          \/ i \in DOMAIN v.pending /\ w.pending[i] = v.pending[i]
          \/ /\ i > Len(v.pending)
             /\ w.pending[i].id \in Ready(v, t) /\ w.pending[i].attempts = 0
    BY PromotedLine
  <2> QED  BY <2>1 DEF Ready
<1> QED  BY <1>1, <1>2, StaysDue

(* What is due stays due.                                                  *)
LEMMA LaterDue ==
  ASSUME NEW v \in QueueValue, NEW t \in Nat, DueBy(v, t)
  PROVE  DueBy(v, t + 1)
<1>1. \A j \in PendingIds(v) \cup ProcessingIds(v) : ScheduledAt[j] \in Nat
  BY QueueAssumption, QueueFields DEF PendingIds, ProcessingIds, Entry
<1> QED  BY <1>1 DEF DueBy

(* Every step leaves only due jobs available.                              *)
LEMMA QueueStepDue ==
  QueueTypeOK /\ DueBy(q, now) /\ [QueueNext]_queueVars => DueBy(q', now')
<1> SUFFICES ASSUME QueueTypeOK, DueBy(q, now), [QueueNext]_queueVars
             PROVE  DueBy(q', now')
  OBVIOUS
<1> USE DEF QueueTypeOK
<1>1. CASE \E j \in Job : EnqueueJob(j)
  BY <1>1, EnqueueDue DEF EnqueueJob
<1>2. CASE DequeueAny
  BY <1>2, FrontIsPosition, MoveDue DEF DequeueAny
<1>3. CASE \E n \in QueueName : DequeueFrom(n)
  BY <1>3, MoveDue DEF DequeueFrom
<1>4. CASE \E j \in Job : AckJob(j)
  BY <1>4, AckDue DEF AckJob
<1>5. CASE \E j \in Job : NackJob(j)
  BY <1>5, NackDue DEF NackJob
<1>6. CASE PromoteReady
  BY <1>6, PromoteDue DEF PromoteReady
<1>7. CASE Tick
  BY <1>7, LaterDue DEF Tick
<1>8. CASE UNCHANGED queueVars
  BY <1>8 DEF queueVars
<1> QED  BY <1>1, <1>2, <1>3, <1>4, <1>5, <1>6, <1>7, <1>8 DEF QueueNext

(* No job can be handed out before its scheduled_at.                       *)
THEOREM QueueNotEarly == QueueSpec => []NotEarly
<1>1. QueueInit => DueBy(q, now)
  BY DEF QueueInit, EmptyQueue, DueBy, PendingIds, ProcessingIds
<1>2. DueBy(q, now) <=> NotEarly
  BY DEF DueBy, NotEarly
<1>3. (DueBy(q, now))' <=> DueBy(q', now')
  BY DEF DueBy, PendingIds, ProcessingIds
<1>4. QueueTypeOK /\ NotEarly /\ [QueueNext]_queueVars => NotEarly'
  BY <1>3, QueueStepDue DEF DueBy, NotEarly, PendingIds, ProcessingIds
<1> QED  BY <1>1, <1>2, <1>4, QueueTyped, PTL DEF QueueSpec

-----------------------------------------------------------------------------
(* First in, first out.                                                    *)

(* Nothing that was waiting is overtaken: what is ahead of it afterwards   *)
(* was ahead of it before.                                                 *)
InLine(v, w) ==
  \A i \in DOMAIN v.pending : \A m, n \in DOMAIN w.pending :
     m < n /\ w.pending[n] = v.pending[i]
       => \E k \in 1..(i - 1) : w.pending[m] = v.pending[k]

(* A line that is joined at the back by jobs that were not in it.          *)
LEMMA JoinInLine ==
  ASSUME NEW v \in QueueValue, NoDuplicate(v), NEW w,
         DOMAIN w.pending \subseteq Nat \ {0},
         \A k \in DOMAIN w.pending :
           \/ k \in DOMAIN v.pending /\ w.pending[k] = v.pending[k]
           \/ k > Len(v.pending) /\ \A i \in DOMAIN v.pending : w.pending[k].id # v.pending[i].id
  PROVE  InLine(v, w)
<1> SUFFICES ASSUME NEW i \in DOMAIN v.pending, NEW m \in DOMAIN w.pending,
                    NEW n \in DOMAIN w.pending, m < n, w.pending[n] = v.pending[i]
             PROVE  \E k \in 1..(i - 1) : w.pending[m] = v.pending[k]
  BY DEF InLine
<1>1. n \in DOMAIN v.pending /\ w.pending[n] = v.pending[n]
  OBVIOUS
<1>2. n = i
  <2>1. v.pending[n].id = v.pending[i].id
    BY <1>1
  <2> QED  BY <1>1, <2>1, Apart
<1>3. m \in DOMAIN v.pending /\ m \in 1..(i - 1)
  BY <1>1, <1>2, QueueFields
<1>4. w.pending[m] = v.pending[m]
  BY <1>3, QueueFields
<1> QED  BY <1>3, <1>4

(* A line that one job leaves.                                             *)
LEMMA LeaveInLine ==
  ASSUME NEW v \in QueueValue, NoDuplicate(v), NEW l \in DOMAIN v.pending,
         NEW w, w = MoveToProcessing(v, l)
  PROVE  InLine(v, w)
<1> SUFFICES ASSUME NEW i \in DOMAIN v.pending, NEW m \in DOMAIN w.pending,
                    NEW n \in DOMAIN w.pending, m < n, w.pending[n] = v.pending[i]
             PROVE  \E k \in 1..(i - 1) : w.pending[m] = v.pending[k]
  BY DEF InLine
<1> DEFINE was(k) == IF k < l THEN k ELSE k + 1
<1>1. /\ DOMAIN w.pending = 1..(Len(v.pending) - 1)
      /\ \A k \in DOMAIN w.pending : w.pending[k] = IF k < l THEN v.pending[k] ELSE v.pending[k + 1]
  BY MoveEffect
<1>2. Len(v.pending) \in Nat /\ DOMAIN v.pending = 1..Len(v.pending)
  BY QueueFields
<1>3. \A k \in DOMAIN w.pending : was(k) \in DOMAIN v.pending /\ w.pending[k] = v.pending[was(k)]
  BY <1>1, <1>2
<1>4. was(m) < was(n) /\ was(m) >= 1
  BY <1>1, <1>2
<1> HIDE DEF was
<1>5. was(n) = i
  BY <1>3, Apart
<1>6. was(m) \in 1..(i - 1)
  BY <1>2, <1>3, <1>4, <1>5
<1> QED  BY <1>3, <1>6

(* A line that nobody joins or leaves.                                     *)
LEMMA SameInLine ==
  ASSUME NEW v \in QueueValue, NoDuplicate(v), NEW w, w.pending = v.pending
  PROVE  InLine(v, w)
BY QueueFields, JoinInLine

(* A line that one job joins.                                              *)
LEMMA AppendInLine ==
  ASSUME NEW v \in QueueValue, NoDuplicate(v), NEW e \in Entry,
         \A i \in DOMAIN v.pending : v.pending[i].id # e.id,
         NEW w, w.pending = Append(v.pending, e)
  PROVE  InLine(v, w)
<1>0. Len(v.pending) \in Nat /\ DOMAIN v.pending = 1..Len(v.pending)
  BY QueueFields
<1>1. /\ DOMAIN w.pending = 1..(Len(v.pending) + 1)
      /\ \A k \in DOMAIN w.pending :
           \/ k \in DOMAIN v.pending /\ w.pending[k] = v.pending[k]
           \/ k = Len(v.pending) + 1 /\ w.pending[k] = e
  BY JoinedLine
<1>2. \A k \in DOMAIN w.pending :
         \/ k \in DOMAIN v.pending /\ w.pending[k] = v.pending[k]
         \/ /\ k > Len(v.pending)
            /\ \A i \in DOMAIN v.pending : w.pending[k].id # v.pending[i].id
  BY <1>0, <1>1
<1>3. DOMAIN w.pending \subseteq Nat \ {0}
  BY <1>0, <1>1
<1> QED  BY <1>2, <1>3, JoinInLine

(* An enqueue of a job not known overtakes nobody.                         *)
LEMMA EnqueueInLine ==
  ASSUME NEW v \in QueueValue, NoDuplicate(v), NEW j \in Job, j \notin Known(v), NEW t \in Nat,
         NEW w, w = Enqueue(v, j, t)
  PROVE  InLine(v, w)
<1> DEFINE e == [id |-> j, attempts |-> 0]
<1>1. w.pending = v.pending \/ w.pending = Append(v.pending, e)
  BY EnqueueEffect
<1>2. e \in Entry /\ e.id = j
  BY DEF Entry
<1>3. \A i \in DOMAIN v.pending : v.pending[i].id # j
  BY DEF Known, PendingIds
<1> HIDE DEF e
<1> QED  BY <1>1, <1>2, <1>3, SameInLine, AppendInLine

(* Nor does an ack.                                                        *)
LEMMA AckInLine ==
  ASSUME NEW v \in QueueValue, NoDuplicate(v), NEW j \in Job, IsProcessing(v, j),
         NEW w, w = Ack(v, j)
  PROVE  InLine(v, w)
<1>1. w.pending = v.pending
  BY AckFields
<1> QED  BY <1>1, SameInLine

(* A failed job joins the line at its back.                                *)
LEMMA NackInLine ==
  ASSUME NEW v \in QueueValue, NoDuplicate(v), NEW j \in Job, IsProcessing(v, j),
         NEW w, w = Nack(v, j)
  PROVE  InLine(v, w)
<1> DEFINE e == Requeued(v, j)
<1>1. /\ w.pending = v.pending \/ w.pending = Append(v.pending, e)
      /\ e \in Entry
  BY NackLine
<1>2. e.id = j /\ \A i \in DOMAIN v.pending : v.pending[i].id # j
  BY Apart DEF Requeued, IsProcessing
<1> HIDE DEF e
<1> QED  BY <1>1, <1>2, SameInLine, AppendInLine

(* So do the promoted ones.                                                *)
LEMMA PromoteInLine ==
  ASSUME NEW v \in QueueValue, NoDuplicate(v), NEW t, NEW s \in HeapOrders(Ready(v, t)),
         NEW w, w = Promote(v, s)
  PROVE  InLine(v, w)
<1>1. DOMAIN w.pending \subseteq Nat \ {0}
  <2>1. /\ Len(v.pending) \in Nat
        /\ DOMAIN w.pending = 1..(Len(v.pending) + Cardinality(Ready(v, t)))
    BY QueueFields, PromoteEffect
  <2> QED  BY <2>1, PromoteEffect
<1>2. \A j \in Ready(v, t) : \A i \in DOMAIN v.pending : v.pending[i].id # j
  BY Apart DEF Ready
<1>3. ASSUME NEW k \in DOMAIN w.pending
      PROVE  \/ k \in DOMAIN v.pending /\ w.pending[k] = v.pending[k]
             \/ /\ k > Len(v.pending)
                /\ \A i \in DOMAIN v.pending : w.pending[k].id # v.pending[i].id
  <2>1. \A i \in DOMAIN w.pending :
          \/ i \in DOMAIN v.pending /\ w.pending[i] = v.pending[i]
          \/ /\ i > Len(v.pending)
             /\ w.pending[i].id \in Ready(v, t) /\ w.pending[i].attempts = 0
    BY PromotedLine
  <2> QED  BY <1>2, <2>1
<1> QED  BY <1>1, <1>3, JoinInLine

(* No step lets a job overtake another.                                    *)
LEMMA QueueStepInLine ==
  QueueTypeOK /\ OnePlace /\ [QueueNext]_queueVars => InLine(q, q')
<1> SUFFICES ASSUME QueueTypeOK, OnePlace, [QueueNext]_queueVars
             PROVE  InLine(q, q')
  OBVIOUS
<1> USE DEF QueueTypeOK, OnePlace
<1>1. CASE \E j \in Job : EnqueueJob(j)
  BY <1>1, EnqueueInLine DEF EnqueueJob
<1>2. CASE DequeueAny
  BY <1>2, FrontIsPosition, LeaveInLine DEF DequeueAny
<1>3. CASE \E n \in QueueName : DequeueFrom(n)
  BY <1>3, LeaveInLine DEF DequeueFrom
<1>4. CASE \E j \in Job : AckJob(j)
  BY <1>4, AckInLine DEF AckJob
<1>5. CASE \E j \in Job : NackJob(j)
  BY <1>5, NackInLine DEF NackJob
<1>6. CASE PromoteReady
  BY <1>6, PromoteInLine DEF PromoteReady
<1>7. CASE Tick \/ UNCHANGED queueVars
  BY <1>7, SameInLine DEF Tick, queueVars
<1> QED  BY <1>1, <1>2, <1>3, <1>4, <1>5, <1>6, <1>7 DEF QueueNext

(* First in, first out: retried and promoted jobs join at the back like    *)
(* new ones, and no step lets a job overtake another.                      *)
THEOREM QueueFifo == QueueSpec => Fifo
<1>1. QueueTypeOK /\ OnePlace /\ [QueueNext]_queueVars => [NoOvertaking]_queueVars
  BY QueueStepInLine DEF InLine, NoOvertaking
<1> QED  BY <1>1, QueueTyped, QueueUnique, PTL DEF QueueSpec, Fifo

-----------------------------------------------------------------------------
(* What holds of a queue value at any time, live or in recovery.           *)

Good(v, t) == Sound(v) /\ Accounts(v) /\ DueBy(v, t)

(* The empty queue is good.                                                *)
LEMMA EmptyQueueGood ==
  ASSUME NEW t
  PROVE  Good(EmptyQueue, t)
<1> DEFINE v == EmptyQueue
<1>1. Sound(v)
  BY EmptyQueueType, EmptyQueueUnique DEF Sound
<1>2. /\ v.pending = << >> /\ v.processing = {} /\ v.scheduled = {} /\ v.reasons = {}
      /\ \A j \in Job : v.completed[j] = 0 /\ v.dead_letter[j] = 0
  BY DEF EmptyQueue
<1> HIDE DEF v
<1>3. DOMAIN v.pending = {}
  BY <1>2
<1>4. Accounts(v) /\ DueBy(v, t)
  BY <1>2, <1>3 DEF Accounts, DueBy, PendingIds, ProcessingIds
<1> QED  BY <1>1, <1>4 DEF Good, v

(* An event makes a good queue of a good one, and lets no job overtake     *)
(* another, if the job it enqueues is a new one.                           *)
LEMMA ApplyGood ==
  ASSUME NEW t \in Nat, NEW v, Good(v, t), NEW e \in Event, NewJob(e) \cap Known(v) = {},
         NEW w, w = Apply(v, e, t)
  PROVE  Good(w, t) /\ InLine(v, w)
<1>0. v \in QueueValue /\ NoDuplicate(v) /\ Accounts(v) /\ DueBy(v, t) /\ e.id \in Job
  BY DEF Good, Sound, Event
<1>s. Sound(w)
  BY ApplyOnward DEF Good, Onward
<1>1. CASE w = v
  BY <1>0, <1>1, SameInLine DEF Good
<1>2. CASE e.op = "Enqueue"
  <2>1. w = Enqueue(v, e.id, t) /\ e.id \notin Known(v)
    BY <1>2 DEF Apply, NewJob
  <2> QED  BY <1>0, <1>s, <2>1, EnqueueAccounts, EnqueueDue, EnqueueInLine DEF Good
<1>3. CASE e.op = "Dequeue" /\ w # v
  <2>1. PICK i \in DOMAIN v.pending : w = MoveToProcessing(v, i)
    BY <1>0, <1>3, DequeueByIdIsMove DEF Apply
  <2> QED  BY <1>0, <1>s, <2>1, MoveAccounts, MoveDue, LeaveInLine DEF Good
<1>4. CASE e.op = "Ack" /\ w # v
  <2>1. w = Ack(v, e.id) /\ IsProcessing(v, e.id)
    BY <1>4 DEF Apply, Ack
  <2> QED  BY <1>0, <1>s, <2>1, AckAccounts, AckDue, AckInLine DEF Good
<1>5. CASE e.op = "Nack" /\ w # v
  <2>1. w = Nack(v, e.id) /\ IsProcessing(v, e.id)
    BY <1>5 DEF Apply, Nack
  <2> QED  BY <1>0, <1>s, <2>1, NackAccounts, NackDue, NackInLine DEF Good
<1> QED  BY <1>1, <1>2, <1>3, <1>4, <1>5 DEF Event

(* So does promotion.                                                      *)
LEMMA PromoteGood ==
  ASSUME NEW v, NEW t, Good(v, t), NEW s \in HeapOrders(Ready(v, t)), NEW w, w = Promote(v, s)
  PROVE  Good(w, t) /\ InLine(v, w) /\ Known(w) \subseteq Known(v)
<1>0. v \in QueueValue /\ NoDuplicate(v) /\ Accounts(v) /\ DueBy(v, t)
  BY DEF Good, Sound
<1>1. Sound(w) /\ Known(w) \subseteq Known(v)
  BY PromoteOnward DEF Good
<1> QED  BY <1>0, <1>1, PromoteAccounts, PromoteDue, PromoteInLine DEF Good
=============================================================================
