-------------------------------- MODULE Queue -------------------------------
(***************************************************************************)
(* The in-memory queue as a shared object: every operation takes the mutex *)
(* (JsQueue, JsWorker: tokio::sync::Mutex<Queue>) and runs to its end      *)
(* under it, so each is one atomic step.  This is at once the model of the *)
(* Node binding's queue and the abstract specification that the persistent *)
(* queue and the queue server implement.                                   *)
(*                                                                         *)
(* An ack or nack of a job that is not processing returns                  *)
(* JobNotProcessing and changes nothing: it is a stuttering step.          *)
(***************************************************************************)
EXTENDS QueueOps

CONSTANT MaxTime       (* bound on the clock, for model checking           *)

VARIABLES q,           (* the queue value                                  *)
          now          (* Utc::now()                                       *)

queueVars == <<q, now>>

QueueInit ==
  /\ q = EmptyQueue
  /\ now = 0

(* JsQueue::enqueue and JsQueue::schedule.  Job::new draws a fresh uuid.   *)
EnqueueJob(j) ==
  /\ j \notin Known(q)
  /\ q' = Enqueue(q, j, now)
  /\ UNCHANGED now

(* dequeue(None): pop_front.                                               *)
DequeueAny ==
  /\ q.pending # << >>
  /\ q' = MoveToProcessing(q, 1)
  /\ UNCHANGED now

(* dequeue(Some(n)): the first pending job of queue n.                     *)
DequeueFrom(n) ==
  /\ \E i \in DOMAIN q.pending : IsFirstOf(q, i, n) /\ q' = MoveToProcessing(q, i)
  /\ UNCHANGED now

AckJob(j) ==
  /\ IsProcessing(q, j)
  /\ q' = Ack(q, j)
  /\ UNCHANGED now

NackJob(j) ==
  /\ IsProcessing(q, j)
  /\ q' = Nack(q, j)
  /\ UNCHANGED now

(* stats() of the binding and the server's 100 ms task.                    *)
PromoteReady ==
  /\ Ready(q, now) # {}
  /\ \E s \in HeapOrders(Ready(q, now)) : q' = Promote(q, s)
  /\ UNCHANGED now

Tick ==
  /\ now < MaxTime
  /\ now' = now + 1
  /\ UNCHANGED q

QueueNext ==
  \/ \E j \in Job : EnqueueJob(j)
  \/ DequeueAny
  \/ \E n \in QueueName : DequeueFrom(n)
  \/ \E j \in Job : AckJob(j)
  \/ \E j \in Job : NackJob(j)
  \/ PromoteReady
  \/ Tick

QueueSpec == QueueInit /\ [][QueueNext]_queueVars

-----------------------------------------------------------------------------
(* What the queue and the clock may hold.                                  *)
QueueTypeOK ==
  /\ q \in QueueValue
  /\ now \in Nat

(* No job is ever in two places at once, or twice in one, so that no two   *)
(* workers are handed the same delivery: every operation moves a job, and  *)
(* none copies it.                                                         *)
OnePlace == NoDuplicate(q)

(* The retry budget: a job that can still be handed out has an attempt     *)
(* left (one delivery is always made, even with max_attempts = 0).         *)
HasBudget(e) == e.attempts = 0 \/ e.attempts < MaxAttempts[e.id]

WithinBudget ==
  /\ \A i \in DOMAIN q.pending : HasBudget(q.pending[i])
  /\ \A e \in q.processing : HasBudget(e)

(* A failure reason is on record for exactly the jobs that have failed and *)
(* have not been completed since.                                          *)
ReasonsAgree ==
  /\ \A i \in DOMAIN q.pending :
       q.pending[i].id \in q.reasons <=> q.pending[i].attempts > 0
  /\ \A e \in q.processing : e.id \in q.reasons <=> e.attempts > 0
  /\ \A j \in Job : IsDead(q, j) => j \in q.reasons
  /\ \A j \in Job : IsCompleted(q, j) => j \notin q.reasons

(* apply_nack accounts for retries: no delivery beyond max_attempts, and   *)
(* failure_reasons match the attempts used.                                *)
RetryAccounting == WithinBudget /\ ReasonsAgree

(* No job is handed out, or even made available, before its scheduled_at,  *)
(* by enqueue, nack or promote_ready_jobs.                                 *)
NotEarly ==
  \A j \in PendingIds(q) \cup ProcessingIds(q) : ScheduledAt[j] <= now

(* First in, first out: no step lets a job overtake another.  Whatever is  *)
(* ahead of a waiting job afterwards was ahead of it before; retried and   *)
(* promoted jobs join at the back like new ones.                           *)
NoOvertaking ==
  \A i \in DOMAIN q.pending : \A m, n \in DOMAIN q'.pending :
     m < n /\ q'.pending[n] = q.pending[i]
       => \E k \in 1..(i - 1) : q'.pending[m] = q.pending[k]

Fifo == [][NoOvertaking]_queueVars
=============================================================================
