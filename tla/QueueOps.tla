------------------------------ MODULE QueueOps ------------------------------
(***************************************************************************)
(* The in-memory job queue of crates/engine/queue (struct Queue): its      *)
(* value and the operations that transform it.  The same operations run    *)
(* live under the server's mutex and again, one WAL record at a time,      *)
(* during recovery, so they are functions from queue values to queue       *)
(* values rather than actions.                                             *)
(*                                                                         *)
(* A job's id, queue name, max_attempts and scheduled_at never change      *)
(* after Job::new, so they are constant functions of the job; only its     *)
(* place and its attempts vary.  JobStatus is the place the job is in.     *)
(*                                                                         *)
(* The scheduled heap always holds an entry for every row of the           *)
(* `scheduled` map (apply_enqueue and from_snapshot push both, and         *)
(* promote_ready_jobs pops both), and an entry without a row is skipped:   *)
(* the map alone decides what is promoted, so the heap is left out.        *)
(***************************************************************************)
EXTENDS Integers, Sequences, FiniteSets, SequencesExt

CONSTANTS
  Job,          (* the ids (uuid) that Job::new hands out                  *)
  QueueName,    (* the named queues                                        *)
  QueueOf,      (* Job.queue                                               *)
  MaxAttempts,  (* Job.max_attempts                                        *)
  ScheduledAt   (* Job.scheduled_at; 0 stands for None                     *)

ASSUME QueueAssumption ==
  /\ IsFiniteSet(Job)
  /\ QueueOf \in [Job -> QueueName]
  /\ MaxAttempts \in [Job -> Nat]
  /\ ScheduledAt \in [Job -> Nat]

(* A job as it sits in a container: its id and its attempts so far.        *)
Entry == [id : Job, attempts : Nat]

(* A queue value.  `processing` and `scheduled` are maps keyed by id.      *)
(* `completed` and `dead_letter` are append-only vectors that nothing but  *)
(* their lengths and members is read from: a count per job.                *)
QueueValue ==
  [pending     : Seq(Entry),
   processing  : SUBSET Entry,
   scheduled   : SUBSET Job,
   completed   : [Job -> Nat],
   dead_letter : [Job -> Nat],
   reasons     : SUBSET Job]      (* the keys of failure_reasons *)

EmptyQueue ==
  [pending     |-> << >>,
   processing  |-> {},
   scheduled   |-> {},
   completed   |-> [j \in Job |-> 0],
   dead_letter |-> [j \in Job |-> 0],
   reasons     |-> {}]

-----------------------------------------------------------------------------
(* Where a job is.                                                         *)

PendingIds(q)    == {q.pending[i].id : i \in DOMAIN q.pending}
ProcessingIds(q) == {e.id : e \in q.processing}

IsProcessing(q, j) == \E e \in q.processing : e.id = j
IsCompleted(q, j)  == q.completed[j] > 0
IsDead(q, j)       == q.dead_letter[j] > 0

(* The jobs a queue value knows of, wherever they are.                     *)
Known(q) ==
  {j \in Job : \/ j \in PendingIds(q)
               \/ j \in ProcessingIds(q)
               \/ j \in q.scheduled
               \/ IsCompleted(q, j)
               \/ IsDead(q, j)}

(* The jobs that may still be handed to a worker, or are with one.         *)
Outstanding(q) == PendingIds(q) \cup ProcessingIds(q) \cup q.scheduled

-----------------------------------------------------------------------------
(* The operations.                                                         *)

(* enqueue / apply_enqueue: a job whose time has not come is scheduled,    *)
(* any other goes to the back of pending.  A new job has no attempts.      *)
Enqueue(q, j, now) ==
  IF ScheduledAt[j] > now
  THEN [q EXCEPT !.scheduled = @ \cup {j}]
  ELSE [q EXCEPT !.pending = Append(@, [id |-> j, attempts |-> 0])]

(* Mutant: the job is copied, not moved.                                   *)
CopyToProcessing(q, i) ==
  [q EXCEPT !.processing = @ \cup {q.pending[i]}]

(* The pending job at position i moves to processing, where inserting      *)
(* into the map replaces an entry with the same id.                        *)
MoveToProcessing(q, i) ==
  LET e == q.pending[i] IN
  [q EXCEPT !.pending    = RemoveAt(@, i),
            !.processing = {p \in @ : p.id # e.id} \cup {e}]

(* Position i holds the first pending job of queue n.                      *)
IsFirstOf(q, i, n) ==
  /\ i \in DOMAIN q.pending
  /\ QueueOf[q.pending[i].id] = n
  /\ \A k \in 1..(i - 1) : QueueOf[q.pending[k].id] # n

(* Position i holds the first pending copy of job j.                       *)
IsFirstCopy(q, i, j) ==
  /\ i \in DOMAIN q.pending
  /\ q.pending[i].id = j
  /\ \A k \in 1..(i - 1) : q.pending[k].id # j

(* apply_dequeue: the job is looked for in pending only, and nothing       *)
(* happens when it is not there.                                           *)
DequeueById(q, j) ==
  IF j \in PendingIds(q)
  THEN MoveToProcessing(q, CHOOSE i \in DOMAIN q.pending : IsFirstCopy(q, i, j))
  ELSE q

(* apply_ack: JobNotProcessing (the queue unchanged) unless processing.    *)
Ack(q, j) ==
  IF IsProcessing(q, j)
  THEN [q EXCEPT !.processing = {p \in @ : p.id # j},
                 !.reasons    = @ \ {j},
                 !.completed[j] = @ + 1]
  ELSE q

(* Mutants: one attempt too many is allowed; a failed job goes to the      *)
(* front of the line.                                                      *)
NackOnceMore(q, j) ==
  IF IsProcessing(q, j)
  THEN LET e    == CHOOSE e \in q.processing : e.id = j
           rest == q.processing \ {e}
       IN IF e.attempts >= MaxAttempts[j]
          THEN [q EXCEPT !.processing  = rest,
                         !.reasons     = @ \cup {j},
                         !.dead_letter[j] = @ + 1]
          ELSE [q EXCEPT !.processing = rest,
                         !.reasons    = @ \cup {j},
                         !.pending    = Append(@, [e EXCEPT !.attempts = @ + 1])]
  ELSE q

NackToFront(q, j) ==
  IF IsProcessing(q, j)
  THEN LET e == CHOOSE e \in q.processing : e.id = j IN
       [q EXCEPT !.processing = @ \ {e},
                 !.pending    = <<[e EXCEPT !.attempts = @ + 1]>> \o @]
  ELSE q

(* apply_nack: one more attempt is used; with the attempts exhausted the   *)
(* job is dead, otherwise it goes to the back of pending at once.          *)
Nack(q, j) ==
  IF IsProcessing(q, j)
  THEN LET e    == CHOOSE e \in q.processing : e.id = j
           used == e.attempts + 1
           rest == {p \in q.processing : p.id # j}
       IN IF used >= MaxAttempts[j]
          THEN [q EXCEPT !.processing  = rest,
                         !.reasons     = @ \cup {j},
                         !.dead_letter[j] = @ + 1]
          ELSE [q EXCEPT !.processing = rest,
                         !.reasons    = @ \cup {j},
                         !.pending    = Append(@, [id |-> j, attempts |-> used])]
  ELSE q

(* What the WAL records: an operation and the id of its job.               *)
Event == [op : {"Enqueue", "Dequeue", "Ack", "Nack"}, id : Job]

(* apply_event; during replay its JobNotProcessing errors are swallowed.   *)
Apply(v, e, t) ==
  CASE e.op = "Enqueue" -> Enqueue(v, e.id, t)
    [] e.op = "Dequeue" -> DequeueById(v, e.id)
    [] e.op = "Ack"     -> Ack(v, e.id)
    [] e.op = "Nack"    -> Nack(v, e.id)

(* Mutant: the time is not looked at.                                      *)
ReadyOrNot(q, now) == q.scheduled

(* The scheduled jobs that promote_ready_jobs(now) moves.                  *)
Ready(q, now) == {j \in q.scheduled : ScheduledAt[j] <= now}

(* The orders in which the heap can pop a set of jobs: by scheduled_at,    *)
(* ties by uuid, which is random.                                          *)
HeapOrders(S) ==
  {s \in [1..Cardinality(S) -> S] :
     /\ {s[i] : i \in DOMAIN s} = S
     /\ \A i, k \in DOMAIN s : i < k => /\ s[i] # s[k]
                                        /\ ScheduledAt[s[i]] <= ScheduledAt[s[k]]}

(* promote_ready_jobs, with s the order of its pops.                       *)
Promote(q, s) ==
  [q EXCEPT
     !.scheduled = @ \ {s[i] : i \in DOMAIN s},
     !.pending   = @ \o [i \in DOMAIN s |-> [id |-> s[i], attempts |-> 0]]]

-----------------------------------------------------------------------------
(* No job is ever in two places, or twice in one: pending, processing,     *)
(* scheduled, completed and dead_letter are disjoint, pending holds no     *)
(* repeated id, and a job completes or dies at most once.                  *)
NoDuplicate(v) ==
  /\ \A i, k \in DOMAIN v.pending : i # k => v.pending[i].id # v.pending[k].id
  /\ \A e, f \in v.processing : e.id = f.id => e = f
  /\ PendingIds(v) \cap ProcessingIds(v) = {}
  /\ v.scheduled \cap (PendingIds(v) \cup ProcessingIds(v)) = {}
  /\ \A j \in Job : v.completed[j] + v.dead_letter[j] <= 1
  /\ \A j \in Outstanding(v) : v.completed[j] + v.dead_letter[j] = 0
=============================================================================
