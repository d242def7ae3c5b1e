---------------------------- MODULE QueueRuntime ----------------------------
(***************************************************************************)
(* The queue server of crates/engine/queue: QueueRuntime (per-queue        *)
(* semaphores, the table of active jobs), the request handlers that        *)
(* workers reach over WebSocket, and the heartbeat monitor, around the     *)
(* shared queue.                                                           *)
(*                                                                         *)
(* A handler holds the queue's mutex for its queue operation and releases  *)
(* it before it calls finish_job, so an ack or a nack is two steps, and    *)
(* other requests run in between.  A dequeue takes its permit, moves the   *)
(* job and registers it without releasing the mutex: one step.             *)
(*                                                                         *)
(* The queue behind the mutex is the persistent one: a call logs its event *)
(* and applies it, may compact the log into the snapshot, and may fail     *)
(* before or after the event has reached the queue.  Promotion is not      *)
(* logged, so a restart comes back on the queue that the snapshot and the  *)
(* log make, which need not be the one it lost.  What a crash or an error  *)
(* inside a file operation leaves on disk (torn records, half a            *)
(* compaction) is the subject of PersistentQueue and left out here.        *)
(***************************************************************************)
EXTENDS Queue

CONSTANTS
  Worker,      (* connections                                              *)
  Roaming,     (* the workers that dequeue without naming a queue          *)
  Limit,       (* permits per queue: set_concurrency, default_concurrency  *)
  NoJob,
  MaxRecords,  (* bound on the log, for model checking                     *)
  MaxErrors,   (* bound on I/O errors, for model checking                  *)
  MaxRestarts  (* bound on server restarts, for model checking             *)

ASSUME RuntimeAssumption ==
  /\ Roaming \subseteq Worker
  /\ Limit \in [QueueName -> Nat]
  /\ NoJob \notin Job
  /\ MaxRecords \in Nat
  /\ MaxErrors \in Nat
  /\ MaxRestarts \in Nat

VARIABLES
  permits,     (* available permits of each queue's semaphore              *)
  active,      (* the keys of active_jobs; each entry owns a permit        *)
  stale,       (* the active jobs whose last heartbeat is too old          *)
  finishing,   (* per connection: the job whose finish_job is still to run *)
  succeeded,   (* per connection: whether that finish records a completion *)
  suspects,    (* the monitor's stale_job_ids                              *)
  nacked,      (* the job whose finish_job the monitor still has to run    *)
  completions, (* the completions recorded for each queue                  *)
  held,        (* the jobs each worker has been handed and not answered    *)
  saved,       (* the queue in snapshot.bin                                *)
  records,     (* the events logged since                                  *)
  unread,      (* during open: the events still to be replayed             *)
  orphaned,    (* history: the active jobs whose ack or nack took effect   *)
               (* but returned an error, so that no finish_job follows     *)
  errors,
  restarts

runtime == <<permits, active, stale, completions>>
monitor == <<suspects, nacked>>
clients == <<finishing, succeeded, held>>
disk    == <<saved, records, unread>>
bounds  == <<errors, restarts>>
vars    == <<queueVars, disk, runtime, orphaned, monitor, clients, bounds>>

-----------------------------------------------------------------------------
Init ==
  /\ QueueInit
  /\ permits = Limit
  /\ active = {}
  /\ stale = {}
  /\ finishing = [w \in Worker |-> NoJob]
  /\ succeeded = [w \in Worker |-> FALSE]
  /\ suspects = {}
  /\ nacked = NoJob
  /\ completions = [n \in QueueName |-> 0]
  /\ held = [w \in Worker |-> {}]
  /\ saved = EmptyQueue
  /\ records = << >>
  /\ unread = << >>
  /\ orphaned = {}
  /\ errors = 0
  /\ restarts = 0

-----------------------------------------------------------------------------
(* The calls of PersistentQueue.                                           *)

(* open has returned: the server listens.                                  *)
IsServing == unread = << >>

(* Wal::append.                                                            *)
Keeps(e) == records' = Append(records, e) /\ UNCHANGED saved

(* Mutant: wal.log is left as it is.                                       *)
CompactsAboveLog == saved' = q' /\ UNCHANGED records

(* rotate_and_compact with a log that is long enough, in bytes.            *)
Compacts == saved' = q' /\ records' = << >>

(* The event is logged and reaches the queue.  The call returns Ok, or the *)
(* error of a rotation that failed before the snapshot or after it.        *)
Applies(e) ==
  /\ IsServing
  /\ q' = Apply(q, e, now)
  /\ \/ Len(records) < MaxRecords /\ Keeps(e)
     \/ Compacts
  /\ UNCHANGED <<now, unread>>

(* The event is logged and the queue unchanged: sync_all has failed, or    *)
(* the queue rejects the event.                                            *)
Ignores(e) ==
  /\ IsServing
  /\ Keeps(e)
  /\ UNCHANGED <<queueVars, unread>>

Succeeds == UNCHANGED errors

Fails ==
  /\ errors < MaxErrors
  /\ errors' = errors + 1

(* An id that Job::new has not handed out before.                          *)
IsNew(j) ==
  /\ j \notin Known(q) \cup Known(saved)
  /\ \A i \in DOMAIN records : records[i].id # j

-----------------------------------------------------------------------------
(* The request handlers.                                                   *)

(* A connection serves one request at a time.                              *)
IsFree(w) == IsServing /\ finishing[w] = NoJob

(* Requests Enqueue and Schedule, and the cron task's enqueue.  Once the   *)
(* event is applied an error changes the answer only.                      *)
SubmitJob(j) ==
  LET e == [op |-> "Enqueue", id |-> j] IN
  /\ IsNew(j)
  /\ \/ Applies(e) /\ Succeeds
     \/ Ignores(e) /\ Fails
  /\ UNCHANGED <<runtime, orphaned, monitor, clients, restarts>>

(* Mutants: no permit is needed; an overwritten entry keeps its permit.    *)
RegisterAnyway(j) ==
  /\ active' = active \cup {j}
  /\ stale' = stale \ {j}
  /\ orphaned' = orphaned \ {j}
  /\ permits' = [permits EXCEPT ![QueueOf[j]] = @ - 1]

RegisterAgain(j) ==
  /\ permits[QueueOf[j]] > 0
  /\ RegisterAnyway(j)

(* acquire_permit, then register_processing: inserting over an entry that  *)
(* is still there drops the permit the old entry owned.                    *)
Register(j) ==
  /\ permits[QueueOf[j]] > 0
  /\ active' = active \cup {j}
  /\ stale' = stale \ {j}
  /\ orphaned' = orphaned \ {j}
  /\ permits' = IF j \in active
                THEN permits
                ELSE [permits EXCEPT ![QueueOf[j]] = @ - 1]

(* Request Dequeue { queue: Some(n) }.  Without a permit, or a job, the    *)
(* answer is None and the permit is dropped: nothing changes.  An error    *)
(* drops the permit too, wherever it leaves the job.                       *)
DequeueNamed(w, n) ==
  /\ IsFree(w)
  /\ \E i \in DOMAIN q.pending :
       LET j == q.pending[i].id
           e == [op |-> "Dequeue", id |-> j] IN
       /\ IsFirstOf(q, i, n)
       /\ \/ /\ Applies(e) /\ Succeeds
             /\ Register(j)
             /\ held' = [held EXCEPT ![w] = @ \cup {j}]
          \/ /\ permits[n] > 0
             /\ Applies(e) \/ Ignores(e)
             /\ Fails
             /\ UNCHANGED <<permits, active, stale, orphaned, held>>
  /\ UNCHANGED <<completions, monitor, finishing, succeeded, restarts>>

(* Request Dequeue { queue: None }: neither a permit nor an entry.         *)
DequeueUnnamed(w) ==
  LET j == Head(q.pending).id
      e == [op |-> "Dequeue", id |-> j] IN
  /\ w \in Roaming
  /\ IsFree(w)
  /\ q.pending # << >>
  /\ \/ /\ Applies(e) /\ Succeeds
        /\ held' = [held EXCEPT ![w] = @ \cup {j}]
     \/ /\ Applies(e) \/ Ignores(e)
        /\ Fails
        /\ UNCHANGED held
  /\ UNCHANGED <<runtime, orphaned, monitor, finishing, succeeded, restarts>>

(* The tail of a handler: finish_job has yet to run.                       *)
Answer(w, j, success) ==
  /\ finishing' = [finishing EXCEPT ![w] = j]
  /\ succeeded' = [succeeded EXCEPT ![w] = success]
  /\ held' = [held EXCEPT ![w] = @ \ {j}]
  /\ UNCHANGED orphaned

(* Mutant: the handler does not finish the job.                            *)
SettleOnly(w, e, success) ==
  /\ IsFree(w)
  /\ e.id \in held[w]
  /\ IsProcessing(q, e.id) /\ Applies(e) /\ Succeeds
  /\ held' = [held EXCEPT ![w] = @ \ {e.id}]
  /\ UNCHANGED <<finishing, succeeded, orphaned>>
  /\ UNCHANGED <<runtime, monitor, restarts>>

(* Requests Ack and Nack, from any worker that was ever handed the job.    *)
(* Only Ok is followed by finish_job: after an error of the rotation the   *)
(* job is settled and its entry stays; a call that is rejected, or fails   *)
(* before it reaches the queue, leaves everything but the log as it is.    *)
Settle(w, e, success) ==
  /\ IsFree(w)
  /\ e.id \in held[w]
  /\ \/ /\ IsProcessing(q, e.id) /\ Applies(e) /\ Succeeds
        /\ Answer(w, e.id, success)
     \/ /\ IsProcessing(q, e.id) /\ Applies(e) /\ Fails
        /\ orphaned' = orphaned \cup ({e.id} \cap active)
        /\ UNCHANGED clients
     \/ /\ Ignores(e)
        /\ \/ IsProcessing(q, e.id) /\ Fails
           \/ ~IsProcessing(q, e.id) /\ Len(records) < MaxRecords /\ Succeeds
        /\ UNCHANGED <<clients, orphaned>>
  /\ UNCHANGED <<runtime, monitor, restarts>>

AckRequest(w, j)  == Settle(w, [op |-> "Ack", id |-> j], TRUE)
NackRequest(w, j) == Settle(w, [op |-> "Nack", id |-> j], FALSE)

(* Mutant: every finished job counts as completed.                         *)
FinishAsCompleted(j, success) ==
  /\ active' = active \ {j}
  /\ stale' = stale \ {j}
  /\ orphaned' = orphaned \ {j}
  /\ IF j \in active
     THEN /\ permits' = [permits EXCEPT ![QueueOf[j]] = @ + 1]
          /\ completions' = [completions EXCEPT ![QueueOf[j]] = @ + 1]
     ELSE UNCHANGED <<permits, completions>>

(* finish_job: whoever registered it, the entry of that id goes, its       *)
(* permit returns, and a success is recorded if there was an entry.        *)
FinishJob(j, success) ==
  /\ active' = active \ {j}
  /\ stale' = stale \ {j}
  /\ orphaned' = orphaned \ {j}
  /\ IF j \in active
     THEN /\ permits' = [permits EXCEPT ![QueueOf[j]] = @ + 1]
          /\ completions' = IF success
                            THEN [completions EXCEPT ![QueueOf[j]] = @ + 1]
                            ELSE completions
     ELSE UNCHANGED <<permits, completions>>

Finish(w) ==
  /\ finishing[w] # NoJob
  /\ FinishJob(finishing[w], succeeded[w])
  /\ finishing' = [finishing EXCEPT ![w] = NoJob]
  /\ succeeded' = [succeeded EXCEPT ![w] = FALSE]
  /\ UNCHANGED <<queueVars, disk, monitor, held, bounds>>

(* Request Heartbeat.                                                      *)
Heartbeat(w, j) ==
  /\ IsFree(w)
  /\ j \in held[w]
  /\ j \in stale
  /\ stale' = stale \ {j}
  /\ UNCHANGED <<queueVars, disk, permits, active, completions, orphaned, monitor>>
  /\ UNCHANGED <<clients, bounds>>

(* heartbeat_timeout passes without a heartbeat.                           *)
GoStale(j) ==
  /\ j \in active \ stale
  /\ stale' = stale \cup {j}
  /\ UNCHANGED <<queueVars, disk, permits, active, completions, orphaned, monitor>>
  /\ UNCHANGED <<clients, bounds>>

-----------------------------------------------------------------------------
(* Mutant: the monitor leaves out the jobs that are not processing.        *)
ScanProcessing ==
  /\ suspects = {}
  /\ nacked = NoJob
  /\ stale \cap ProcessingIds(q) # {}
  /\ suspects' = stale \cap ProcessingIds(q)
  /\ UNCHANGED <<queueVars, disk, runtime, orphaned, nacked, clients, bounds>>

(* run_heartbeat_monitor: the ids are collected under the lock of          *)
(* active_jobs, which is released before they are nacked one by one.       *)
MonitorScan ==
  /\ suspects = {}
  /\ nacked = NoJob
  /\ stale # {}
  /\ suspects' = stale
  /\ UNCHANGED <<queueVars, disk, runtime, orphaned, nacked, clients, bounds>>

(* nack(job_id, "heartbeat timeout"), its error ignored.                   *)
MonitorNack(j) ==
  LET e == [op |-> "Nack", id |-> j] IN
  /\ nacked = NoJob
  /\ j \in suspects
  /\ suspects' = suspects \ {j}
  /\ nacked' = j
  /\ \/ IsProcessing(q, j) /\ Applies(e) /\ Succeeds
     \/ IsProcessing(q, j) /\ Ignores(e) /\ Fails
     \/ ~IsProcessing(q, j) /\ Ignores(e) /\ Succeeds
  /\ UNCHANGED <<runtime, orphaned, clients, restarts>>

MonitorFinish ==
  /\ nacked # NoJob
  /\ FinishJob(nacked, FALSE)
  /\ nacked' = NoJob
  /\ UNCHANGED <<queueVars, disk, suspects, clients, bounds>>

-----------------------------------------------------------------------------
(* run_scheduled_job_promoter, which goes past the log, and time.          *)
Background ==
  /\ \/ IsServing /\ PromoteReady
     \/ Tick
  /\ UNCHANGED <<disk, runtime, orphaned, monitor, clients, bounds>>

(* The server dies and opens its queue again.  Everything that             *)
(* QueueRuntimeState keeps is in memory only; workers keep what they hold. *)
Restart ==
  /\ restarts < MaxRestarts
  /\ restarts' = restarts + 1
  /\ q' = saved
  /\ unread' = records
  /\ permits' = Limit
  /\ active' = {}
  /\ stale' = {}
  /\ orphaned' = {}
  /\ completions' = [n \in QueueName |-> 0]
  /\ suspects' = {}
  /\ nacked' = NoJob
  /\ finishing' = [w \in Worker |-> NoJob]
  /\ succeeded' = [w \in Worker |-> FALSE]
  /\ UNCHANGED <<now, saved, records, held, errors>>

(* open: the log is replayed over the snapshot.                            *)
ReplayRecord ==
  /\ unread # << >>
  /\ q' = Apply(q, Head(unread), now)
  /\ unread' = Tail(unread)
  /\ UNCHANGED <<now, saved, records, runtime, orphaned, monitor, clients, bounds>>

Next ==
  \/ \E j \in Job : SubmitJob(j)
  \/ \E w \in Worker, n \in QueueName : DequeueNamed(w, n)
  \/ \E w \in Worker : DequeueUnnamed(w)
  \/ \E w \in Worker, j \in Job : AckRequest(w, j)
  \/ \E w \in Worker, j \in Job : NackRequest(w, j)
  \/ \E w \in Worker : Finish(w)
  \/ \E w \in Worker, j \in Job : Heartbeat(w, j)
  \/ \E j \in Job : GoStale(j)
  \/ MonitorScan
  \/ \E j \in Job : MonitorNack(j)
  \/ MonitorFinish
  \/ Background
  \/ Restart
  \/ ReplayRecord

Spec == Init /\ [][Next]_vars

(* Tasks that can run are polled, open runs on, and time passes.  Workers  *)
(* owe nothing: they may go silent for ever.                               *)
Fairness ==
  /\ WF_vars(ReplayRecord)
  /\ \A w \in Worker : WF_vars(Finish(w))
  /\ \A j \in Job : WF_vars(GoStale(j))
  /\ WF_vars(MonitorScan)
  /\ WF_vars(\E j \in Job : MonitorNack(j))
  /\ WF_vars(MonitorFinish)

FairSpec == Spec /\ Fairness

-----------------------------------------------------------------------------
(* What each variable may hold.  Permits are never overdrawn, and only an  *)
(* active job can be stale.                                                *)
TypeOK ==
  /\ QueueTypeOK
  /\ permits \in [QueueName -> Nat]
  /\ active \subseteq Job
  /\ stale \subseteq active
  /\ finishing \in [Worker -> Job \cup {NoJob}]
  /\ succeeded \in [Worker -> BOOLEAN]
  /\ suspects \subseteq Job
  /\ nacked \in Job \cup {NoJob}
  /\ completions \in [QueueName -> Nat]
  /\ held \in [Worker -> SUBSET Job]
  /\ saved \in QueueValue
  /\ records \in Seq(Event)
  /\ unread \in Seq(Event)
  /\ orphaned \subseteq active
  /\ errors \in Nat
  /\ restarts \in Nat

(* First in, first out, in the server and in its recovery: handlers, the   *)
(* monitor, the promoter and the replay of the log let no job overtake     *)
(* another.  The restart itself may change the order: a promoted job is    *)
(* back where its Enqueue record puts it.                                  *)
FifoServed == [][restarts' = restarts => NoOvertaking]_vars

ActiveIn(n) == {j \in active : QueueOf[j] = n}

(* No permit is lost or invented: whatever overwrites, late finishes and   *)
(* timeouts do, every permit is free or owned by one active entry.         *)
PermitsConserved ==
  \A n \in QueueName : permits[n] + Cardinality(ActiveIn(n)) = Limit[n]

(* An entry, and so its permit, outlives its job's processing only while a *)
(* handler or the monitor is on its way to remove it, or when the ack or   *)
(* nack that ended the processing has returned an I/O error: then the      *)
(* heartbeat timeout removes it.                                           *)
BeingFinished(j) == nacked = j \/ \E w \in Worker : finishing[w] = j

NoPermitLeak ==
  \A j \in active : IsProcessing(q, j) \/ BeingFinished(j) \/ j \in orphaned

(* finish_job counts no completion that the queue did not make: the        *)
(* throughput of stats_for_queue is never more than the jobs completed.    *)
CompletedIn(n) == {j \in Job : QueueOf[j] = n /\ IsCompleted(q, j)}

CompletionsReal ==
  \A n \in QueueName : completions[n] <= Cardinality(CompletedIn(n))

(* The job's worker sends no more heartbeats from some time on.            *)
GoesSilent(j) == <>[][\A w \in Worker : ~Heartbeat(w, j)]_vars

(* A tracked job whose worker goes silent does not keep its permit for     *)
(* ever: run_heartbeat_monitor removes its entry, I/O errors or not.       *)
TrackedIsReleased ==
  \A j \in Job : GoesSilent(j) => ((j \in active) ~> (j \notin active))

(* phase.txt:754: "processing job must send heartbeat every 30s or job     *)
(* returns to pending".  A job whose worker goes silent does not stay in   *)
(* processing for ever, even if the server restarts.                       *)
SilentJobReturns ==
  \A j \in Job : GoesSilent(j) => (IsProcessing(q, j) ~> ~IsProcessing(q, j))

(* phase.txt:752: "only N jobs processing simultaneously per queue".       *)
ProcessingIn(n) == {e \in q.processing : QueueOf[e.id] = n}

ConcurrencyLimit ==
  \A n \in QueueName : Cardinality(ProcessingIn(n)) <= Limit[n]
=============================================================================
