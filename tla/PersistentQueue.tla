--------------------------- MODULE PersistentQueue --------------------------
(***************************************************************************)
(* PersistentQueue and its write-ahead log (crates/engine/queue): the      *)
(* in-memory queue, the snapshot, the rotated segments and the active      *)
(* segment on disk, and the file operations of each call one by one, so    *)
(* that the process may die, or an I/O call fail, between any two.         *)
(*                                                                         *)
(* The server holds one mutex around every call (the bindings none at all, *)
(* by &mut self), so one call is in progress at a time: `pc` names the     *)
(* next file operation, `op` the event being logged.                       *)
(***************************************************************************)
EXTENDS QueueOps

CONSTANTS
  MaxLog,       (* max_bytes, counted in records: a longer wal.log rotates *)
  CrashPoints,  (* the steps at which the process may die                  *)
  IoFaults,     (* the steps whose I/O may return an error                 *)
  TornFaults,   (* the faults, counted from 0, that may tear an append     *)
  MaxRecords,   (* bound on wal.log, for model checking                    *)
  MaxCrashes,   (* bound on crashes and I/O errors, for model checking     *)
  MaxTime       (* bound on the clock, for model checking                  *)

(* The next thing the process does.                                        *)
Steps == {"down", "recover", "failed", "idle", "append", "apply", "rotate",
          "truncate", "write", "delete"}

ASSUME PersistenceAssumption ==
  /\ MaxLog \in Nat
  /\ CrashPoints \subseteq Steps \ {"down", "failed"}
  /\ IoFaults \subseteq {"append", "sync", "rotate", "truncate", "write", "delete"}
  /\ TornFaults \subseteq Nat
  /\ MaxRecords \in Nat
  /\ MaxCrashes \in Nat
  /\ MaxTime \in Nat

VARIABLES
  mem,        (* PersistentQueue.queue                                     *)
  pc,
  op,         (* the WalEvent of the call in progress                      *)
  unread,     (* the files, and records of the first, still to be replayed *)
  snapshot,   (* snapshot.bin                                              *)
  segments,   (* wal.001.log, wal.002.log, ... in that order               *)
  active,     (* wal.log                                                   *)
  now,
  faults,     (* crashes and I/O errors so far                             *)
  logged,     (* history: the queue after every event logged so far        *)
  issued,     (* history: the jobs some call has tried to enqueue          *)
  accepted,   (* history: the jobs whose enqueue returned Ok               *)
  acked       (* history: the jobs whose ack returned Ok                   *)

process == <<mem, pc, op, unread>>
disk    == <<snapshot, segments, active>>
history == <<issued, accepted, acked>>
vars    == <<process, disk, now, faults, logged, history>>

-----------------------------------------------------------------------------
(* WAL contents.                                                           *)

NoOp   == [op |-> "none"]        (* compact() logs no event                *)
Record == [event : Event, whole : BOOLEAN]
Log    == Seq(Record)

Whole(e) == [event |-> e, whole |-> TRUE]
Torn(e)  == [event |-> e, whole |-> FALSE]

SnapshotQueue ==
  IF snapshot.state = "whole" THEN snapshot.queue ELSE EmptyQueue

-----------------------------------------------------------------------------
Init ==
  /\ mem = EmptyQueue
  /\ pc = "down"
  /\ op = NoOp
  /\ unread = << >>
  /\ snapshot = [state |-> "none", queue |-> EmptyQueue]
  /\ segments = << >>
  /\ active = << >>
  /\ now = 0
  /\ faults = 0
  /\ logged = EmptyQueue
  /\ issued = {}
  /\ accepted = {}
  /\ acked = {}

(* A call takes the mutex and decides which event to log.                  *)
Begin(e) ==
  /\ pc = "idle"
  /\ Len(active) < MaxRecords
  /\ pc' = "append"
  /\ op' = e
  /\ UNCHANGED <<mem, unread, disk, now, faults, logged, accepted, acked>>

BeginEnqueue(j) ==
  /\ j \notin issued
  /\ Begin([op |-> "Enqueue", id |-> j])
  /\ issued' = issued \cup {j}

(* dequeue peeks at the front, dequeue_for_queue at the first job of n.    *)
BeginDequeue(i) ==
  /\ i \in DOMAIN mem.pending
  /\ i = 1 \/ IsFirstOf(mem, i, QueueOf[mem.pending[i].id])
  /\ Begin([op |-> "Dequeue", id |-> mem.pending[i].id])
  /\ UNCHANGED issued

(* The event is logged before the queue is asked whether it holds the job. *)
BeginAck(j) ==
  /\ j \in issued
  /\ Begin([op |-> "Ack", id |-> j])
  /\ UNCHANGED issued

BeginNack(j) ==
  /\ j \in issued
  /\ Begin([op |-> "Nack", id |-> j])
  /\ UNCHANGED issued

(* Mutant: compact() goes through rotate_and_compact.                      *)
CompactIfLong ==
  /\ pc = "idle"
  /\ pc' = "rotate"
  /\ op' = NoOp
  /\ UNCHANGED <<mem, unread, disk, now, faults, logged, history>>

(* compact(): straight to the snapshot, with nothing to log.               *)
BeginCompact ==
  /\ pc = "idle"
  /\ pc' = "truncate"
  /\ op' = NoOp
  /\ UNCHANGED <<mem, unread, disk, now, faults, logged, history>>

(* Mutant: an ack is not logged.                                           *)
AppendUnlessAck ==
  /\ pc = "append"
  /\ active' = IF op.op = "Ack" THEN active ELSE Append(active, Whole(op))
  /\ logged' = Apply(logged, op, now)
  /\ pc' = "apply"
  /\ UNCHANGED <<mem, op, unread, snapshot, segments, now, faults, history>>

(* Wal::append: length, payload, sync_all.                                 *)
AppendRecord ==
  /\ pc = "append"
  /\ active' = Append(active, Whole(op))
  /\ logged' = Apply(logged, op, now)
  /\ pc' = "apply"
  /\ UNCHANGED <<mem, op, unread, snapshot, segments, now, faults, history>>

(* The event reaches the queue.  An ack or nack of a job that is not       *)
(* processing returns its error here, before any rotation.                 *)
Rejected == op.op \in {"Ack", "Nack"} /\ ~IsProcessing(mem, op.id)

ApplyEvent ==
  /\ pc = "apply"
  /\ mem' = Apply(mem, op, now)
  /\ IF Rejected
     THEN pc' = "idle" /\ op' = NoOp
     ELSE pc' = "rotate" /\ UNCHANGED op
  /\ UNCHANGED <<unread, disk, now, faults, logged, history>>

(* The call returns Ok.                                                    *)
Return ==
  /\ pc' = "idle"
  /\ op' = NoOp
  /\ accepted' = IF op.op = "Enqueue" THEN accepted \cup {op.id} ELSE accepted
  /\ acked' = IF op.op = "Ack" THEN acked \cup {op.id} ELSE acked
  /\ UNCHANGED <<mem, unread, now, faults, logged, issued>>

(* rotate_and_compact with a short enough log: nothing to do.              *)
SkipRotation ==
  /\ pc = "rotate"
  /\ Len(active) <= MaxLog
  /\ Return
  /\ UNCHANGED disk

(* Mutant: the log is dropped before the snapshot is written.              *)
DropActive ==
  /\ pc = "rotate"
  /\ Len(active) > MaxLog
  /\ active' = << >>
  /\ pc' = "truncate"
  /\ UNCHANGED <<mem, op, unread, snapshot, segments, now, faults, logged, history>>

(* ... otherwise wal.log is renamed to the next segment ...                *)
RenameActive ==
  /\ pc = "rotate"
  /\ Len(active) > MaxLog
  /\ segments' = Append(segments, active)
  /\ active' = << >>
  /\ pc' = "truncate"
  /\ UNCHANGED <<mem, op, unread, snapshot, now, faults, logged, history>>

(* ... File::create empties snapshot.bin in place ...                      *)
TruncateSnapshot ==
  /\ pc = "truncate"
  /\ snapshot' = [state |-> "torn", queue |-> EmptyQueue]
  /\ pc' = "write"
  /\ UNCHANGED <<mem, op, unread, segments, active, now, faults, logged, history>>

(* Mutant: the snapshot leaves out the jobs that are being processed.      *)
WriteIdleJobs ==
  /\ pc = "write"
  /\ snapshot' = [state |-> "whole", queue |-> [mem EXCEPT !.processing = {}]]
  /\ pc' = "delete"
  /\ UNCHANGED <<mem, op, unread, segments, active, now, faults, logged, history>>

(* ... the whole queue is written and synced ...                           *)
WriteSnapshot ==
  /\ pc = "write"
  /\ snapshot' = [state |-> "whole", queue |-> mem]
  /\ pc' = "delete"
  /\ UNCHANGED <<mem, op, unread, segments, active, now, faults, logged, history>>

(* ... the rotated segments are removed, oldest first ...                  *)
DeleteSegment ==
  /\ pc = "delete"
  /\ segments # << >>
  /\ segments' = Tail(segments)
  /\ UNCHANGED <<process, snapshot, active, now, faults, logged, history>>

(* Mutant: compact() leaves wal.log as it is.                              *)
KeepActive ==
  /\ pc = "delete"
  /\ segments = << >>
  /\ Return
  /\ UNCHANGED disk

(* ... and wal.log is created, or for compact() emptied.                   *)
ResetActive ==
  /\ pc = "delete"
  /\ segments = << >>
  /\ active' = << >>
  /\ Return
  /\ UNCHANGED <<snapshot, segments>>

-----------------------------------------------------------------------------
(* promote_ready_jobs on queue_mut(): nothing is logged.                   *)
PromoteReady ==
  /\ pc = "idle"
  /\ Ready(mem, now) # {}
  /\ \E s \in HeapOrders(Ready(mem, now)) : mem' = Promote(mem, s)
  /\ UNCHANGED <<pc, op, unread, disk, now, faults, logged, history>>

Tick ==
  /\ now < MaxTime
  /\ now' = now + 1
  /\ UNCHANGED <<process, disk, faults, logged, history>>

-----------------------------------------------------------------------------
(* Failures.                                                               *)

(* What an append that does not complete leaves in wal.log: nothing, or    *)
(* some of the bytes of the record.                                        *)
Unfinished ==
  {active} \cup (IF faults \in TornFaults THEN {Append(active, Torn(op))} ELSE {})

(* kill -9: memory is gone, the files stay.                                *)
Crash ==
  /\ pc \in CrashPoints
  /\ faults < MaxCrashes
  /\ faults' = faults + 1
  /\ IF pc = "append" THEN active' \in Unfinished ELSE UNCHANGED active
  /\ pc' = "down"
  /\ mem' = EmptyQueue
  /\ op' = NoOp
  /\ unread' = << >>
  /\ UNCHANGED <<snapshot, segments, now, logged, history>>

(* An I/O call of the step fails: the call returns the error and the       *)
(* process goes on with whatever the earlier steps have done.  A failing   *)
(* sync_all leaves the record in the file but not in the queue, and the    *)
(* new wal.log empty.                                                      *)
IoError ==
  /\ faults < MaxCrashes
  /\ faults' = faults + 1
  /\ \/ /\ pc = "append"
        /\ "append" \in IoFaults
        /\ active' \in Unfinished
        /\ UNCHANGED logged
     \/ /\ pc = "append"
        /\ "sync" \in IoFaults
        /\ active' = Append(active, Whole(op))
        /\ logged' = Apply(logged, op, now)
     \/ /\ pc \in {"rotate", "truncate", "write", "delete"} \cap IoFaults
        /\ UNCHANGED <<active, logged>>
     \/ /\ pc = "delete"
        /\ "delete" \in IoFaults
        /\ segments = << >>
        /\ active' = << >>
        /\ UNCHANGED logged
  /\ pc' = "idle"
  /\ op' = NoOp
  /\ UNCHANGED <<mem, unread, snapshot, segments, now, history>>

-----------------------------------------------------------------------------
(* Recovery.                                                               *)

(* PersistentQueue::open: wal.log exists from here on, the snapshot is     *)
(* decoded, and a snapshot that does not decode fails the open.            *)
Open ==
  /\ pc = "down"
  /\ IF snapshot.state = "torn"
     THEN pc' = "failed" /\ UNCHANGED <<mem, unread>>
     ELSE /\ pc' = "recover"
          /\ mem' = SnapshotQueue
          /\ unread' = Append(segments, active)
  /\ UNCHANGED <<op, disk, now, faults, logged, history>>

(* Mutant: UnexpectedEof is an error like any other.                       *)
ReadWholeRecord(v, file, t) ==
  {[queue |-> Apply(v, Head(file).event, t),
    rest  |-> Tail(file),
    ok    |-> Head(file).whole]}

(* What reading the next record of a file can do.  A whole record is       *)
(* applied; a partial one at the end of the file is UnexpectedEof, and the *)
(* rest of the file is skipped.  A partial record with others behind it    *)
(* takes its missing bytes from them: they may decode as the record, or as *)
(* one of no known job, or not at all, which fails the open; and reading   *)
(* goes on after the bytes taken, at a record boundary or past the end.    *)
ReadRecord(v, file, t) ==
  LET e == Head(file).event IN
  CASE Head(file).whole ->
         {[queue |-> Apply(v, e, t), rest |-> Tail(file), ok |-> TRUE]}
    [] ~Head(file).whole /\ Len(file) = 1 ->
         {[queue |-> v, rest |-> << >>, ok |-> TRUE]}
    [] OTHER ->
         [queue : {v, Apply(v, e, t)},
          rest  : {SubSeq(file, k + 1, Len(file)) : k \in 2..Len(file)},
          ok    : BOOLEAN]

(* replay_reader_into_queue, one record.                                   *)
ReplayRecord ==
  /\ pc = "recover"
  /\ unread # << >>
  /\ Head(unread) # << >>
  /\ \E r \in ReadRecord(mem, Head(unread), now) :
       /\ mem' = r.queue
       /\ unread' = [unread EXCEPT ![1] = r.rest]
       /\ pc' = IF r.ok THEN pc ELSE "failed"
  /\ UNCHANGED <<op, disk, now, faults, logged, history>>

(* Mutant: the reader does not go on to the next file.                     *)
RereadFile ==
  /\ pc = "recover"
  /\ unread # << >>
  /\ Head(unread) = << >>
  /\ UNCHANGED vars

EndOfFile ==
  /\ pc = "recover"
  /\ unread # << >>
  /\ Head(unread) = << >>
  /\ unread' = Tail(unread)
  /\ UNCHANGED <<mem, pc, op, disk, now, faults, logged, history>>

Recovered ==
  /\ pc = "recover"
  /\ unread = << >>
  /\ pc' = "idle"
  /\ UNCHANGED <<mem, op, unread, disk, now, faults, logged, history>>

-----------------------------------------------------------------------------
Recovery == Open \/ ReplayRecord \/ EndOfFile \/ Recovered

Call ==
  \/ \E j \in Job : BeginEnqueue(j)
  \/ \E i \in DOMAIN mem.pending : BeginDequeue(i)
  \/ \E j \in Job : BeginAck(j)
  \/ \E j \in Job : BeginNack(j)
  \/ BeginCompact

FileStep ==
  \/ AppendRecord
  \/ ApplyEvent
  \/ SkipRotation
  \/ RenameActive
  \/ TruncateSnapshot
  \/ WriteSnapshot
  \/ DeleteSegment
  \/ ResetActive

Next ==
  \/ Recovery
  \/ Call
  \/ FileStep
  \/ PromoteReady
  \/ Tick
  \/ Crash
  \/ IoError

Spec == Init /\ [][Next]_vars

(* A call, once begun, runs to its end, and so does open: the thread is    *)
(* scheduled.  Clients, clocks and failures owe nothing.                   *)
FairSpec == Spec /\ WF_vars(Recovery) /\ WF_vars(FileStep)

-----------------------------------------------------------------------------
(* What each variable may hold; only compact() passes a step that logs     *)
(* nothing, and it never reaches the rotation of the log.                  *)
TypeOK ==
  /\ mem \in QueueValue
  /\ pc \in Steps
  /\ op \in Event \cup {NoOp}
  /\ pc \in {"append", "apply", "rotate"} => op \in Event
  /\ op.op = "Enqueue" => op.id \in issued
  /\ unread \in Seq(Log)
  /\ snapshot \in [state : {"none", "torn", "whole"}, queue : QueueValue]
  /\ segments \in Seq(Log)
  /\ active \in Log
  /\ now \in Nat
  /\ faults \in Nat
  /\ accepted \subseteq issued
  /\ issued \subseteq Job
  /\ acked \subseteq Job

(* No job is lost: once PersistentQueue::enqueue has returned Ok the job   *)
(* is somewhere in the queue, in every state in which it serves calls,     *)
(* whatever failed since.                                                  *)
Serving == pc \notin {"down", "recover", "failed"}

NoAcceptedJobLost == Serving => accepted \subseteq Known(mem)

(* An acknowledgement is durable: a job whose PersistentQueue::ack         *)
(* returned Ok is completed after every later load_queue too.              *)
AckSurvives == Serving => \A j \in acked : IsCompleted(mem, j)

(* A restart always succeeds: load_queue decodes all it finds on disk.     *)
OpenSucceeds == pc # "failed"

(* load_queue rebuilds exactly the queue that was in memory: between calls *)
(* memory is what the logged events make, restarts or not.                 *)
MemoryIsLogged == pc = "idle" => mem = logged

(* Replaying segments over a snapshot enqueues no job a second time.       *)
NoDuplicateJob == Serving => NoDuplicate(mem)

(* Every restart ends with the queue serving calls again: open reads every *)
(* file to its end and stops.                                              *)
RestartsServe == (pc = "down") ~> (pc = "idle")

(* The persistent queue implements the atomic one: a call takes effect     *)
(* when its record is on disk, whatever happens to the process then, and   *)
(* rotation, compaction, crashes and recovery change nothing.  Once the    *)
(* call has reached the queue, and between calls, the abstract queue is    *)
(* the one in memory; otherwise it is what the logged events make.         *)
JobQueue ==
  INSTANCE Queue WITH
    q <- IF pc \in {"idle", "rotate", "truncate", "write", "delete"} THEN mem ELSE logged

ImplementsQueue == JobQueue!QueueSpec
=============================================================================
