------------------------ MODULE PersistentQueueProofs -----------------------
(***************************************************************************)
(* The persistent queue, for every set of jobs, log size and number of     *)
(* crashes and I/O errors: its type invariant; under the fault model of    *)
(* CleanFaults, that no accepted job is ever lost and that every restart   *)
(* can read what is on disk; under that of UniqueFaults, that no restart   *)
(* puts a job into the queue twice; and under that of ExactFaults, without *)
(* schedules, that recovery is exact, so that the persistent queue         *)
(* implements the atomic one.                                              *)
(***************************************************************************)
EXTENDS PersistentQueue, QueueOpsProofs

-----------------------------------------------------------------------------
(* Types.                                                                  *)

(* Both outcomes of writing a record are records.                          *)
LEMMA RecordTyped ==
  ASSUME NEW e \in Event
  PROVE  Whole(e) \in Record /\ Torn(e) \in Record
BY DEF Whole, Torn, Record

(* What an append leaves in wal.log, finished or not, is a log.            *)
LEMMA AppendTyped ==
  ASSUME TypeOK, op \in Event
  PROVE  /\ Append(active, Whole(op)) \in Log
         /\ Unfinished \subseteq Log
<1>1. active \in Seq(Record)
  BY DEF TypeOK, Log
<1>2. \A r \in Record : Append(active, r) \in Seq(Record)
  BY <1>1, AppendProperties
<1> QED  BY <1>1, <1>2, RecordTyped DEF Unfinished, Log

(* Whatever comes of reading a record, memory stays a queue value and the  *)
(* rest of the file a log.                                                 *)
LEMMA ReadRecordTyped ==
  ASSUME NEW v \in QueueValue, NEW file \in Log, file # << >>, NEW t \in Nat,
         NEW r \in ReadRecord(v, file, t)
  PROVE  r.queue \in QueueValue /\ r.rest \in Log /\ r.ok \in BOOLEAN
<1>1. file \in Seq(Record) /\ Len(file) \in Nat
  BY LenProperties DEF Log
<1>2. Head(file) \in Record /\ Tail(file) \in Log
  BY <1>1, HeadTailProperties DEF Log
<1>3. Head(file).event \in Event /\ Head(file).whole \in BOOLEAN
  BY <1>2 DEF Record
<1>4. Apply(v, Head(file).event, t) \in QueueValue
  BY <1>3, ApplyTyped
<1>5. << >> \in Log
  BY EmptySeq DEF Log
<1>6. \A k \in 2..Len(file) : SubSeq(file, k + 1, Len(file)) \in Log
  <2> TAKE k \in 2..Len(file)
  <2>1. \A i \in (k + 1)..Len(file) : file[i] \in Record
    BY <1>1, ElementOfSeq
  <2>2. k + 1 \in Int /\ Len(file) \in Int
    BY <1>1
  <2> QED  BY <2>1, <2>2, SubSeqProperties DEF Log
<1>7. CASE Head(file).whole
  <2>1. r = [queue |-> Apply(v, Head(file).event, t), rest |-> Tail(file), ok |-> TRUE]
    BY <1>7 DEF ReadRecord
  <2> QED  BY <1>2, <1>4, <2>1
<1>8. CASE ~Head(file).whole /\ Len(file) = 1
  <2>1. r = [queue |-> v, rest |-> << >>, ok |-> TRUE]
    BY <1>8 DEF ReadRecord
  <2> QED  BY <1>5, <2>1
<1>9. CASE ~Head(file).whole /\ Len(file) # 1
  <2>1. r \in [queue : {v, Apply(v, Head(file).event, t)},
               rest  : {SubSeq(file, k + 1, Len(file)) : k \in 2..Len(file)},
               ok    : BOOLEAN]
    BY <1>9 DEF ReadRecord
  <2> QED  BY <1>4, <1>6, <2>1
<1> QED  BY <1>7, <1>8, <1>9

(* The empty directory and process are typed.                              *)
LEMMA InitTyped == Init => TypeOK
<1>1. << >> \in Log /\ << >> \in Seq(Log)
  BY EmptySeq DEF Log
<1> QED  BY <1>1, EmptyQueueType DEF Init, TypeOK, Steps, NoOp

(* Beginning a call keeps the types.                                       *)
LEMMA BeginTyped ==
  ASSUME TypeOK, NEW e \in Event, Begin(e), issued \subseteq issued', issued' \subseteq Job,
         e.op = "Enqueue" => e.id \in issued'
  PROVE  TypeOK'
BY DEF TypeOK, Begin, Steps, disk

(* Returning from one keeps them too.                                      *)
LEMMA ReturnTyped ==
  ASSUME TypeOK, Return, pc \in {"rotate", "delete"},
         pc = "delete" \/ op \in Event,
         UNCHANGED snapshot, segments' \in Seq(Log), active' \in Log
  PROVE  TypeOK'
<1>1. op.op = "Ack" => op.id \in Job
  BY DEF TypeOK, Event, NoOp
<1>2. accepted' \subseteq issued /\ acked' \subseteq Job
  BY <1>1 DEF TypeOK, Return
<1> QED  BY <1>2 DEF TypeOK, Return, Steps, NoOp

(* Every step, failures and recovery included, keeps the types.            *)
LEMMA StepTyped == TypeOK /\ [Next]_vars => TypeOK'
<1> SUFFICES ASSUME TypeOK, [Next]_vars
             PROVE  TypeOK'
  OBVIOUS
<1> USE DEF Steps
<1>q. /\ mem \in QueueValue
      /\ now \in Nat
      /\ issued \subseteq Job
  BY DEF TypeOK
<1>1. CASE \E j \in Job : BeginEnqueue(j)
  BY <1>1, <1>q, BeginTyped DEF BeginEnqueue, Event
<1>2. CASE \E i \in DOMAIN mem.pending : BeginDequeue(i)
  <2>1. PICK i \in DOMAIN mem.pending : BeginDequeue(i)
    BY <1>2
  <2>2. mem.pending[i].id \in Job
    BY <1>q, QueueFields DEF Entry
  <2> QED  BY <1>q, <2>1, <2>2, BeginTyped DEF BeginDequeue, Event
<1>3. CASE \E j \in Job : BeginAck(j)
  BY <1>3, <1>q, BeginTyped DEF BeginAck, Event
<1>4. CASE \E j \in Job : BeginNack(j)
  BY <1>4, <1>q, BeginTyped DEF BeginNack, Event
<1>5. CASE BeginCompact
  BY <1>5 DEF TypeOK, BeginCompact, disk, history, NoOp
<1>6. CASE AppendRecord
  BY <1>6, AppendTyped DEF TypeOK, AppendRecord, history
<1>7. CASE ApplyEvent
  <2>1. op \in Event
    BY <1>7 DEF TypeOK, ApplyEvent
  <2>2. mem' \in QueueValue
    BY <1>7, <1>q, <2>1, ApplyTyped DEF ApplyEvent
  <2> QED  BY <1>7, <2>1, <2>2 DEF TypeOK, ApplyEvent, disk, history, NoOp
<1>8. CASE SkipRotation
  BY <1>8, ReturnTyped DEF SkipRotation, TypeOK, disk
<1>9. CASE RenameActive
  <2>1. << >> \in Log /\ Append(segments, active) \in Seq(Log)
    BY EmptySeq, AppendProperties DEF TypeOK, Log
  <2> QED  BY <1>9, <2>1 DEF TypeOK, RenameActive, history
<1>10. CASE TruncateSnapshot
  BY <1>10, EmptyQueueType DEF TypeOK, TruncateSnapshot, history
<1>11. CASE WriteSnapshot
  BY <1>11 DEF TypeOK, WriteSnapshot, history
<1>12. CASE DeleteSegment
  <2>1. Tail(segments) \in Seq(Log)
    BY <1>12, HeadTailProperties DEF TypeOK, DeleteSegment
  <2> QED  BY <1>12, <2>1 DEF TypeOK, DeleteSegment, process, history
<1>13. CASE ResetActive
  <2>1. << >> \in Log
    BY EmptySeq DEF Log
  <2> QED  BY <1>13, <2>1, ReturnTyped DEF ResetActive, TypeOK
<1>14. CASE PromoteReady
  <2>1. mem' \in QueueValue
    BY <1>14, <1>q, PromoteType DEF PromoteReady
  <2> QED  BY <1>14, <2>1 DEF TypeOK, PromoteReady, disk, history
<1>15. CASE Tick
  BY <1>15 DEF TypeOK, Tick, process, disk, history
<1>16. CASE Crash
  <2>1. active' \in Log
    <3>1. CASE pc = "append"
      BY <1>16, <3>1, AppendTyped DEF Crash, TypeOK
    <3>2. CASE pc # "append"
      BY <1>16, <3>2 DEF Crash, TypeOK
    <3> QED  BY <3>1, <3>2
  <2>2. << >> \in Seq(Log)
    BY EmptySeq
  <2> QED  BY <1>16, <2>1, <2>2, EmptyQueueType DEF TypeOK, Crash, history, NoOp
<1>17. CASE IoError
  <2>1. active' \in Log
    <3>1. << >> \in Log
      BY EmptySeq DEF Log
    <3> QED  BY <1>17, <3>1, AppendTyped DEF IoError, TypeOK
  <2> QED  BY <1>17, <2>1 DEF TypeOK, IoError, history, NoOp
<1>18. CASE Open
  <2>1. SnapshotQueue \in QueueValue
    BY EmptyQueueType DEF SnapshotQueue, TypeOK
  <2>2. Append(segments, active) \in Seq(Log)
    BY AppendProperties DEF TypeOK
  <2> QED  BY <1>18, <2>1, <2>2 DEF TypeOK, Open, disk, history
<1>19. CASE ReplayRecord
  <2>1. PICK r \in ReadRecord(mem, Head(unread), now) :
          /\ mem' = r.queue
          /\ unread' = [unread EXCEPT ![1] = r.rest]
          /\ pc' = IF r.ok THEN pc ELSE "failed"
    BY <1>19 DEF ReplayRecord
  <2>2. unread \in Seq(Log) /\ unread # << >> /\ Head(unread) # << >>
    BY <1>19 DEF ReplayRecord, TypeOK
  <2>3. Head(unread) \in Log /\ 1 \in 1..Len(unread)
    BY <2>2, HeadTailProperties, EmptySeq
  <2>4. r.queue \in QueueValue /\ r.rest \in Log
    BY <1>q, <2>2, <2>3, ReadRecordTyped
  <2>5. unread' \in Seq(Log)
    BY <2>1, <2>2, <2>3, <2>4, ExceptSeq
  <2> QED  BY <1>19, <2>1, <2>4, <2>5 DEF TypeOK, ReplayRecord, disk, history
<1>20. CASE EndOfFile
  <2>1. Tail(unread) \in Seq(Log)
    BY <1>20, HeadTailProperties DEF TypeOK, EndOfFile
  <2> QED  BY <1>20, <2>1 DEF TypeOK, EndOfFile, disk, history
<1>21. CASE Recovered
  BY <1>21 DEF TypeOK, Recovered, disk, history
<1>22. CASE UNCHANGED vars
  BY <1>22 DEF TypeOK, vars, process, disk, history
<1> QED
  BY <1>1, <1>2, <1>3, <1>4, <1>5, <1>6, <1>7, <1>8, <1>9, <1>10, <1>11,
     <1>12, <1>13, <1>14, <1>15, <1>16, <1>17, <1>18, <1>19, <1>20, <1>21,
     <1>22 DEF Next, Recovery, Call, FileStep

(* Whatever dies or fails, memory and disk hold what their types say.      *)
THEOREM PersistentTyped == Spec => []TypeOK
BY InitTyped, StepTyped, PTL DEF Spec

-----------------------------------------------------------------------------
(* What the log keeps.                                                     *)

(* The fault model: an append is torn only by the last fault of a run, and *)
(* nothing fails between the truncation and the rewriting of snapshot.bin. *)
CleanFaults ==
  /\ \A f \in TornFaults : MaxCrashes <= f + 1
  /\ "write" \notin CrashPoints
  /\ "write" \notin IoFaults

(* The jobs that replaying a file, or a list of files, enqueues.           *)
Enqueued(log) ==
  {j \in Job : \E i \in DOMAIN log :
                 log[i].whole /\ log[i].event = [op |-> "Enqueue", id |-> j]}

EnqueuedIn(files) ==
  {j \in Job : \E n \in DOMAIN files : j \in Enqueued(files[n])}

OnDisk == Known(SnapshotQueue) \cup EnqueuedIn(segments) \cup Enqueued(active)

(* Every record can be read, or every one but a last one cut short.        *)
AllWhole(log) == \A i \in DOMAIN log : log[i].whole
Readable(log) == \A i \in DOMAIN log : log[i].whole \/ i = Len(log)

(* A job appended to a log is enqueued by it, and none is forgotten.       *)
LEMMA EnqueuedAppend ==
  ASSUME NEW log \in Log, NEW r \in Record
  PROVE  /\ Append(log, r) \in Log
         /\ Enqueued(log) \subseteq Enqueued(Append(log, r))
         /\ (r.whole /\ r.event.op = "Enqueue") => r.event.id \in Enqueued(Append(log, r))
<1>1. log \in Seq(Record) /\ Len(log) \in Nat /\ DOMAIN log = 1..Len(log)
  BY LenProperties DEF Log
<1> DEFINE new == Append(log, r)
<1>2. /\ new \in Log
      /\ DOMAIN new = 1..(Len(log) + 1)
      /\ \A i \in 1..Len(log) : new[i] = log[i]
      /\ new[Len(log) + 1] = r
  BY <1>1, AppendProperties, LenProperties DEF Log
<1> HIDE DEF new
<1>3. Enqueued(log) \subseteq Enqueued(new)
  BY <1>1, <1>2 DEF Enqueued
<1>4. ASSUME r.whole, r.event.op = "Enqueue"
      PROVE  r.event.id \in Enqueued(new)
  <2>1. r.event.id \in Job /\ r.event = [op |-> "Enqueue", id |-> r.event.id]
    BY <1>4 DEF Record, Event
  <2>2. Len(log) + 1 \in DOMAIN new
    BY <1>1, <1>2
  <2> QED  BY <1>2, <1>4, <2>1, <2>2 DEF Enqueued
<1> QED  BY <1>2, <1>3, <1>4 DEF new

(* Taking the first record off a log forgets at most what it enqueues.     *)
LEMMA EnqueuedTail ==
  ASSUME NEW log \in Log, log # << >>, NEW j \in Enqueued(log)
  PROVE  \/ j \in Enqueued(Tail(log))
         \/ Head(log).whole /\ Head(log).event.op = "Enqueue" /\ Head(log).event.id = j
<1>1. log \in Seq(Record) /\ Len(log) \in Nat /\ DOMAIN log = 1..Len(log)
  BY LenProperties DEF Log
<1>2. /\ Head(log) = log[1]
      /\ Tail(log) \in Seq(Record)
      /\ Len(Tail(log)) = Len(log) - 1
      /\ \A i \in 1..Len(Tail(log)) : Tail(log)[i] = log[i + 1]
  BY <1>1, HeadTailProperties
<1>3. DOMAIN Tail(log) = 1..(Len(log) - 1)
  BY <1>2, LenProperties
<1>4. PICK i \in 1..Len(log) : log[i].whole /\ log[i].event = [op |-> "Enqueue", id |-> j]
  BY <1>1 DEF Enqueued
<1>5. CASE i = 1
  BY <1>2, <1>4, <1>5
<1>6. CASE i # 1
  <2>1. i - 1 \in 1..Len(Tail(log)) /\ Tail(log)[i - 1] = log[i]
    BY <1>1, <1>2, <1>6
  <2>2. j \in Job
    BY DEF Enqueued
  <2> QED  BY <1>2, <1>3, <1>4, <2>1, <2>2 DEF Enqueued
<1> QED  BY <1>5, <1>6

(* A file put behind others adds exactly its own jobs.                     *)
LEMMA FilesAppend ==
  ASSUME NEW files \in Seq(Log), NEW log \in Log
  PROVE  EnqueuedIn(files) \cup Enqueued(log) \subseteq EnqueuedIn(Append(files, log))
<1>1. Len(files) \in Nat /\ DOMAIN files = 1..Len(files)
  BY LenProperties
<1> DEFINE new == Append(files, log)
<1>2. /\ DOMAIN new = 1..(Len(files) + 1)
      /\ \A i \in 1..Len(files) : new[i] = files[i]
      /\ new[Len(files) + 1] = log
  BY <1>1, AppendProperties, LenProperties
<1> HIDE DEF new
<1>3. Len(files) + 1 \in DOMAIN new
  BY <1>1, <1>2
<1>4. Enqueued(log) \subseteq Job
  BY DEF Enqueued
<1>5. EnqueuedIn(files) \subseteq EnqueuedIn(new)
  BY <1>1, <1>2 DEF EnqueuedIn
<1>6. Enqueued(log) \subseteq EnqueuedIn(new)
  BY <1>2, <1>3, <1>4 DEF EnqueuedIn
<1> QED  BY <1>5, <1>6 DEF new

(* Dropping the first file loses only the jobs it enqueues.                *)
LEMMA FilesTail ==
  ASSUME NEW files \in Seq(Log), files # << >>
  PROVE  EnqueuedIn(files) \subseteq Enqueued(Head(files)) \cup EnqueuedIn(Tail(files))
<1>1. Len(files) \in Nat /\ DOMAIN files = 1..Len(files)
  BY LenProperties
<1>2. /\ Head(files) = files[1]
      /\ Tail(files) \in Seq(Log)
      /\ Len(Tail(files)) = Len(files) - 1
      /\ \A i \in 1..Len(Tail(files)) : Tail(files)[i] = files[i + 1]
  BY HeadTailProperties
<1>3. DOMAIN Tail(files) = 1..(Len(files) - 1)
  BY <1>2, LenProperties
<1> SUFFICES ASSUME NEW j \in EnqueuedIn(files), j \notin Enqueued(Head(files))
             PROVE  j \in EnqueuedIn(Tail(files))
  OBVIOUS
<1>4. j \in Job
  BY DEF EnqueuedIn
<1>5. PICK n \in 1..Len(files) : j \in Enqueued(files[n])
  BY <1>1 DEF EnqueuedIn
<1>6. n - 1 \in 1..Len(Tail(files)) /\ Tail(files)[n - 1] = files[n]
  BY <1>1, <1>2, <1>5
<1> QED  BY <1>2, <1>3, <1>4, <1>5, <1>6 DEF EnqueuedIn

(* Replacing the first file by another takes away at most the jobs that    *)
(* the first enqueues and the other does not.                              *)
LEMMA FilesExcept ==
  ASSUME NEW files \in Seq(Log), files # << >>, NEW log \in Log
  PROVE  \A j \in EnqueuedIn(files) :
           \/ j \in EnqueuedIn([files EXCEPT ![1] = log])
           \/ j \in Enqueued(Head(files)) \ Enqueued(log)
<1>1. Len(files) \in Nat /\ DOMAIN files = 1..Len(files) /\ 1 \in DOMAIN files
  BY LenProperties, EmptySeq
<1>2. Head(files) = files[1]
  BY HeadTailProperties
<1> DEFINE new == [files EXCEPT ![1] = log]
<1>3. /\ DOMAIN new = DOMAIN files
      /\ new[1] = log
      /\ \A n \in DOMAIN files : n # 1 => new[n] = files[n]
  BY <1>1
<1> HIDE DEF new
<1> QED  BY <1>1, <1>2, <1>3 DEF EnqueuedIn, new

(* A log of whole records stays one, or gets one cut-short record.         *)
LEMMA WholeAppend ==
  ASSUME NEW log \in Log, NEW e \in Event, AllWhole(log)
  PROVE  AllWhole(Append(log, Whole(e))) /\ Readable(Append(log, Torn(e)))
<1>1. log \in Seq(Record) /\ Len(log) \in Nat /\ DOMAIN log = 1..Len(log)
  BY LenProperties DEF Log
<1>2. ASSUME NEW r \in Record
      PROVE  /\ DOMAIN Append(log, r) = 1..(Len(log) + 1)
             /\ Len(Append(log, r)) = Len(log) + 1
             /\ \A i \in 1..Len(log) : Append(log, r)[i] = log[i]
             /\ Append(log, r)[Len(log) + 1] = r
  BY <1>1, AppendProperties, LenProperties
<1>3. Whole(e) \in Record /\ Whole(e).whole /\ Torn(e) \in Record
  BY RecordTyped DEF Whole
<1>4. AllWhole(Append(log, Whole(e)))
  BY <1>1, <1>2, <1>3 DEF AllWhole
<1>5. Readable(Append(log, Torn(e)))
  <2> DEFINE new == Append(log, Torn(e))
  <2>1. /\ DOMAIN new = 1..(Len(log) + 1)
        /\ Len(new) = Len(log) + 1
        /\ \A i \in 1..Len(log) : new[i] = log[i]
    BY <1>2, <1>3
  <2> HIDE DEF new
  <2>2. Readable(new)
    BY <1>1, <2>1 DEF AllWhole, Readable
  <2> QED  BY <2>2 DEF new
<1> QED  BY <1>4, <1>5

(* What follows the first record of a readable file is readable.           *)
LEMMA ReadableTail ==
  ASSUME NEW log \in Log, log # << >>, Readable(log)
  PROVE  Tail(log) \in Log /\ Readable(Tail(log))
<1>1. log \in Seq(Record) /\ Len(log) \in Nat /\ DOMAIN log = 1..Len(log)
  BY LenProperties DEF Log
<1>2. /\ Tail(log) \in Seq(Record)
      /\ Len(Tail(log)) = Len(log) - 1
      /\ \A i \in 1..Len(Tail(log)) : Tail(log)[i] = log[i + 1]
  BY <1>1, HeadTailProperties
<1>3. DOMAIN Tail(log) = 1..(Len(log) - 1)
  BY <1>2, LenProperties
<1>4. ASSUME NEW i \in 1..(Len(log) - 1)
      PROVE  Tail(log)[i].whole \/ i = Len(log) - 1
  <2>1. i + 1 \in DOMAIN log /\ Tail(log)[i] = log[i + 1]
    BY <1>1, <1>2, <1>4
  <2>2. log[i + 1].whole \/ i + 1 = Len(log)
    BY <2>1 DEF Readable
  <2>3. CASE log[i + 1].whole
    <3>1. Tail(log)[i].whole
      BY <2>1, <2>3, Zenon
    <3> QED  BY <3>1
  <2>4. CASE i + 1 = Len(log)
    <3>1. i \in Int /\ Len(log) \in Int
      BY <1>1, <1>4
    <3>2. \A k, n \in Int : k + 1 = n => k = n - 1
      OBVIOUS
    <3> QED  BY <2>4, <3>1, <3>2, Zenon
  <2> QED  BY <2>2, <2>3, <2>4, Zenon
<1> QED  BY <1>2, <1>3, <1>4 DEF Readable, Log

(* Reading the next record of a readable file never fails, leaves a        *)
(* readable rest, and whatever job the file has lost the queue has.        *)
LEMMA ReadsOn ==
  ASSUME NEW v \in QueueValue, NEW file \in Log, file # << >>, NEW t \in Nat,
         Readable(file), NEW r \in ReadRecord(v, file, t)
  PROVE  /\ r.ok = TRUE
         /\ Readable(r.rest)
         /\ Known(v) \subseteq Known(r.queue)
         /\ Enqueued(file) \ Enqueued(r.rest) \subseteq Known(r.queue)
<1>1. file \in Seq(Record) /\ Len(file) \in Nat /\ DOMAIN file = 1..Len(file)
  BY LenProperties DEF Log
<1>2. 1 \in DOMAIN file /\ Head(file) = file[1]
  BY <1>1, EmptySeq, HeadTailProperties
<1>3. Head(file).event \in Event
  <2>1. Head(file) \in Record
    BY <1>1, HeadTailProperties
  <2> QED  BY <2>1 DEF Record
<1>4. CASE Head(file).whole
  <2>1. r = [queue |-> Apply(v, Head(file).event, t), rest |-> Tail(file), ok |-> TRUE]
    BY <1>4 DEF ReadRecord
  <2>2. /\ Known(v) \subseteq Known(Apply(v, Head(file).event, t))
        /\ Head(file).event.op = "Enqueue" =>
             Head(file).event.id \in Known(Apply(v, Head(file).event, t))
    BY <1>3, ApplyKnows
  <2>3. \A j \in Enqueued(file) :
          \/ j \in Enqueued(Tail(file))
          \/ Head(file).event.op = "Enqueue" /\ Head(file).event.id = j
    BY EnqueuedTail
  <2> QED  BY <2>1, <2>2, <2>3, ReadableTail
<1>5. CASE ~Head(file).whole
  <2>1. Len(file) = 1
    BY <1>2, <1>5 DEF Readable
  <2>2. r = [queue |-> v, rest |-> << >>, ok |-> TRUE]
    BY <1>5, <2>1 DEF ReadRecord
  <2>3. Enqueued(file) = {}
    BY <1>1, <1>2, <1>5, <2>1 DEF Enqueued
  <2>4. Readable(<< >>)
    BY EmptySeq DEF Readable
  <2> QED  BY <2>2, <2>3, <2>4
<1> QED  BY <1>4, <1>5

-----------------------------------------------------------------------------
(* Every restart can read what it finds.                                   *)

(* snapshot.bin is incomplete only while it is being written; as long as   *)
(* a fault may still come every record is whole, and from the last fault   *)
(* to the end of the recovery only a last record may be cut short.         *)
Legible ==
  /\ pc # "failed"
  /\ snapshot.state = "torn" => pc = "write"
  /\ faults < MaxCrashes =>
       /\ AllWhole(active)
       /\ \A n \in DOMAIN segments : AllWhole(segments[n])
  /\ pc = "down" =>
       /\ Readable(active)
       /\ \A n \in DOMAIN segments : Readable(segments[n])
  /\ pc = "recover" => \A n \in DOMAIN unread : Readable(unread[n])

(* The empty directory is legible.                                         *)
LEMMA InitLegible == Init => Legible
BY EmptySeq DEF Init, Legible, AllWhole, Readable

(* A crash or error in the append of a record: all that is left of it is   *)
(* a last record cut short, and then the faults are used up.               *)
LEMMA UnfinishedReadable ==
  ASSUME TypeOK, Legible, CleanFaults, op \in Event, faults < MaxCrashes,
         NEW log \in Unfinished
  PROVE  Readable(log) /\ (AllWhole(log) \/ MaxCrashes <= faults + 1)
<1>1. active \in Log /\ AllWhole(active) /\ faults \in Nat /\ MaxCrashes \in Nat
  BY PersistenceAssumption DEF TypeOK, Legible
<1>2. CASE log = active
  BY <1>1, <1>2 DEF AllWhole, Readable
<1>3. CASE log # active
  <2>1. faults \in TornFaults /\ log = Append(active, Torn(op))
    BY <1>3 DEF Unfinished
  <2> QED  BY <1>1, <2>1, WholeAppend DEF CleanFaults
<1> QED  BY <1>2, <1>3

(* Under CleanFaults every step leaves the files legible, and no open      *)
(* fails.                                                                  *)
LEMMA StepLegible == CleanFaults /\ TypeOK /\ Legible /\ [Next]_vars => Legible'
<1> SUFFICES ASSUME CleanFaults, TypeOK, Legible, [Next]_vars
             PROVE  Legible'
  OBVIOUS
<1>q. /\ mem \in QueueValue /\ now \in Nat
      /\ active \in Log /\ segments \in Seq(Log) /\ unread \in Seq(Log)
      /\ faults \in Nat /\ MaxCrashes \in Nat
  BY PersistenceAssumption DEF TypeOK
<1>e. << >> \in Log /\ AllWhole(<< >>) /\ Readable(<< >>) /\ Len(<< >>) = 0
  BY EmptySeq DEF Log, AllWhole, Readable
<1>1. CASE Call
  BY <1>1 DEF Legible, Call, BeginEnqueue, BeginDequeue, BeginAck, BeginNack, Begin,
     BeginCompact, disk
<1>2. CASE AppendRecord
  <2>1. op \in Event
    BY <1>2 DEF TypeOK, AppendRecord
  <2>2. AllWhole(active) => AllWhole(active')
    BY <1>2, <1>q, <2>1, WholeAppend DEF AppendRecord
  <2> QED  BY <1>2, <2>2 DEF Legible, AppendRecord
<1>3. CASE ApplyEvent
  BY <1>3 DEF Legible, ApplyEvent, disk
<1>4. CASE SkipRotation
  BY <1>4 DEF Legible, SkipRotation, Return, disk
<1>5. CASE RenameActive
  <2>1. \A n \in DOMAIN segments' : AllWhole(segments'[n]) \/ ~(faults < MaxCrashes)
    <3>1. /\ DOMAIN segments' = 1..(Len(segments) + 1)
          /\ \A n \in 1..Len(segments) : segments'[n] = segments[n]
          /\ segments'[Len(segments) + 1] = active
          /\ DOMAIN segments = 1..Len(segments) /\ Len(segments) \in Nat
      BY <1>5, <1>q, AppendProperties, LenProperties DEF RenameActive
    <3> QED  BY <3>1 DEF Legible
  <2> QED  BY <1>5, <1>e, <2>1 DEF Legible, RenameActive
<1>6. CASE TruncateSnapshot
  BY <1>6 DEF Legible, TruncateSnapshot
<1>7. CASE WriteSnapshot
  BY <1>7 DEF Legible, WriteSnapshot
<1>8. CASE DeleteSegment
  <2>1. /\ DOMAIN segments' = 1..(Len(segments) - 1)
        /\ \A n \in DOMAIN segments' : segments'[n] = segments[n + 1]
        /\ DOMAIN segments = 1..Len(segments) /\ Len(segments) \in Nat
    BY <1>8, <1>q, HeadTailProperties, LenProperties DEF DeleteSegment
  <2>2. \A n \in DOMAIN segments' : n + 1 \in DOMAIN segments
    BY <2>1
  <2> QED  BY <1>8, <2>1, <2>2 DEF Legible, DeleteSegment, process
<1>9. CASE ResetActive
  BY <1>9, <1>e DEF Legible, ResetActive, Return
<1>10. CASE PromoteReady
  BY <1>10 DEF Legible, PromoteReady, disk
<1>11. CASE Tick
  BY <1>11 DEF Legible, Tick, process, disk
<1>12. CASE Crash
  <2>1. faults < MaxCrashes /\ faults' = faults + 1 /\ pc' = "down" /\ pc # "write"
    BY <1>12 DEF Crash, CleanFaults
  <2>2. /\ AllWhole(active) /\ \A n \in DOMAIN segments : AllWhole(segments[n])
        /\ UNCHANGED <<snapshot, segments>>
    BY <1>12, <2>1 DEF Crash, Legible
  <2>3. Readable(active') /\ (AllWhole(active') \/ MaxCrashes <= faults + 1)
    <3>1. CASE pc = "append"
      BY <1>12, <2>1, <3>1, UnfinishedReadable DEF Crash, TypeOK
    <3>2. CASE pc # "append"
      BY <1>12, <2>2, <3>2 DEF Crash, AllWhole, Readable
    <3> QED  BY <3>1, <3>2
  <2>4. \A n \in DOMAIN segments' : Readable(segments'[n])
    BY <2>2 DEF AllWhole, Readable
  <2> QED  BY <1>q, <2>1, <2>2, <2>3, <2>4 DEF Legible
<1>13. CASE IoError
  <2>1. /\ faults < MaxCrashes /\ faults' = faults + 1 /\ pc' = "idle" /\ pc # "write"
        /\ UNCHANGED <<snapshot, segments>>
    BY <1>13 DEF IoError, CleanFaults
  <2>2. AllWhole(active') \/ MaxCrashes <= faults + 1
    <3>1. CASE pc = "append"
      <4>1. op \in Event
        BY <3>1 DEF TypeOK
      <4>2. active' \in Unfinished \/ active' = Append(active, Whole(op))
        BY <1>13, <3>1 DEF IoError
      <4> QED  BY <1>q, <2>1, <4>1, <4>2, UnfinishedReadable, WholeAppend DEF Legible
    <3>2. CASE pc # "append"
      BY <1>13, <1>e, <2>1, <3>2 DEF IoError, Legible
    <3> QED  BY <3>1, <3>2
  <2> QED  BY <1>q, <2>1, <2>2 DEF Legible
<1>14. CASE Open
  <2>1. pc = "down" /\ pc' = "recover" /\ unread' = Append(segments, active)
    BY <1>14 DEF Open, Legible
  <2>2. /\ DOMAIN unread' = 1..(Len(segments) + 1)
        /\ \A n \in 1..Len(segments) : unread'[n] = segments[n]
        /\ unread'[Len(segments) + 1] = active
        /\ DOMAIN segments = 1..Len(segments) /\ Len(segments) \in Nat
    BY <1>q, <2>1, AppendProperties, LenProperties
  <2>3. \A n \in DOMAIN unread' : Readable(unread'[n])
    BY <2>1, <2>2 DEF Legible
  <2> QED  BY <1>14, <2>1, <2>3 DEF Legible, Open, disk
<1>15. CASE ReplayRecord
  <2>1. PICK r \in ReadRecord(mem, Head(unread), now) :
          /\ unread' = [unread EXCEPT ![1] = r.rest]
          /\ pc' = IF r.ok THEN pc ELSE "failed"
    BY <1>15 DEF ReplayRecord
  <2>2. pc = "recover" /\ unread # << >> /\ Head(unread) # << >>
    BY <1>15 DEF ReplayRecord
  <2>3. Head(unread) \in Log /\ Head(unread) = unread[1] /\ 1 \in DOMAIN unread
    BY <1>q, <2>2, HeadTailProperties, EmptySeq, LenProperties
  <2>4. r.ok = TRUE /\ Readable(r.rest)
    BY <1>q, <2>2, <2>3, ReadsOn DEF Legible
  <2>5. \A n \in DOMAIN unread' : Readable(unread'[n])
    BY <2>1, <2>2, <2>3, <2>4 DEF Legible
  <2> QED  BY <1>15, <2>1, <2>2, <2>4, <2>5 DEF Legible, ReplayRecord, disk
<1>16. CASE EndOfFile
  <2>1. /\ DOMAIN unread' = 1..(Len(unread) - 1)
        /\ \A n \in DOMAIN unread' : unread'[n] = unread[n + 1]
        /\ DOMAIN unread = 1..Len(unread) /\ Len(unread) \in Nat
    BY <1>16, <1>q, HeadTailProperties, LenProperties DEF EndOfFile
  <2>2. \A n \in DOMAIN unread' : n + 1 \in DOMAIN unread
    BY <2>1
  <2> QED  BY <1>16, <2>1, <2>2 DEF Legible, EndOfFile, disk
<1>17. CASE Recovered
  BY <1>17 DEF Legible, Recovered, disk
<1>18. CASE UNCHANGED vars
  BY <1>18 DEF Legible, vars, process, disk
<1> QED
  BY <1>1, <1>2, <1>3, <1>4, <1>5, <1>6, <1>7, <1>8, <1>9, <1>10, <1>11,
     <1>12, <1>13, <1>14, <1>15, <1>16, <1>17, <1>18 DEF Next, Recovery, FileStep

-----------------------------------------------------------------------------
(* No accepted job is lost.                                                *)

(* The jobs the disk must hold: those accepted, and the one being enqueued *)
(* once its record is written.                                             *)
Due ==
  accepted \cup
  IF pc \in {"apply", "rotate", "truncate", "write", "delete"} /\ op.op = "Enqueue"
  THEN {op.id} ELSE {}

(* Where they are.  Memory has them while calls are served, the job being  *)
(* enqueued from the rotation on.  The disk has them but while the         *)
(* snapshot is rewritten; by the time the segments are deleted and wal.log *)
(* is emptied they are in the snapshot itself.  In recovery each is in     *)
(* memory already or in what is still to be read.                          *)
Kept ==
  /\ Serving => accepted \subseteq Known(mem)
  /\ pc \in {"rotate", "truncate", "write", "delete"} => Due \subseteq Known(mem)
  /\ pc # "write" => Due \subseteq OnDisk
  /\ pc = "delete" => Due \subseteq Known(SnapshotQueue)
  /\ pc = "recover" => accepted \subseteq Known(mem) \cup EnqueuedIn(unread)

(* At first no job is due.                                                 *)
LEMMA InitKept == Init => Kept
BY DEF Init, Kept, Due, NoOp, Serving

(* A step that leaves the files alone leaves what they hold.               *)
LEMMA DiskKept ==
  ASSUME UNCHANGED disk
  PROVE  OnDisk' = OnDisk /\ SnapshotQueue' = SnapshotQueue
BY DEF disk, OnDisk, SnapshotQueue

(* Every step keeps the jobs due where Kept says they are.                 *)
LEMMA StepKept == TypeOK /\ Legible /\ Legible' /\ CleanFaults /\ Kept /\ [Next]_vars => Kept'
<1> SUFFICES ASSUME TypeOK, Legible, Legible', CleanFaults, Kept, [Next]_vars
             PROVE  Kept'
  OBVIOUS
<1>q. /\ mem \in QueueValue /\ now \in Nat
      /\ active \in Log /\ segments \in Seq(Log) /\ unread \in Seq(Log)
      /\ op \in Event \cup {NoOp}
  BY DEF TypeOK
<1>e. << >> \in Log /\ Enqueued(<< >>) = {} /\ EnqueuedIn(<< >>) = {}
  BY EmptySeq DEF Log, Enqueued, EnqueuedIn
<1>1. CASE Call
  <2>1. /\ pc = "idle" /\ pc' \in {"append", "truncate"}
        /\ pc' = "truncate" => op' = NoOp
        /\ UNCHANGED <<mem, disk, accepted>>
    BY <1>1 DEF Call, BeginEnqueue, BeginDequeue, BeginAck, BeginNack, Begin, BeginCompact,
       history
  <2>2. Due = accepted /\ Due' = accepted'
    BY <2>1 DEF Due, NoOp
  <2> QED  BY <2>1, <2>2, DiskKept DEF Kept, Serving
<1>2. CASE AppendRecord
  <2>1. /\ pc = "append" /\ pc' = "apply" /\ op \in Event
        /\ active' = Append(active, Whole(op))
        /\ UNCHANGED <<mem, op, snapshot, segments, accepted>>
    BY <1>2 DEF AppendRecord, TypeOK, history
  <2>2. Whole(op) \in Record /\ Whole(op).whole /\ Whole(op).event = op
    BY <2>1, RecordTyped DEF Whole
  <2>3. Enqueued(active) \subseteq Enqueued(active')
    BY <1>q, <2>1, <2>2, EnqueuedAppend
  <2>4. op.op = "Enqueue" => op.id \in Enqueued(active')
    BY <1>q, <2>1, <2>2, EnqueuedAppend
  <2>5. OnDisk \subseteq OnDisk'
    BY <2>1, <2>3 DEF OnDisk, SnapshotQueue
  <2>6. op.op = "Enqueue" => op.id \in OnDisk'
    BY <2>4 DEF OnDisk
  <2>7. accepted \subseteq OnDisk /\ accepted \subseteq Known(mem)
    BY <2>1 DEF Kept, Due, Serving
  <2>8. Due' \subseteq OnDisk'
    BY <2>1, <2>5, <2>6, <2>7 DEF Due
  <2> QED  BY <2>1, <2>7, <2>8 DEF Kept, Serving
<1>3. CASE ApplyEvent
  <2>1. /\ pc = "apply" /\ op \in Event /\ mem' = Apply(mem, op, now)
        /\ (pc' = "idle" /\ op' = NoOp) \/ (pc' = "rotate" /\ op' = op)
        /\ UNCHANGED <<disk, accepted>>
    BY <1>3 DEF ApplyEvent, TypeOK, history
  <2>2. /\ Known(mem) \subseteq Known(mem')
        /\ op.op = "Enqueue" => op.id \in Known(mem')
    BY <1>q, <2>1, ApplyKnows
  <2>3. accepted \subseteq Known(mem) /\ Due \subseteq OnDisk
    BY <2>1 DEF Kept, Serving
  <2>4. Due' \subseteq Due /\ Due' \subseteq Known(mem') /\ accepted' \subseteq Known(mem')
    BY <2>1, <2>2, <2>3 DEF Due, NoOp
  <2> QED  BY <2>1, <2>3, <2>4, DiskKept DEF Kept
<1>4. CASE SkipRotation
  <2>1. /\ pc = "rotate" /\ pc' = "idle" /\ accepted' = Due
        /\ UNCHANGED <<mem, disk>>
    BY <1>4 DEF SkipRotation, Return, Due
  <2>2. Due \subseteq Known(mem) /\ Due \subseteq OnDisk /\ Due' = accepted'
    BY <2>1 DEF Kept, Due
  <2> QED  BY <2>1, <2>2, DiskKept DEF Kept
<1>5. CASE RenameActive
  <2>1. /\ pc = "rotate" /\ pc' = "truncate"
        /\ segments' = Append(segments, active) /\ active' = << >>
        /\ UNCHANGED <<mem, op, snapshot, accepted>>
    BY <1>5 DEF RenameActive, history
  <2>2. Due' = Due /\ OnDisk \subseteq OnDisk'
    BY <1>q, <2>1, FilesAppend DEF Due, OnDisk, SnapshotQueue
  <2> QED  BY <2>1, <2>2 DEF Kept, Serving
<1>6. CASE TruncateSnapshot
  <2>1. /\ pc = "truncate" /\ pc' = "write"
        /\ UNCHANGED <<mem, op, accepted>>
    BY <1>6 DEF TruncateSnapshot, history
  <2>2. Due' = Due
    BY <2>1 DEF Due
  <2> QED  BY <2>1, <2>2 DEF Kept, Serving
<1>7. CASE WriteSnapshot
  <2>1. /\ pc = "write" /\ pc' = "delete" /\ SnapshotQueue' = mem
        /\ UNCHANGED <<mem, op, accepted>>
    BY <1>7 DEF WriteSnapshot, history, SnapshotQueue
  <2>2. Due' = Due /\ Known(SnapshotQueue') \subseteq OnDisk'
    BY <2>1 DEF Due, OnDisk
  <2> QED  BY <2>1, <2>2 DEF Kept, Serving
<1>8. CASE DeleteSegment
  <2>1. pc = "delete" /\ UNCHANGED <<mem, pc, op, snapshot, accepted>>
    BY <1>8 DEF DeleteSegment, process, history
  <2>2. /\ Due' = Due /\ SnapshotQueue' = SnapshotQueue
        /\ Known(SnapshotQueue') \subseteq OnDisk'
    BY <2>1 DEF Due, OnDisk, SnapshotQueue
  <2> QED  BY <2>1, <2>2 DEF Kept, Serving
<1>9. CASE ResetActive
  <2>1. /\ pc = "delete" /\ pc' = "idle" /\ accepted' = Due
        /\ UNCHANGED <<mem, snapshot>>
    BY <1>9 DEF ResetActive, Return, Due
  <2>2. /\ Due' = accepted' /\ SnapshotQueue' = SnapshotQueue
        /\ Known(SnapshotQueue') \subseteq OnDisk'
    BY <2>1 DEF Due, OnDisk, SnapshotQueue
  <2> QED  BY <2>1, <2>2 DEF Kept
<1>10. CASE PromoteReady
  <2>1. /\ pc = "idle" /\ UNCHANGED <<pc, op, disk, accepted>>
        /\ \E s \in HeapOrders(Ready(mem, now)) : mem' = Promote(mem, s)
    BY <1>10 DEF PromoteReady, history
  <2>2. Known(mem) \subseteq Known(mem')
    BY <1>q, <2>1, PromoteKnows
  <2>3. Due' = Due
    BY <2>1 DEF Due
  <2> QED  BY <2>1, <2>2, <2>3, DiskKept DEF Kept, Serving
<1>11. CASE Tick
  <2>1. UNCHANGED <<mem, pc, op, unread, disk, accepted>>
    BY <1>11 DEF Tick, process, history
  <2> QED  BY <2>1, DiskKept DEF Kept, Due, Serving
<1>12. CASE Crash
  <2>1. /\ pc # "write" /\ pc' = "down" /\ op' = NoOp
        /\ UNCHANGED <<snapshot, segments, accepted>>
    BY <1>12 DEF Crash, CleanFaults, history
  <2>2. Enqueued(active) \subseteq Enqueued(active')
    <3>1. CASE pc = "append"
      <4>1. active' = active \/ active' = Append(active, Torn(op))
        BY <1>12, <3>1 DEF Crash, Unfinished
      <4>2. Torn(op) \in Record
        BY <3>1, RecordTyped DEF TypeOK
      <4> QED  BY <1>q, <4>1, <4>2, EnqueuedAppend
    <3>2. CASE pc # "append"
      BY <1>12, <3>2 DEF Crash
    <3> QED  BY <3>1, <3>2
  <2>3. OnDisk \subseteq OnDisk'
    BY <2>1, <2>2 DEF OnDisk, SnapshotQueue
  <2>4. Due' = accepted /\ accepted \subseteq OnDisk
    BY <2>1 DEF Kept, Due
  <2> QED  BY <2>1, <2>3, <2>4 DEF Kept, Serving
<1>13. CASE IoError
  <2>1. /\ pc # "write" /\ pc' = "idle" /\ op' = NoOp
        /\ pc \in {"append", "rotate", "truncate", "delete"}
        /\ UNCHANGED <<mem, snapshot, segments, accepted>>
    BY <1>13 DEF IoError, CleanFaults, history
  <2>2. accepted \subseteq OnDisk /\ accepted \subseteq Known(mem)
    BY <2>1 DEF Kept, Due, Serving
  <2>3. CASE pc = "append"
    <3>1. active' \in {active, Append(active, Torn(op)), Append(active, Whole(op))}
      BY <1>13, <2>3 DEF IoError, Unfinished
    <3>2. Torn(op) \in Record /\ Whole(op) \in Record
      BY <2>3, RecordTyped DEF TypeOK
    <3>3. Enqueued(active) \subseteq Enqueued(active')
      BY <1>q, <3>1, <3>2, EnqueuedAppend
    <3> QED  BY <2>1, <2>2, <3>3 DEF Kept, Due, NoOp, Serving, OnDisk, SnapshotQueue
  <2>4. CASE pc = "delete"
    <3>1. accepted \subseteq Known(SnapshotQueue)
      BY <2>4 DEF Kept, Due
    <3> QED  BY <2>1, <2>2, <3>1 DEF Kept, Due, NoOp, Serving, OnDisk, SnapshotQueue
  <2>5. CASE pc \in {"rotate", "truncate"}
    <3>1. UNCHANGED active
      BY <1>13, <2>5 DEF IoError
    <3> QED  BY <2>1, <2>2, <3>1 DEF Kept, Due, NoOp, Serving, OnDisk, SnapshotQueue
  <2> QED  BY <2>1, <2>3, <2>4, <2>5
<1>14. CASE Open
  <2>1. /\ pc = "down" /\ pc' = "recover" /\ mem' = SnapshotQueue
        /\ unread' = Append(segments, active)
        /\ UNCHANGED <<op, disk, accepted>>
    BY <1>14 DEF Open, Legible, history
  <2>2. accepted \subseteq OnDisk /\ Due' = accepted
    BY <2>1 DEF Kept, Due
  <2>3. OnDisk \subseteq Known(mem') \cup EnqueuedIn(unread')
    BY <1>q, <2>1, FilesAppend DEF OnDisk
  <2> QED  BY <2>1, <2>2, <2>3, DiskKept DEF Kept, Serving
<1>15. CASE ReplayRecord
  <2>1. PICK r \in ReadRecord(mem, Head(unread), now) :
          /\ mem' = r.queue
          /\ unread' = [unread EXCEPT ![1] = r.rest]
          /\ pc' = IF r.ok THEN pc ELSE "failed"
    BY <1>15 DEF ReplayRecord
  <2>2. /\ pc = "recover" /\ unread # << >> /\ Head(unread) # << >>
        /\ UNCHANGED <<op, disk, accepted>>
    BY <1>15 DEF ReplayRecord, history
  <2>3. Head(unread) \in Log /\ Head(unread) = unread[1] /\ 1 \in DOMAIN unread
    BY <1>q, <2>2, HeadTailProperties, EmptySeq, LenProperties
  <2>4. Readable(Head(unread))
    BY <2>2, <2>3 DEF Legible
  <2>5. /\ r.ok = TRUE
        /\ Known(mem) \subseteq Known(r.queue)
        /\ Enqueued(Head(unread)) \ Enqueued(r.rest) \subseteq Known(r.queue)
    BY <1>q, <2>2, <2>3, <2>4, ReadsOn
  <2>6. r.rest \in Log
    BY <1>q, <2>2, <2>3, ReadRecordTyped
  <2>7. EnqueuedIn(unread) \subseteq EnqueuedIn(unread') \cup Known(mem')
    BY <1>q, <2>1, <2>2, <2>5, <2>6, FilesExcept
  <2>8. accepted \subseteq OnDisk /\ Due' = accepted
    BY <2>1, <2>2, <2>5 DEF Kept, Due
  <2> QED  BY <2>1, <2>2, <2>5, <2>7, <2>8, DiskKept DEF Kept, Serving
<1>16. CASE EndOfFile
  <2>1. /\ pc = "recover" /\ unread # << >> /\ Head(unread) = << >>
        /\ unread' = Tail(unread)
        /\ UNCHANGED <<mem, pc, op, disk, accepted>>
    BY <1>16 DEF EndOfFile, history
  <2>2. EnqueuedIn(unread) \subseteq EnqueuedIn(unread')
    BY <1>q, <1>e, <2>1, FilesTail
  <2>3. Due' = Due
    BY <2>1 DEF Due
  <2> QED  BY <2>1, <2>2, <2>3, DiskKept DEF Kept, Serving
<1>17. CASE Recovered
  <2>1. /\ pc = "recover" /\ pc' = "idle" /\ unread = << >>
        /\ UNCHANGED <<mem, op, disk, accepted>>
    BY <1>17 DEF Recovered, history
  <2>2. Due' = accepted /\ accepted \subseteq OnDisk
    BY <2>1 DEF Kept, Due
  <2> QED  BY <1>e, <2>1, <2>2, DiskKept DEF Kept, Serving
<1>18. CASE UNCHANGED vars
  <2>1. UNCHANGED <<mem, pc, op, unread, disk, accepted>>
    BY <1>18 DEF vars, process, history
  <2> QED  BY <2>1, DiskKept DEF Kept, Due, Serving
<1> QED
  BY <1>1, <1>2, <1>3, <1>4, <1>5, <1>6, <1>7, <1>8, <1>9, <1>10, <1>11,
     <1>12, <1>13, <1>14, <1>15, <1>16, <1>17, <1>18 DEF Next, Recovery, FileStep

(* A restart finds nothing on disk it cannot read: a torn last record is   *)
(* skipped by replay_reader_into_queue, wherever the process was killed    *)
(* outside the rewriting of the snapshot.                                  *)
THEOREM PersistentOpens ==
  ASSUME CleanFaults
  PROVE  Spec => []OpenSucceeds
<1>1. Legible => OpenSucceeds
  BY DEF Legible, OpenSucceeds
<1> QED
  BY <1>1, InitLegible, StepLegible, PersistentTyped, PTL DEF Spec

(* A job whose enqueue returned Ok is in the queue whenever calls are      *)
(* served, whatever calls, rotations, compactions, I/O errors, crashes and *)
(* restarts came in between.                                               *)
THEOREM PersistentLosesNothing ==
  ASSUME CleanFaults
  PROVE  Spec => []NoAcceptedJobLost
<1>1. Kept => NoAcceptedJobLost
  BY DEF Kept, NoAcceptedJobLost
<1> QED
  BY <1>1, InitLegible, StepLegible, InitKept, StepKept, PersistentTyped, PTL DEF Spec

-----------------------------------------------------------------------------
(* No job is in the queue twice.                                           *)

(* The fault model: as CleanFaults, and nothing fails between the writing  *)
(* of the snapshot and the deletion of the log it replaces.                *)
UniqueFaults ==
  /\ CleanFaults
  /\ "delete" \notin CrashPoints
  /\ "delete" \notin IoFaults

(* The jobs whose Enqueue records, whole or not, a file or some files have.*)
Recorded(log) ==
  {j \in Job : \E i \in DOMAIN log : NewJob(log[i].event) = {j}}

RecordedIn(files) ==
  {j \in Job : \E n \in DOMAIN files : j \in Recorded(files[n])}

Recordings == RecordedIn(segments) \cup Recorded(active)

(* No two Enqueue records are of the same job.                             *)
LogOnce(log) ==
  \A i, k \in DOMAIN log :
     i # k => NewJob(log[i].event) \cap NewJob(log[k].event) = {}

FilesOnce(files) ==
  /\ \A n \in DOMAIN files : LogOnce(files[n])
  /\ \A n, m \in DOMAIN files : n # m => Recorded(files[n]) \cap Recorded(files[m]) = {}

(* A record put at the end adds its job, once if the log did not have it.  *)
LEMMA RecordedAppend ==
  ASSUME NEW log \in Log, NEW r \in Record
  PROVE  /\ Recorded(Append(log, r)) = Recorded(log) \cup NewJob(r.event)
         /\ LogOnce(log) /\ NewJob(r.event) \cap Recorded(log) = {} => LogOnce(Append(log, r))
<1> DEFINE new == Append(log, r)
<1>1. log \in Seq(Record) /\ Len(log) \in Nat /\ DOMAIN log = 1..Len(log)
  BY LenProperties DEF Log
<1>2. /\ DOMAIN new = 1..(Len(log) + 1)
      /\ \A i \in 1..Len(log) : new[i] = log[i]
      /\ new[Len(log) + 1] = r
  BY <1>1, AppendProperties, LenProperties DEF Log
<1> HIDE DEF new
<1>3. \A i \in DOMAIN log : log[i] \in Record
  BY <1>1
<1>4. r.event \in Event /\ \A i \in DOMAIN log : log[i].event \in Event
  BY <1>3 DEF Record
<1>5. Recorded(new) = Recorded(log) \cup NewJob(r.event)
  <2>1. Recorded(log) \subseteq Recorded(new)
    BY <1>1, <1>2 DEF Recorded
  <2>2. NewJob(r.event) \subseteq Recorded(new)
    <3>1. Len(log) + 1 \in DOMAIN new
      BY <1>1, <1>2
    <3> QED  BY <1>2, <1>4, <3>1, NewJobType DEF Recorded
  <2>3. ASSUME NEW j \in Recorded(new)
        PROVE  j \in Recorded(log) \cup NewJob(r.event)
    <3>1. j \in Job
      BY DEF Recorded
    <3>2. PICK i \in DOMAIN new : NewJob(new[i].event) = {j}
      BY DEF Recorded
    <3>3. CASE i \in DOMAIN log
      BY <1>1, <1>2, <3>1, <3>2, <3>3 DEF Recorded
    <3>4. CASE i \notin DOMAIN log
      <4>1. i = Len(log) + 1
        BY <1>1, <1>2, <3>4
      <4> QED  BY <1>2, <3>2, <4>1
    <3> QED  BY <3>3, <3>4
  <2> QED  BY <2>1, <2>2, <2>3
<1>6. ASSUME LogOnce(log), NewJob(r.event) \cap Recorded(log) = {}
      PROVE  LogOnce(new)
  <2>1. \A i \in DOMAIN log : NewJob(log[i].event) \subseteq Recorded(log)
    BY <1>4, NewJobType DEF Recorded
  <2>2. \A i \in DOMAIN new : i \in DOMAIN log \/ i = Len(log) + 1
    BY <1>1, <1>2
  <2>3. \A i \in DOMAIN log : NewJob(log[i].event) \cap NewJob(r.event) = {}
    BY <1>6, <2>1
  <2> SUFFICES ASSUME NEW i \in DOMAIN new, NEW k \in DOMAIN new, i # k
               PROVE  NewJob(new[i].event) \cap NewJob(new[k].event) = {}
    BY DEF LogOnce
  <2>4. CASE i \in DOMAIN log /\ k \in DOMAIN log
    BY <1>1, <1>2, <1>6, <2>4 DEF LogOnce
  <2>5. CASE i \in DOMAIN log /\ k = Len(log) + 1
    <3>1. new[i] = log[i] /\ new[k] = r
      BY <1>1, <1>2, <2>5
    <3> QED  BY <2>3, <2>5, <3>1
  <2>6. CASE i = Len(log) + 1 /\ k \in DOMAIN log
    <3>1. new[k] = log[k] /\ new[i] = r
      BY <1>1, <1>2, <2>6
    <3> QED  BY <2>3, <2>6, <3>1
  <2> QED  BY <2>2, <2>4, <2>5, <2>6
<1> QED  BY <1>5, <1>6 DEF new

(* Reading the first record leaves the others, without its job.            *)
LEMMA RecordedTail ==
  ASSUME NEW log \in Log, log # << >>, LogOnce(log)
  PROVE  /\ LogOnce(Tail(log))
         /\ Recorded(Tail(log)) \subseteq Recorded(log)
         /\ NewJob(Head(log).event) \subseteq Recorded(log)
         /\ NewJob(Head(log).event) \cap Recorded(Tail(log)) = {}
<1> DEFINE rest == Tail(log)
<1>1. log \in Seq(Record) /\ Len(log) \in Nat /\ DOMAIN log = 1..Len(log) /\ 1 \in DOMAIN log
  BY LenProperties, EmptySeq DEF Log
<1>2. /\ Head(log) = log[1]
      /\ rest \in Seq(Record)
      /\ Len(rest) = Len(log) - 1
      /\ \A i \in 1..Len(rest) : rest[i] = log[i + 1]
  BY <1>1, HeadTailProperties
<1>3. /\ \A i \in DOMAIN rest : rest[i] = log[i + 1]
      /\ \A i \in DOMAIN rest : i + 1 \in DOMAIN log /\ i + 1 # 1
      /\ \A i, k \in DOMAIN rest : i # k => i + 1 # k + 1
  BY <1>1, <1>2, LenProperties
<1> HIDE DEF rest
<1>4. log[1].event \in Event
  <2>1. log[1] \in Record
    BY <1>1
  <2> QED  BY <2>1 DEF Record
<1>5. LogOnce(rest)
  BY <1>3 DEF LogOnce
<1>6. Recorded(rest) \subseteq Recorded(log)
  BY <1>3 DEF Recorded
<1>7. NewJob(Head(log).event) \subseteq Recorded(log)
  BY <1>1, <1>2, <1>4, NewJobType DEF Recorded
<1>8. ASSUME NEW j \in Recorded(rest)
      PROVE  j \notin NewJob(Head(log).event)
  <2>1. PICK i \in DOMAIN rest : NewJob(rest[i].event) = {j}
    BY DEF Recorded
  <2>2. NewJob(log[i + 1].event) \cap NewJob(log[1].event) = {}
    BY <1>1, <1>3, <2>1 DEF LogOnce
  <2> QED  BY <1>2, <1>3, <2>1, <2>2
<1> QED  BY <1>5, <1>6, <1>7, <1>8 DEF rest

(* A file put behind others adds its jobs.                                 *)
LEMMA FilesOnceAppend ==
  ASSUME NEW files \in Seq(Log), NEW log \in Log, FilesOnce(files), LogOnce(log),
         Recorded(log) \cap RecordedIn(files) = {}
  PROVE  /\ FilesOnce(Append(files, log))
         /\ RecordedIn(Append(files, log)) = RecordedIn(files) \cup Recorded(log)
<1> DEFINE new == Append(files, log)
<1>1. Len(files) \in Nat /\ DOMAIN files = 1..Len(files)
  BY LenProperties
<1>2. /\ DOMAIN new = 1..(Len(files) + 1)
      /\ \A i \in 1..Len(files) : new[i] = files[i]
      /\ new[Len(files) + 1] = log
  BY <1>1, AppendProperties, LenProperties
<1> HIDE DEF new
<1>3. /\ \A n \in DOMAIN new : \/ n \in DOMAIN files /\ new[n] = files[n]
                               \/ n = Len(files) + 1 /\ new[n] = log
      /\ \A n \in DOMAIN files : n \in DOMAIN new /\ new[n] = files[n]
      /\ Len(files) + 1 \in DOMAIN new
  BY <1>1, <1>2
<1>4. Recorded(log) \subseteq Job /\ \A n \in DOMAIN files : Recorded(files[n]) \subseteq RecordedIn(files)
  BY DEF Recorded, RecordedIn
<1>5. RecordedIn(new) = RecordedIn(files) \cup Recorded(log)
  BY <1>2, <1>3, <1>4 DEF RecordedIn
<1>6. \A n \in DOMAIN new : LogOnce(new[n])
  BY <1>3 DEF FilesOnce
<1>7. \A n \in DOMAIN files : Recorded(files[n]) \cap Recorded(log) = {}
  BY <1>4
<1>8. \A n, m \in DOMAIN new : n # m => Recorded(new[n]) \cap Recorded(new[m]) = {}
  BY <1>3, <1>7 DEF FilesOnce
<1> QED  BY <1>5, <1>6, <1>8 DEF FilesOnce, new

(* The other files, once the first is read or deleted.                     *)
LEMMA FilesOnceTail ==
  ASSUME NEW files \in Seq(Log), files # << >>, FilesOnce(files)
  PROVE  FilesOnce(Tail(files)) /\ RecordedIn(Tail(files)) \subseteq RecordedIn(files)
<1> DEFINE rest == Tail(files)
<1>1. Len(files) \in Nat /\ DOMAIN files = 1..Len(files)
  BY LenProperties
<1>2. /\ rest \in Seq(Log)
      /\ Len(rest) = Len(files) - 1
      /\ \A i \in 1..Len(rest) : rest[i] = files[i + 1]
  BY HeadTailProperties
<1>3. /\ \A i \in DOMAIN rest : rest[i] = files[i + 1] /\ i + 1 \in DOMAIN files
      /\ \A i, k \in DOMAIN rest : i # k => i + 1 # k + 1
  BY <1>1, <1>2, LenProperties
<1> HIDE DEF rest
<1>4. FilesOnce(rest)
  BY <1>3 DEF FilesOnce
<1>5. RecordedIn(rest) \subseteq RecordedIn(files)
  BY <1>3 DEF RecordedIn
<1> QED  BY <1>4, <1>5 DEF rest

(* The files while the first is being read: what has been read of it is in *)
(* none of them any more.                                                  *)
LEMMA FilesOnceExcept ==
  ASSUME NEW files \in Seq(Log), files # << >>, FilesOnce(files),
         NEW log \in Log, LogOnce(log), Recorded(log) \subseteq Recorded(Head(files))
  PROVE  LET new == [files EXCEPT ![1] = log] IN
         /\ FilesOnce(new)
         /\ RecordedIn(new) \subseteq RecordedIn(files)
         /\ Recorded(Head(files)) \cap RecordedIn(new) \subseteq Recorded(log)
<1> DEFINE new == [files EXCEPT ![1] = log]
<1>1. DOMAIN files = 1..Len(files) /\ 1 \in DOMAIN files /\ Head(files) = files[1]
  BY LenProperties, EmptySeq, HeadTailProperties
<1>2. /\ DOMAIN new = DOMAIN files
      /\ new[1] = log
      /\ \A n \in DOMAIN files : n # 1 => new[n] = files[n]
  BY <1>1
<1> HIDE DEF new
<1>3. \A n \in DOMAIN new : LogOnce(new[n])
  BY <1>2 DEF FilesOnce
<1>4. \A n \in DOMAIN files : Recorded(new[n]) \subseteq Recorded(files[n])
  BY <1>1, <1>2
<1>5. ASSUME NEW n \in DOMAIN files, NEW m \in DOMAIN files, n # m
      PROVE  Recorded(files[n]) \cap Recorded(new[m]) = {}
  BY <1>4, <1>5 DEF FilesOnce
<1>6. FilesOnce(new)
  <2> SUFFICES ASSUME NEW n \in DOMAIN new, NEW m \in DOMAIN new, n # m
               PROVE  Recorded(new[n]) \cap Recorded(new[m]) = {}
    BY <1>3 DEF FilesOnce
  <2> QED  BY <1>2, <1>4, <1>5
<1>7. RecordedIn(new) \subseteq RecordedIn(files)
  BY <1>2, <1>4 DEF RecordedIn
<1>8. ASSUME NEW j \in Recorded(files[1]), j \in RecordedIn(new)
      PROVE  j \in Recorded(log)
  <2>1. PICK m \in DOMAIN new : j \in Recorded(new[m])
    BY <1>8 DEF RecordedIn
  <2>2. m = 1
    BY <1>1, <1>2, <1>5, <2>1
  <2> QED  BY <1>2, <2>1, <2>2
<1> QED  BY <1>1, <1>6, <1>7, <1>8 DEF new

(* Reading the next record of a readable file brings only the job that the *)
(* file has no more.                                                       *)
LEMMA ReadsOnce ==
  ASSUME NEW v, Sound(v), NEW file \in Log, file # << >>, NEW t \in Nat,
         Readable(file), LogOnce(file), Recorded(file) \cap Known(v) = {},
         NEW r \in ReadRecord(v, file, t)
  PROVE  /\ Sound(r.queue) /\ r.rest \in Log /\ LogOnce(r.rest)
         /\ Recorded(r.rest) \subseteq Recorded(file)
         /\ Known(r.queue) \subseteq Known(v) \cup (Recorded(file) \ Recorded(r.rest))
<1>1. /\ file \in Seq(Record) /\ Len(file) \in Nat /\ DOMAIN file = 1..Len(file)
      /\ 1 \in DOMAIN file /\ Head(file) = file[1] /\ Tail(file) \in Log
  BY LenProperties, EmptySeq, HeadTailProperties DEF Log
<1>2. Head(file).event \in Event
  <2>1. Head(file) \in Record
    BY <1>1
  <2> QED  BY <2>1 DEF Record
<1>3. CASE Head(file).whole
  <2>1. r = [queue |-> Apply(v, Head(file).event, t), rest |-> Tail(file), ok |-> TRUE]
    BY <1>3 DEF ReadRecord
  <2>2. NewJob(Head(file).event) \cap Known(v) = {}
    BY RecordedTail
  <2>3. Onward(v, NewJob(Head(file).event), r.queue)
    BY <1>2, <2>1, <2>2, ApplyOnward
  <2> QED  BY <1>1, <2>1, <2>3, RecordedTail DEF Onward
<1>4. CASE ~Head(file).whole
  <2>1. Len(file) = 1
    BY <1>1, <1>4 DEF Readable
  <2>2. r = [queue |-> v, rest |-> << >>, ok |-> TRUE]
    BY <1>4, <2>1 DEF ReadRecord
  <2>3. << >> \in Log /\ LogOnce(<< >>) /\ Recorded(<< >>) = {}
    BY EmptySeq DEF Log, LogOnce, Recorded
  <2> QED  BY <2>2, <2>3
<1> QED  BY <1>3, <1>4

(* Neither memory nor the snapshot has a job twice; the files record each  *)
(* enqueue once, and only of jobs that some call has tried to enqueue; but *)
(* while the log is being deleted, the snapshot has no job of the log, and *)
(* in recovery memory has no job of what is still to be read.  The job of  *)
(* an enqueue is nowhere before its record, and not in memory before it is *)
(* applied: a promotion, which no record tells of, changes none of this.   *)
OneCopy ==
  /\ NoDuplicate(mem) /\ NoDuplicate(SnapshotQueue)
  /\ Known(mem) \cup Known(SnapshotQueue) \cup Recordings \subseteq issued
  /\ LogOnce(active) /\ FilesOnce(segments)
  /\ Recorded(active) \cap RecordedIn(segments) = {}
  /\ pc # "delete" => Known(SnapshotQueue) \cap Recordings = {}
  /\ pc = "recover" =>
       /\ FilesOnce(unread) /\ RecordedIn(unread) \subseteq issued
       /\ Known(mem) \cap RecordedIn(unread) = {}
  /\ pc = "append" =>
       NewJob(op) \cap (Known(mem) \cup Known(SnapshotQueue) \cup Recordings) = {}
  /\ pc = "apply" => NewJob(op) \cap Known(mem) = {}

(* At first there is no job.                                               *)
LEMMA InitOneCopy == Init => OneCopy
<1> SUFFICES ASSUME Init PROVE OneCopy
  OBVIOUS
<1>1. /\ mem = EmptyQueue /\ pc = "down" /\ SnapshotQueue = EmptyQueue
      /\ segments = << >> /\ active = << >>
  BY DEF Init, SnapshotQueue
<1>2. Known(EmptyQueue) = {}
  BY EmptySeq DEF Known, EmptyQueue, PendingIds, ProcessingIds, IsCompleted, IsDead
<1>3. /\ LogOnce(<< >>) /\ FilesOnce(<< >>)
      /\ Recorded(<< >>) = {} /\ RecordedIn(<< >>) = {}
  BY EmptySeq DEF LogOnce, FilesOnce, Recorded, RecordedIn
<1> QED  BY <1>1, <1>2, <1>3, EmptyQueueUnique DEF OneCopy, Recordings

(* A record, whole or cut short, of the call in progress.                  *)
LEMMA AppendOneCopy ==
  ASSUME TypeOK, OneCopy, pc = "append", NEW r \in Record, r.event = op
  PROVE  /\ LogOnce(Append(active, r))
         /\ Recorded(Append(active, r)) = Recorded(active) \cup NewJob(op)
         /\ NewJob(op) \subseteq issued
<1>1. active \in Log /\ NewJob(op) \cap Recorded(active) = {} /\ LogOnce(active)
  BY DEF TypeOK, OneCopy, Recordings
<1>2. NewJob(op) \subseteq issued
  BY DEF TypeOK, NewJob
<1> QED  BY <1>1, <1>2, RecordedAppend

(* Every step leaves one copy of every job.                                *)
LEMMA StepOneCopy ==
  TypeOK /\ Legible /\ UniqueFaults /\ OneCopy /\ [Next]_vars => OneCopy'
<1> SUFFICES ASSUME TypeOK, Legible, UniqueFaults, OneCopy, [Next]_vars
             PROVE  OneCopy'
  OBVIOUS
<1>q. /\ mem \in QueueValue /\ now \in Nat /\ op \in Event \cup {NoOp}
      /\ active \in Log /\ segments \in Seq(Log) /\ unread \in Seq(Log)
      /\ Sound(mem)
  BY DEF TypeOK, OneCopy, Sound
<1>e. /\ LogOnce(<< >>) /\ FilesOnce(<< >>)
      /\ Recorded(<< >>) = {} /\ RecordedIn(<< >>) = {}
  BY EmptySeq DEF LogOnce, FilesOnce, Recorded, RecordedIn
<1>k. Known(EmptyQueue) = {} /\ NoDuplicate(EmptyQueue)
  BY EmptySeq, EmptyQueueUnique
     DEF Known, EmptyQueue, PendingIds, ProcessingIds, IsCompleted, IsDead
<1>1. CASE Call
  <2>1. /\ pc = "idle" /\ pc' \in {"append", "truncate"}
        /\ UNCHANGED <<mem, disk>>
        /\ issued \subseteq issued'
        /\ pc' = "append" => NewJob(op') \cap issued = {}
    BY <1>1 DEF Call, BeginEnqueue, BeginDequeue, BeginAck, BeginNack, Begin, BeginCompact,
                history, NewJob
  <2>2. SnapshotQueue' = SnapshotQueue /\ Recordings' = Recordings
    BY <2>1, DiskKept DEF Recordings, disk
  <2> QED  BY <2>1, <2>2 DEF OneCopy, disk
<1>2. CASE AppendRecord
  <2>1. /\ pc = "append" /\ pc' = "apply" /\ active' = Append(active, Whole(op))
        /\ UNCHANGED <<mem, op, snapshot, segments, issued>> /\ SnapshotQueue' = SnapshotQueue
    BY <1>2 DEF AppendRecord, history, SnapshotQueue
  <2>2. Whole(op) \in Record /\ Whole(op).event = op
    BY <2>1, RecordTyped DEF TypeOK, Whole
  <2> QED  BY <2>1, <2>2, AppendOneCopy DEF OneCopy, Recordings
<1>3. CASE ApplyEvent
  <2>1. /\ pc = "apply" /\ op \in Event /\ mem' = Apply(mem, op, now)
        /\ pc' \in {"idle", "rotate"}
        /\ UNCHANGED <<disk, issued>>
    BY <1>3 DEF ApplyEvent, TypeOK, history
  <2>2. Onward(mem, NewJob(op), mem')
    BY <1>q, <2>1, ApplyOnward DEF OneCopy
  <2>3. NewJob(op) \subseteq issued
    BY <2>1 DEF TypeOK, NewJob
  <2>4. SnapshotQueue' = SnapshotQueue /\ Recordings' = Recordings
    BY <2>1, DiskKept DEF Recordings, disk
  <2> QED  BY <2>1, <2>2, <2>3, <2>4 DEF OneCopy, Onward, Sound, disk
<1>4. CASE SkipRotation
  <2>1. UNCHANGED <<mem, disk, issued>> /\ pc' = "idle" /\ pc = "rotate"
    BY <1>4 DEF SkipRotation, Return
  <2>2. SnapshotQueue' = SnapshotQueue /\ Recordings' = Recordings
    BY <2>1, DiskKept DEF Recordings, disk
  <2> QED  BY <2>1, <2>2 DEF OneCopy, disk
<1>5. CASE RenameActive
  <2>1. /\ segments' = Append(segments, active) /\ active' = << >>
        /\ pc = "rotate" /\ pc' = "truncate"
        /\ UNCHANGED <<mem, snapshot, issued>> /\ SnapshotQueue' = SnapshotQueue
    BY <1>5 DEF RenameActive, history, SnapshotQueue
  <2>2. /\ FilesOnce(segments')
        /\ RecordedIn(segments') = RecordedIn(segments) \cup Recorded(active)
    BY <1>q, <2>1, FilesOnceAppend DEF OneCopy
  <2> QED  BY <1>e, <2>1, <2>2 DEF OneCopy, Recordings
<1>6. CASE TruncateSnapshot
  <2>1. /\ pc' = "write" /\ UNCHANGED <<mem, segments, active, issued>>
        /\ SnapshotQueue' = EmptyQueue
    BY <1>6 DEF TruncateSnapshot, history, SnapshotQueue
  <2> QED  BY <1>k, <2>1 DEF OneCopy, Recordings
<1>7. CASE WriteSnapshot
  <2>1. /\ pc' = "delete" /\ UNCHANGED <<mem, segments, active, issued>>
        /\ SnapshotQueue' = mem
    BY <1>7 DEF WriteSnapshot, history, SnapshotQueue
  <2> QED  BY <2>1 DEF OneCopy, Recordings
<1>8. CASE DeleteSegment
  <2>1. /\ pc = "delete" /\ pc' = pc /\ segments # << >> /\ segments' = Tail(segments)
        /\ UNCHANGED <<mem, snapshot, active, issued>> /\ SnapshotQueue' = SnapshotQueue
    BY <1>8 DEF DeleteSegment, history, process, SnapshotQueue
  <2>2. FilesOnce(segments') /\ RecordedIn(segments') \subseteq RecordedIn(segments)
    BY <1>q, <2>1, FilesOnceTail DEF OneCopy
  <2> QED  BY <2>1, <2>2 DEF OneCopy, Recordings
<1>9. CASE ResetActive
  <2>1. /\ pc' = "idle" /\ segments = << >> /\ active' = << >>
        /\ UNCHANGED <<mem, snapshot, segments, issued>> /\ SnapshotQueue' = SnapshotQueue
    BY <1>9 DEF ResetActive, Return, SnapshotQueue
  <2> QED  BY <1>e, <2>1 DEF OneCopy, Recordings
<1>10. CASE PromoteReady
  <2>1. /\ pc = "idle" /\ pc' = pc /\ UNCHANGED <<disk, issued>>
        /\ \E s \in HeapOrders(Ready(mem, now)) : mem' = Promote(mem, s)
    BY <1>10 DEF PromoteReady, history
  <2>2. NoDuplicate(mem') /\ Known(mem') \subseteq Known(mem)
    BY <1>q, <2>1, PromoteOnward DEF Sound
  <2>3. SnapshotQueue' = SnapshotQueue /\ Recordings' = Recordings
    BY <2>1, DiskKept DEF Recordings, disk
  <2> QED  BY <2>1, <2>2, <2>3 DEF OneCopy, disk
<1>11. CASE Tick
  <2>1. UNCHANGED <<mem, pc, op, unread, disk, issued>>
    BY <1>11 DEF Tick, process, history
  <2>2. SnapshotQueue' = SnapshotQueue /\ Recordings' = Recordings
    BY <2>1, DiskKept DEF Recordings, disk
  <2> QED  BY <2>1, <2>2 DEF OneCopy, disk
<1>a. ASSUME pc # "delete", UNCHANGED <<snapshot, segments, issued>>,
             \/ active' = active
             \/ pc = "append" /\ active' = Append(active, Whole(op))
             \/ pc = "append" /\ active' = Append(active, Torn(op))
      PROVE  /\ LogOnce(active') /\ SnapshotQueue' = SnapshotQueue
             /\ Recordings' \subseteq issued
             /\ Known(SnapshotQueue) \cap Recordings' = {}
             /\ Recorded(active') \cap RecordedIn(segments) = {}
  <2>1. SnapshotQueue' = SnapshotQueue
    BY <1>a DEF SnapshotQueue
  <2>2. CASE active' = active
    BY <1>a, <2>1, <2>2 DEF OneCopy, Recordings
  <2>3. CASE active' # active
    <3>1. PICK r \in Record : r.event = op /\ active' = Append(active, r)
      <4>1. op \in Event
        BY <1>a, <2>3 DEF TypeOK
      <4> QED  BY <1>a, <2>3, <4>1 DEF Whole, Torn, Record
    <3> QED  BY <1>a, <2>1, <2>3, <3>1, AppendOneCopy DEF OneCopy, Recordings
  <2> QED  BY <2>2, <2>3
<1>12. CASE Crash
  <2>1. /\ pc \in CrashPoints /\ pc' = "down" /\ mem' = EmptyQueue
        /\ UNCHANGED <<snapshot, segments, issued>>
        /\ \/ active' = active
           \/ pc = "append" /\ active' = Append(active, Torn(op))
    BY <1>12 DEF Crash, history, Unfinished
  <2>2. pc # "delete"
    BY <2>1 DEF UniqueFaults
  <2> QED  BY <1>a, <1>k, <2>1, <2>2 DEF OneCopy
<1>13. CASE IoError
  <2>1. /\ pc # "delete" /\ pc' = "idle"
        /\ UNCHANGED <<mem, snapshot, segments, issued>>
        /\ \/ active' = active
           \/ pc = "append" /\ active' = Append(active, Whole(op))
           \/ pc = "append" /\ active' = Append(active, Torn(op))
    BY <1>13 DEF IoError, UniqueFaults, history, Unfinished
  <2> QED  BY <1>a, <2>1 DEF OneCopy
<1>14. CASE Open
  <2>1. /\ pc = "down" /\ pc' = "recover" /\ mem' = SnapshotQueue
        /\ unread' = Append(segments, active)
        /\ UNCHANGED <<disk, issued>>
    BY <1>14 DEF Open, Legible, history
  <2>2. FilesOnce(unread') /\ RecordedIn(unread') = Recordings
    BY <1>q, <2>1, FilesOnceAppend DEF OneCopy, Recordings
  <2>3. SnapshotQueue' = SnapshotQueue /\ Recordings' = Recordings
    BY <2>1, DiskKept DEF Recordings, disk
  <2> QED  BY <2>1, <2>2, <2>3 DEF OneCopy, disk
<1>15. CASE ReplayRecord
  <2>1. PICK r \in ReadRecord(mem, Head(unread), now) :
          /\ mem' = r.queue
          /\ unread' = [unread EXCEPT ![1] = r.rest]
          /\ pc' = IF r.ok THEN pc ELSE "failed"
    BY <1>15 DEF ReplayRecord
  <2>2. /\ pc = "recover" /\ unread # << >> /\ Head(unread) # << >>
        /\ UNCHANGED <<op, disk, issued>>
    BY <1>15 DEF ReplayRecord, history
  <2>3. Head(unread) \in Log /\ Head(unread) = unread[1] /\ 1 \in DOMAIN unread
    BY <1>q, <2>2, HeadTailProperties, EmptySeq, LenProperties
  <2>4. /\ Readable(Head(unread)) /\ LogOnce(Head(unread))
        /\ Recorded(Head(unread)) \subseteq RecordedIn(unread)
        /\ FilesOnce(unread) /\ RecordedIn(unread) \subseteq issued
        /\ Known(mem) \cap RecordedIn(unread) = {}
    BY <2>2, <2>3 DEF Legible, OneCopy, FilesOnce, RecordedIn, Recorded
  <2>5. /\ Sound(mem') /\ r.rest \in Log /\ LogOnce(r.rest)
        /\ Recorded(r.rest) \subseteq Recorded(Head(unread))
        /\ Known(mem') \subseteq Known(mem) \cup (Recorded(Head(unread)) \ Recorded(r.rest))
    BY <1>q, <2>1, <2>2, <2>3, <2>4, ReadsOnce
  <2>6. /\ FilesOnce(unread') /\ RecordedIn(unread') \subseteq RecordedIn(unread)
        /\ Recorded(Head(unread)) \cap RecordedIn(unread') \subseteq Recorded(r.rest)
    BY <1>q, <2>1, <2>2, <2>4, <2>5, FilesOnceExcept
  <2>7. SnapshotQueue' = SnapshotQueue /\ Recordings' = Recordings
    BY <2>2, DiskKept DEF Recordings, disk
  <2>8. pc' \in {"recover", "failed"}
    BY <2>1, <2>2
  <2>9. Known(mem') \subseteq issued /\ Known(mem') \cap RecordedIn(unread') = {}
    BY <2>4, <2>5, <2>6 DEF OneCopy
  <2> QED  BY <2>2, <2>4, <2>5, <2>6, <2>7, <2>8, <2>9 DEF OneCopy, Sound, disk
<1>16. CASE EndOfFile
  <2>1. /\ pc = "recover" /\ pc' = pc /\ unread # << >> /\ unread' = Tail(unread)
        /\ UNCHANGED <<mem, disk, issued>>
    BY <1>16 DEF EndOfFile, history
  <2>2. FilesOnce(unread') /\ RecordedIn(unread') \subseteq RecordedIn(unread)
    BY <1>q, <2>1, FilesOnceTail DEF OneCopy
  <2>3. SnapshotQueue' = SnapshotQueue /\ Recordings' = Recordings
    BY <2>1, DiskKept DEF Recordings, disk
  <2> QED  BY <2>1, <2>2, <2>3 DEF OneCopy, disk
<1>17. CASE Recovered
  <2>1. pc' = "idle" /\ pc = "recover" /\ UNCHANGED <<mem, disk, issued>>
    BY <1>17 DEF Recovered, history
  <2>2. SnapshotQueue' = SnapshotQueue /\ Recordings' = Recordings
    BY <2>1, DiskKept DEF Recordings, disk
  <2> QED  BY <2>1, <2>2 DEF OneCopy, disk
<1>18. CASE UNCHANGED vars
  <2>1. UNCHANGED <<mem, pc, op, unread, disk, issued>>
    BY <1>18 DEF vars, process, history
  <2>2. SnapshotQueue' = SnapshotQueue /\ Recordings' = Recordings
    BY <2>1, DiskKept DEF Recordings, disk
  <2> QED  BY <2>1, <2>2 DEF OneCopy, disk
<1> QED
  BY <1>1, <1>2, <1>3, <1>4, <1>5, <1>6, <1>7, <1>8, <1>9, <1>10, <1>11,
     <1>12, <1>13, <1>14, <1>15, <1>16, <1>17, <1>18 DEF Next, Recovery, FileStep

(* No restart puts a job into the queue twice, whatever is enqueued for    *)
(* later, promoted unlogged, torn, or logged by a call that failed.        *)
THEOREM PersistentDuplicatesNothing ==
  ASSUME UniqueFaults
  PROVE  Spec => []NoDuplicateJob
<1>1. OneCopy => NoDuplicateJob
  BY DEF OneCopy, NoDuplicateJob
<1>2. CleanFaults
  BY DEF UniqueFaults
<1> QED
  BY <1>1, <1>2, InitLegible, StepLegible, InitOneCopy, StepOneCopy, PersistentTyped,
     PTL DEF Spec

-----------------------------------------------------------------------------
(* What one event does to the queue in a history without schedules.        *)

(* No job is enqueued for later: a promotion is not logged, so only then   *)
(* can the log say everything that happened to the queue.                  *)
NoSchedules == \A j \in Job : ScheduledAt[j] = 0

(* Without schedules it does not matter when an event is applied: replay   *)
(* does what the call did.                                                 *)
LEMMA ApplyTimeless ==
  ASSUME NoSchedules, NEW v, NEW e \in Event, NEW t \in Nat
  PROVE  Apply(v, e, t) = Apply(v, e, 0)
<1>1. e.id \in Job
  BY DEF Event
<1>2. ~(ScheduledAt[e.id] > t) /\ ~(ScheduledAt[e.id] > 0)
  BY <1>1 DEF NoSchedules
<1>3. Enqueue(v, e.id, t) = Enqueue(v, e.id, 0)
  BY <1>2 DEF Enqueue
<1> QED  BY <1>3 DEF Apply

(* A sound queue without schedules.                                        *)
Settled(v) == Sound(v) /\ v.scheduled = {}

(* An event that enqueues no known job leaves it one.                      *)
LEMMA ApplySettled ==
  ASSUME NoSchedules, NEW v, Settled(v), NEW e \in Event,
         NewJob(e) \cap Known(v) = {}
  PROVE  Settled(Apply(v, e, 0)) /\ Onward(v, NewJob(e), Apply(v, e, 0))
<1> DEFINE w == Apply(v, e, 0)
<1>1. v \in QueueValue /\ Sound(v) /\ v.scheduled = {} /\ e.id \in Job /\ 0 \in Nat
  BY DEF Settled, Sound, Event
<1>2. Onward(v, NewJob(e), w)
  BY <1>1, ApplyOnward
<1>3. w.scheduled = {}
  <2>1. CASE e.op = "Enqueue"
    <3>1. w = [v EXCEPT !.pending = Append(v.pending, [id |-> e.id, attempts |-> 0])]
      BY <1>1, <2>1 DEF NoSchedules, Apply, Enqueue
    <3>2. \A x : [v EXCEPT !.pending = x].scheduled = v.scheduled
      BY <1>1, QueueFields
    <3> QED  BY <1>1, <3>1, <3>2
  <2>2. CASE e.op = "Dequeue"
    <3>1. w = DequeueById(v, e.id)
      BY <2>2 DEF Apply
    <3>2. \A i \in DOMAIN v.pending : MoveToProcessing(v, i).scheduled = v.scheduled
      BY <1>1, MoveEffect
    <3> QED  BY <1>1, <3>1, <3>2, DequeueByIdIsMove
  <2>3. CASE e.op = "Ack"
    <3>1. w = Ack(v, e.id)
      BY <2>3 DEF Apply
    <3>2. CASE IsProcessing(v, e.id)
      <4>1. Ack(v, e.id).scheduled = v.scheduled
        BY <1>1, <3>2, AckFields
      <4> QED  BY <1>1, <3>1, <4>1
    <3>3. CASE ~IsProcessing(v, e.id)
      BY <1>1, <3>1, <3>3 DEF Ack
    <3> QED  BY <3>2, <3>3
  <2>4. CASE e.op = "Nack"
    <3>1. w = Nack(v, e.id)
      BY <2>4 DEF Apply
    <3>2. CASE IsProcessing(v, e.id)
      <4>1. Nack(v, e.id).scheduled = v.scheduled
        BY <1>1, <3>2, NackFields
      <4> QED  BY <1>1, <3>1, <4>1
    <3>3. CASE ~IsProcessing(v, e.id)
      BY <1>1, <3>1, <3>3 DEF Nack
    <3> QED  BY <3>2, <3>3
  <2> QED  BY <2>1, <2>2, <2>3, <2>4 DEF Event
<1> QED  BY <1>2, <1>3 DEF Onward, Settled

-----------------------------------------------------------------------------
(* What a replay makes of a queue: nothing of a record cut short, and of a *)
(* file or of a list of files what their records make one after another,   *)
(* the intermediate values being f.                                        *)
Replayed(v, r) == IF r.whole THEN Apply(v, r.event, 0) ELSE v

FileMakes(v, log, w) ==
  \E f \in [0..Len(log) -> QueueValue] :
     /\ f[0] = v
     /\ f[Len(log)] = w
     /\ \A i \in 1..Len(log) : f[i] = Replayed(f[i - 1], log[i])

FilesMake(v, files, w) ==
  \E f \in [0..Len(files) -> QueueValue] :
     /\ f[0] = v
     /\ f[Len(files)] = w
     /\ \A n \in 1..Len(files) : FileMakes(f[n - 1], files[n], f[n])

(* Replaying a record makes a queue value.                                 *)
LEMMA ReplayedTyped ==
  ASSUME NEW v \in QueueValue, NEW r \in Record
  PROVE  Replayed(v, r) \in QueueValue
BY ApplyTyped DEF Replayed, Record

(* An empty file makes of a queue that queue, and nothing else.            *)
LEMMA EmptyFileMakes ==
  ASSUME NEW v \in QueueValue
  PROVE  /\ FileMakes(v, << >>, v)
         /\ \A w : FileMakes(v, << >>, w) => w = v
<1>1. Len(<< >>) = 0 /\ 1..0 = {}
  BY EmptySeq
<1>2. FileMakes(v, << >>, v)
  <2> DEFINE f == [i \in 0..0 |-> v]
  <2>1. f \in [0..Len(<< >>) -> QueueValue] /\ f[0] = v
    BY <1>1
  <2> HIDE DEF f
  <2> QED  BY <1>1, <2>1 DEF FileMakes
<1> QED  BY <1>1, <1>2 DEF FileMakes

(* So does no file at all.                                                 *)
LEMMA NoFilesMake ==
  ASSUME NEW v \in QueueValue
  PROVE  /\ FilesMake(v, << >>, v)
         /\ \A w : FilesMake(v, << >>, w) => w = v
<1>1. Len(<< >>) = 0 /\ 1..0 = {}
  BY EmptySeq
<1>2. FilesMake(v, << >>, v)
  <2> DEFINE f == [i \in 0..0 |-> v]
  <2>1. f \in [0..Len(<< >>) -> QueueValue] /\ f[0] = v
    BY <1>1
  <2> HIDE DEF f
  <2> QED  BY <1>1, <2>1 DEF FilesMake
<1> QED  BY <1>1, <1>2 DEF FilesMake

(* A record appended to a file is replayed last.                           *)
LEMMA FileMakesAppend ==
  ASSUME NEW v, NEW log \in Log, NEW w, NEW r \in Record, FileMakes(v, log, w)
  PROVE  FileMakes(v, Append(log, r), Replayed(w, r))
<1> DEFINE n   == Len(log)
           new == Append(log, r)
           z   == Replayed(w, r)
<1>1. log \in Seq(Record) /\ n \in Nat
  BY LenProperties DEF Log
<1>2. /\ Len(new) = n + 1
      /\ \A i \in 1..n : new[i] = log[i]
      /\ new[n + 1] = r
  BY <1>1, AppendProperties
<1>3. PICK f \in [0..n -> QueueValue] :
        /\ f[0] = v
        /\ f[n] = w
        /\ \A i \in 1..n : f[i] = Replayed(f[i - 1], log[i])
  BY DEF FileMakes
<1>4. w \in QueueValue /\ z \in QueueValue
  BY <1>1, <1>3, ReplayedTyped
<1> DEFINE g == [i \in 0..(n + 1) |-> IF i <= n THEN f[i] ELSE z]
<1> HIDE DEF n, new, z
<1>5. /\ g \in [0..(n + 1) -> QueueValue]
      /\ \A i \in 0..n : g[i] = f[i]
      /\ g[n + 1] = z
  BY <1>1, <1>3, <1>4 DEF n
<1> HIDE DEF g
<1>6. n \in Nat
  BY <1>1 DEF n
<1>7. ASSUME NEW i \in 1..(n + 1)
      PROVE  g[i] = Replayed(g[i - 1], new[i])
  <2>1. CASE i = n + 1
    <3>1. i - 1 = n /\ n \in 0..n
      BY <1>6, <2>1
    <3>2. g[i - 1] = w /\ new[i] = r /\ g[i] = z
      BY <1>2, <1>3, <1>5, <2>1, <3>1 DEF n
    <3> QED  BY <3>2 DEF z
  <2>2. CASE i # n + 1
    <3>1. i \in 1..n /\ i \in 0..n /\ i - 1 \in 0..n
      BY <1>6, <2>2
    <3>2. g[i] = f[i] /\ g[i - 1] = f[i - 1] /\ new[i] = log[i]
      BY <1>2, <1>5, <3>1 DEF n
    <3>3. f[i] = Replayed(f[i - 1], log[i])
      BY <1>3, <3>1 DEF n
    <3> QED  BY <3>2, <3>3
  <2> QED  BY <2>1, <2>2
<1>8. g[0] = v
  BY <1>3, <1>5, <1>6
<1>9. Len(new) = n + 1
  BY <1>2 DEF n
<1>10. FileMakes(v, new, z)
  BY <1>5, <1>7, <1>8, <1>9 DEF FileMakes
<1> QED  BY <1>10 DEF new, z

(* A file put behind others is replayed last.                              *)
LEMMA FilesMakeAppend ==
  ASSUME NEW v, NEW files \in Seq(Log), NEW u, NEW log \in Log, NEW z \in QueueValue,
         FilesMake(v, files, u), FileMakes(u, log, z)
  PROVE  FilesMake(v, Append(files, log), z)
<1> DEFINE n   == Len(files)
           new == Append(files, log)
<1>1. n \in Nat
  BY LenProperties
<1>2. /\ Len(new) = n + 1
      /\ \A i \in 1..n : new[i] = files[i]
      /\ new[n + 1] = log
  BY AppendProperties
<1>3. PICK f \in [0..n -> QueueValue] :
        /\ f[0] = v
        /\ f[n] = u
        /\ \A i \in 1..n : FileMakes(f[i - 1], files[i], f[i])
  BY DEF FilesMake
<1> DEFINE g == [i \in 0..(n + 1) |-> IF i <= n THEN f[i] ELSE z]
<1> HIDE DEF n, new
<1>5. /\ g \in [0..(n + 1) -> QueueValue]
      /\ \A i \in 0..n : g[i] = f[i]
      /\ g[n + 1] = z
  BY <1>1, <1>3 DEF n
<1> HIDE DEF g
<1>6. n \in Nat
  BY <1>1 DEF n
<1>7. ASSUME NEW i \in 1..(n + 1)
      PROVE  FileMakes(g[i - 1], new[i], g[i])
  <2>1. CASE i = n + 1
    <3>1. i - 1 = n /\ n \in 0..n
      BY <1>6, <2>1
    <3>2. g[i - 1] = u /\ new[i] = log /\ g[i] = z
      BY <1>2, <1>3, <1>5, <2>1, <3>1 DEF n
    <3> QED  BY <3>2
  <2>2. CASE i # n + 1
    <3>1. i \in 1..n /\ i \in 0..n /\ i - 1 \in 0..n
      BY <1>6, <2>2
    <3>2. g[i] = f[i] /\ g[i - 1] = f[i - 1] /\ new[i] = files[i]
      BY <1>2, <1>5, <3>1 DEF n
    <3>3. FileMakes(f[i - 1], files[i], f[i])
      BY <1>3, <3>1 DEF n
    <3> QED  BY <3>2, <3>3
  <2> QED  BY <2>1, <2>2
<1>8. g[0] = v
  BY <1>3, <1>5, <1>6
<1>9. Len(new) = n + 1
  BY <1>2 DEF n
<1>10. FilesMake(v, new, z)
  BY <1>5, <1>7, <1>8, <1>9 DEF FilesMake
<1> QED  BY <1>10 DEF new

(* Replaying the first record leaves the rest of the file to replay.       *)
LEMMA FileMakesTail ==
  ASSUME NEW v, NEW log \in Log, log # << >>, NEW w, FileMakes(v, log, w)
  PROVE  FileMakes(Replayed(v, Head(log)), Tail(log), w)
<1> DEFINE n == Len(log) - 1
<1>1. log \in Seq(Record) /\ n \in Nat /\ Len(log) = n + 1
  BY LenProperties, EmptySeq DEF Log
<1>2. /\ Head(log) = log[1]
      /\ Len(Tail(log)) = n
      /\ \A i \in 1..n : Tail(log)[i] = log[i + 1]
  BY <1>1, HeadTailProperties
<1>3. PICK f \in [0..(n + 1) -> QueueValue] :
        /\ f[0] = v
        /\ f[n + 1] = w
        /\ \A i \in 1..(n + 1) : f[i] = Replayed(f[i - 1], log[i])
  BY <1>1 DEF FileMakes
<1> DEFINE g == [i \in 0..n |-> f[i + 1]]
<1> HIDE DEF n
<1>4. \A i \in 0..n : i + 1 \in 0..(n + 1)
  BY <1>1
<1>5. g \in [0..n -> QueueValue] /\ \A i \in 0..n : g[i] = f[i + 1]
  BY <1>3, <1>4
<1> HIDE DEF g
<1>6. g[0] = Replayed(v, Head(log))
  <2>1. 1 \in 1..(n + 1) /\ 0 \in 0..n /\ 0 + 1 = 1 /\ 1 - 1 = 0
    BY <1>1
  <2>2. f[1] = Replayed(f[0], log[1])
    BY <1>3, <2>1
  <2> QED  BY <1>2, <1>3, <1>5, <2>1, <2>2
<1>7. g[n] = w
  BY <1>1, <1>3, <1>5
<1>8. ASSUME NEW i \in 1..n
      PROVE  g[i] = Replayed(g[i - 1], Tail(log)[i])
  <2>1. /\ i \in 0..n /\ i - 1 \in 0..n /\ i + 1 \in 1..(n + 1)
        /\ (i - 1) + 1 = i /\ (i + 1) - 1 = i
    BY <1>1
  <2>2. g[i] = f[i + 1] /\ g[i - 1] = f[i] /\ Tail(log)[i] = log[i + 1]
    BY <1>2, <1>5, <2>1
  <2>3. f[i + 1] = Replayed(f[i], log[i + 1])
    BY <1>3, <2>1
  <2> QED  BY <2>2, <2>3
<1> QED  BY <1>2, <1>5, <1>6, <1>7, <1>8 DEF FileMakes

(* Replaying the first file leaves the others.                             *)
LEMMA FilesMakeTail ==
  ASSUME NEW v, NEW files \in Seq(Log), files # << >>, NEW w, FilesMake(v, files, w)
  PROVE  \E u \in QueueValue :
            FileMakes(v, Head(files), u) /\ FilesMake(u, Tail(files), w)
<1> DEFINE n == Len(files) - 1
<1>1. n \in Nat /\ Len(files) = n + 1
  BY LenProperties, EmptySeq
<1>2. /\ Head(files) = files[1]
      /\ Len(Tail(files)) = n
      /\ \A i \in 1..n : Tail(files)[i] = files[i + 1]
  BY <1>1, HeadTailProperties
<1>3. PICK f \in [0..(n + 1) -> QueueValue] :
        /\ f[0] = v
        /\ f[n + 1] = w
        /\ \A i \in 1..(n + 1) : FileMakes(f[i - 1], files[i], f[i])
  BY <1>1 DEF FilesMake
<1> DEFINE g == [i \in 0..n |-> f[i + 1]]
<1> HIDE DEF n
<1>4. \A i \in 0..n : i + 1 \in 0..(n + 1)
  BY <1>1
<1>5. g \in [0..n -> QueueValue] /\ \A i \in 0..n : g[i] = f[i + 1]
  BY <1>3, <1>4
<1> HIDE DEF g
<1>6. FileMakes(v, Head(files), g[0]) /\ g[0] \in QueueValue
  <2>1. 1 \in 1..(n + 1) /\ 0 \in 0..n /\ 0 + 1 = 1 /\ 1 - 1 = 0
    BY <1>1
  <2>2. FileMakes(f[0], files[1], f[1])
    BY <1>3, <2>1
  <2> QED  BY <1>2, <1>3, <1>5, <2>1, <2>2
<1>7. g[n] = w
  BY <1>1, <1>3, <1>5
<1>8. ASSUME NEW i \in 1..n
      PROVE  FileMakes(g[i - 1], Tail(files)[i], g[i])
  <2>1. /\ i \in 0..n /\ i - 1 \in 0..n /\ i + 1 \in 1..(n + 1)
        /\ (i - 1) + 1 = i /\ (i + 1) - 1 = i
    BY <1>1
  <2>2. g[i] = f[i + 1] /\ g[i - 1] = f[i] /\ Tail(files)[i] = files[i + 1]
    BY <1>2, <1>5, <2>1
  <2>3. FileMakes(f[i], files[i + 1], f[i + 1])
    BY <1>3, <2>1
  <2> QED  BY <2>2, <2>3
<1>9. FilesMake(g[0], Tail(files), w)
  BY <1>2, <1>5, <1>7, <1>8 DEF FilesMake
<1> QED  BY <1>6, <1>9

(* Replaying the first record of the first file leaves the rest.           *)
LEMMA FilesMakeNext ==
  ASSUME NEW v, NEW files \in Seq(Log), files # << >>, Head(files) # << >>,
         NEW w, FilesMake(v, files, w)
  PROVE  FilesMake(Replayed(v, Head(Head(files))),
                   [files EXCEPT ![1] = Tail(Head(files))], w)
<1> DEFINE n   == Len(files)
           z   == Replayed(v, Head(Head(files)))
           new == [files EXCEPT ![1] = Tail(Head(files))]
<1>1. n \in Nat /\ n >= 1 /\ Head(files) = files[1] /\ DOMAIN files = 1..n
  BY LenProperties, EmptySeq, HeadTailProperties
<1>2. Head(files) \in Log
  BY HeadTailProperties
<1>3. Tail(Head(files)) \in Log /\ Head(Head(files)) \in Record
  BY <1>2, HeadTailProperties DEF Log
<1>4. /\ new \in Seq(Log)
      /\ Len(new) = n
      /\ new[1] = Tail(Head(files))
      /\ \A i \in 1..n : i # 1 => new[i] = files[i]
  BY <1>1, <1>3, ExceptSeq
<1>5. PICK f \in [0..n -> QueueValue] :
        /\ f[0] = v
        /\ f[n] = w
        /\ \A i \in 1..n : FileMakes(f[i - 1], files[i], f[i])
  BY DEF FilesMake
<1>6. z \in QueueValue
  <2>1. v \in QueueValue
    BY <1>1, <1>5
  <2> QED  BY <1>3, <2>1, ReplayedTyped
<1>7. FileMakes(z, Tail(Head(files)), f[1])
  <2>1. FileMakes(v, Head(files), f[1])
    <3>1. 1 \in 1..n /\ 1 - 1 = 0
      BY <1>1
    <3>2. FileMakes(f[1 - 1], files[1], f[1])
      BY <1>5, <3>1
    <3> QED  BY <1>1, <1>5, <3>1, <3>2
  <2> QED  BY <1>2, <2>1, FileMakesTail
<1> DEFINE g == [i \in 0..n |-> IF i = 0 THEN z ELSE f[i]]
<1> HIDE DEF n, z, new
<1>8. /\ g \in [0..n -> QueueValue]
      /\ g[0] = z
      /\ \A i \in 1..n : g[i] = f[i]
  BY <1>1, <1>5, <1>6 DEF n
<1> HIDE DEF g
<1>9. ASSUME NEW i \in 1..n
      PROVE  FileMakes(g[i - 1], new[i], g[i])
  <2>1. CASE i = 1
    <3>1. g[i - 1] = z /\ g[i] = f[1] /\ new[i] = Tail(Head(files))
      BY <1>4, <1>8, <2>1 DEF n
    <3> QED  BY <1>7, <3>1
  <2>2. CASE i # 1
    <3>1. i - 1 \in 1..n
      BY <1>1, <2>2 DEF n
    <3>2. g[i - 1] = f[i - 1] /\ g[i] = f[i] /\ new[i] = files[i]
      BY <1>4, <1>8, <2>2, <3>1 DEF n
    <3>3. FileMakes(f[i - 1], files[i], f[i])
      BY <1>5 DEF n
    <3> QED  BY <3>2, <3>3
  <2> QED  BY <2>1, <2>2
<1>10. g[n] = w /\ Len(new) = n
  BY <1>1, <1>4, <1>5, <1>8 DEF n
<1>11. FilesMake(z, new, w)
  BY <1>8, <1>9, <1>10 DEF FilesMake
<1> QED  BY <1>11 DEF z, new

(* A file read to its end is done with.                                    *)
LEMMA FilesMakeDone ==
  ASSUME NEW v \in QueueValue, NEW files \in Seq(Log), files # << >>, Head(files) = << >>,
         NEW w, FilesMake(v, files, w)
  PROVE  FilesMake(v, Tail(files), w)
<1>1. PICK u \in QueueValue : FileMakes(v, Head(files), u) /\ FilesMake(u, Tail(files), w)
  BY FilesMakeTail
<1>2. FileMakes(v, << >>, u)
  BY <1>1
<1>3. u = v
  BY <1>2, EmptyFileMakes
<1> QED  BY <1>1, <1>3

-----------------------------------------------------------------------------
(* Recovery is exact.                                                      *)

(* The fault model: as CleanFaults, and nothing fails between the writing  *)
(* of the snapshot and the deletion of the log it replaces; a record that  *)
(* is in the file has been applied.                                        *)
ExactFaults ==
  /\ CleanFaults
  /\ "delete" \notin CrashPoints
  /\ IoFaults \subseteq {"append", "rotate", "truncate"}

(* The queue that a restart would rebuild from the files is w.             *)
DiskMakes(w) ==
  \E u \in QueueValue :
     FilesMake(SnapshotQueue, segments, u) /\ FileMakes(u, active, w)

(* A call in progress is one that a client may make of the queue.          *)
Startable ==
  /\ op.id \in issued
  /\ op.op = "Enqueue" => op.id \notin Known(logged)
  /\ op.op = "Dequeue" =>
       \E i \in DOMAIN logged.pending :
          /\ op.id = logged.pending[i].id
          /\ i = 1 \/ IsFirstOf(logged, i, QueueOf[op.id])

(* The jobs whose ack has returned are completed in v.                     *)
AckedIn(v) == \A j \in acked : IsCompleted(v, j)

(* Memory, the disk and what is still to be read are each what the logged  *)
(* events make, except for the one event between its record and its        *)
(* application, and for the snapshot being replaced.                       *)
Exact ==
  /\ Settled(logged) /\ AckedIn(logged) /\ Known(logged) \subseteq issued
  /\ Serving => Settled(mem) /\ AckedIn(mem)
  /\ pc \in {"idle", "append", "rotate", "truncate", "write", "delete"} => mem = logged
  /\ pc = "apply" => logged = Apply(mem, op, 0)
  /\ pc = "append" => Startable
  /\ pc \in {"rotate", "truncate", "write", "delete"} /\ op.op = "Ack" =>
       IsCompleted(mem, op.id)
  /\ pc = "recover" => FilesMake(mem, unread, logged)
  /\ pc \notin {"write", "delete"} => DiskMakes(logged)
  /\ pc = "delete" => SnapshotQueue = mem

(* The files of a new directory make the empty queue.                      *)
LEMMA InitExact == Init => Exact
<1> SUFFICES ASSUME Init PROVE Exact
  OBVIOUS
<1>1. /\ mem = EmptyQueue /\ logged = EmptyQueue /\ pc = "down" /\ acked = {}
      /\ SnapshotQueue = EmptyQueue /\ segments = << >> /\ active = << >>
  BY DEF Init, SnapshotQueue
<1>2. EmptyQueue \in QueueValue /\ NoDuplicate(EmptyQueue)
  BY EmptyQueueType, EmptyQueueUnique
<1>3. Settled(EmptyQueue)
  BY <1>2 DEF Settled, Sound, EmptyQueue
<1>4. Known(EmptyQueue) = {}
  BY EmptySeq DEF Known, EmptyQueue, PendingIds, ProcessingIds, IsCompleted, IsDead
<1>5. DiskMakes(EmptyQueue)
  BY <1>1, <1>2, EmptyFileMakes, NoFilesMake DEF DiskMakes
<1> QED  BY <1>1, <1>3, <1>4, <1>5 DEF Exact, Serving, AckedIn

(* Replaying the segments and then wal.log is replaying the list of both.  *)
LEMMA DiskFilesMake ==
  ASSUME TypeOK, NEW w \in QueueValue, DiskMakes(w)
  PROVE  FilesMake(SnapshotQueue, Append(segments, active), w)
BY FilesMakeAppend DEF DiskMakes, TypeOK

(* A record that reaches wal.log is replayed after all others.             *)
LEMMA DiskMakesAppend ==
  ASSUME TypeOK, NEW w, DiskMakes(w), NEW r \in Record,
         active' = Append(active, r), UNCHANGED <<snapshot, segments>>
  PROVE  \E u \in QueueValue :
            /\ FilesMake(SnapshotQueue', segments', u)
            /\ FileMakes(u, active', Replayed(w, r))
<1>1. SnapshotQueue' = SnapshotQueue
  BY DEF SnapshotQueue
<1>2. PICK u \in QueueValue :
        FilesMake(SnapshotQueue, segments, u) /\ FileMakes(u, active, w)
  BY DEF DiskMakes
<1>3. FileMakes(u, Append(active, r), Replayed(w, r))
  BY <1>2, FileMakesAppend DEF TypeOK
<1> QED  BY <1>1, <1>2, <1>3

(* The next record of a readable file is replayed whole or skipped whole.  *)
LEMMA ReadsExactly ==
  ASSUME NoSchedules, NEW v \in QueueValue, NEW file \in Log, file # << >>, NEW t \in Nat,
         Readable(file), NEW r \in ReadRecord(v, file, t)
  PROVE  r.ok = TRUE /\ r.queue = Replayed(v, Head(file)) /\ r.rest = Tail(file)
<1>1. file \in Seq(Record) /\ Len(file) \in Nat /\ DOMAIN file = 1..Len(file)
  BY LenProperties DEF Log
<1>2. 1 \in DOMAIN file /\ Head(file) = file[1]
  BY <1>1, EmptySeq, HeadTailProperties
<1>3. Head(file).event \in Event
  <2>1. Head(file) \in Record
    BY <1>1, HeadTailProperties
  <2> QED  BY <2>1 DEF Record
<1>4. CASE Head(file).whole
  <2>1. r = [queue |-> Apply(v, Head(file).event, t), rest |-> Tail(file), ok |-> TRUE]
    BY <1>4 DEF ReadRecord
  <2>2. Apply(v, Head(file).event, t) = Replayed(v, Head(file))
    BY <1>3, <1>4, ApplyTimeless DEF Replayed
  <2> QED  BY <2>1, <2>2
<1>5. CASE ~Head(file).whole
  <2>1. Len(file) = 1
    BY <1>2, <1>5 DEF Readable
  <2>2. r = [queue |-> v, rest |-> << >>, ok |-> TRUE]
    BY <1>5, <2>1 DEF ReadRecord
  <2>3. Tail(file) = << >>
    <3>1. Tail(file) \in Seq(Record) /\ Len(Tail(file)) = 0
      BY <1>1, <2>1, HeadTailProperties
    <3> QED  BY <3>1, EmptySeq
  <2>4. Replayed(v, Head(file)) = v
    BY <1>5 DEF Replayed
  <2> QED  BY <2>2, <2>3, <2>4
<1> QED  BY <1>4, <1>5

(* Calls and rotation leave what a restart would rebuild alone when they   *)
(* leave the files alone.                                                  *)
LEMMA ExactDisk ==
  ASSUME UNCHANGED disk, UNCHANGED logged
  PROVE  DiskMakes(logged)' <=> DiskMakes(logged)
<1>1. SnapshotQueue' = SnapshotQueue /\ UNCHANGED <<segments, active>>
  BY DEF disk, SnapshotQueue
<1> QED  BY <1>1 DEF DiskMakes

(* Every step keeps memory and disk exact.                                 *)
LEMMA StepExact ==
  ExactFaults /\ NoSchedules /\ TypeOK /\ Legible /\ Exact /\ [Next]_vars => Exact'
<1> SUFFICES ASSUME ExactFaults, NoSchedules, TypeOK, Legible, Exact, [Next]_vars
             PROVE  Exact'
  OBVIOUS
<1>q. /\ mem \in QueueValue /\ now \in Nat
      /\ active \in Log /\ segments \in Seq(Log) /\ unread \in Seq(Log)
      /\ op \in Event \cup {NoOp}
      /\ issued \subseteq Job /\ acked \subseteq Job
  BY DEF TypeOK
<1>l. Settled(logged) /\ AckedIn(logged) /\ Known(logged) \subseteq issued
  BY DEF Exact
<1>v. logged \in QueueValue
  BY <1>l DEF Settled, Sound
<1>e. << >> \in Log
  BY EmptySeq DEF Log
<1>1. CASE Call
  <2>1. /\ pc = "idle" /\ mem = logged /\ DiskMakes(logged)
        /\ UNCHANGED <<mem, disk, logged, acked>>
    BY <1>1 DEF Call, BeginEnqueue, BeginDequeue, BeginAck, BeginNack, Begin, BeginCompact,
       history, Exact
  <2>2. issued \subseteq issued'
    BY <1>1 DEF Call, BeginEnqueue, BeginDequeue, BeginAck, BeginNack, BeginCompact, history
  <2>3. DiskMakes(logged)'
    BY <2>1, ExactDisk
  <2>4. CASE BeginCompact
    BY <1>l, <2>1, <2>3, <2>4 DEF BeginCompact, Exact, NoOp, AckedIn, history
  <2>5. ASSUME pc' = "append", Startable'
        PROVE  Exact'
    BY <1>l, <2>1, <2>2, <2>3, <2>5 DEF Exact, AckedIn
  <2>6. CASE \E j \in Job : BeginEnqueue(j)
    <3>1. pc' = "append" /\ Startable'
      BY <1>l, <2>1, <2>6 DEF BeginEnqueue, Begin, Startable
    <3> QED  BY <2>5, <3>1
  <2>7. CASE \E i \in DOMAIN mem.pending : BeginDequeue(i)
    <3>1. PICK i \in DOMAIN logged.pending : BeginDequeue(i)
      BY <2>1, <2>7
    <3>2. /\ pc' = "append" /\ op' = [op |-> "Dequeue", id |-> logged.pending[i].id]
          /\ i = 1 \/ IsFirstOf(logged, i, QueueOf[logged.pending[i].id])
          /\ UNCHANGED <<issued, logged>>
      BY <2>1, <3>1 DEF BeginDequeue, Begin
    <3>3. op'.id = logged.pending[i].id /\ op'.op = "Dequeue"
      BY <3>2
    <3>4. logged.pending[i].id \in Known(logged)
      BY <1>v, QueueFields DEF Known, PendingIds, Entry
    <3>5. Startable'
      BY <1>l, <3>2, <3>3, <3>4 DEF Startable
    <3> QED  BY <2>5, <3>2, <3>5
  <2>8. CASE \E j \in Job : BeginAck(j)
    <3>1. pc' = "append" /\ Startable'
      BY <2>8 DEF BeginAck, Begin, Startable
    <3> QED  BY <2>5, <3>1
  <2>9. CASE \E j \in Job : BeginNack(j)
    <3>1. pc' = "append" /\ Startable'
      BY <2>9 DEF BeginNack, Begin, Startable
    <3> QED  BY <2>5, <3>1
  <2> QED  BY <1>1, <2>4, <2>6, <2>7, <2>8, <2>9 DEF Call
<1>2. CASE AppendRecord
  <2>1. /\ pc = "append" /\ pc' = "apply" /\ op \in Event
        /\ active' = Append(active, Whole(op))
        /\ logged' = Apply(logged, op, now)
        /\ UNCHANGED <<mem, op, snapshot, segments, issued, acked>>
    BY <1>2 DEF AppendRecord, TypeOK, history
  <2>2. /\ mem = logged /\ Startable /\ DiskMakes(logged)
        /\ Settled(mem) /\ AckedIn(mem)
    BY <2>1 DEF Exact, Serving
  <2>3. logged' = Apply(logged, op, 0)
    BY <1>q, <2>1, ApplyTimeless
  <2>4. Settled(logged') /\ Onward(logged, NewJob(op), logged')
    BY <1>l, <2>1, <2>2, <2>3, ApplySettled DEF Startable, NewJob
  <2>5. Settled(logged') /\ Known(logged') \subseteq issued
    BY <1>l, <2>2, <2>4 DEF Onward, Startable, NewJob
  <2>6. \A j \in acked : IsCompleted(logged', j)
    BY <1>l, <1>q, <2>4 DEF Onward, AckedIn
  <2>7. Whole(op) \in Record /\ Replayed(logged, Whole(op)) = logged'
    BY <2>1, <2>3, RecordTyped DEF Whole, Replayed
  <2>8. DiskMakes(logged)'
    BY <2>1, <2>2, <2>7, DiskMakesAppend DEF DiskMakes
  <2> QED  BY <2>1, <2>2, <2>3, <2>5, <2>6, <2>8 DEF Exact, AckedIn
<1>3. CASE ApplyEvent
  <2>1. /\ pc = "apply" /\ op \in Event /\ mem' = Apply(mem, op, now)
        /\ (pc' = "idle" /\ op' = NoOp) \/ (pc' = "rotate" /\ op' = op /\ ~Rejected)
        /\ UNCHANGED <<disk, logged, issued, acked>>
    BY <1>3 DEF ApplyEvent, TypeOK, history
  <2>2. Settled(mem) /\ logged = Apply(mem, op, 0) /\ DiskMakes(logged)
    BY <2>1 DEF Exact, Serving
  <2>3. mem' = logged
    BY <1>q, <2>1, <2>2, ApplyTimeless
  <2>4. ASSUME pc' = "rotate", op.op = "Ack"
        PROVE  IsCompleted(logged, op.id)
    <3>1. IsProcessing(mem, op.id)
      BY <2>1, <2>4 DEF Rejected
    <3>2. logged = Ack(mem, op.id)
      BY <2>2, <2>4 DEF Apply
    <3>3. Sound(mem) /\ op.id \in Job
      BY <2>1, <2>2 DEF Settled, Event
    <3> QED  BY <3>1, <3>2, <3>3, AckOnward
  <2>5. DiskMakes(logged)'
    BY <2>1, <2>2, ExactDisk
  <2> QED  BY <1>l, <2>1, <2>3, <2>4, <2>5 DEF Exact, AckedIn, NoOp
<1>r. ASSUME Return, UNCHANGED logged, pc \in {"rotate", "delete"}, DiskMakes(logged)'
      PROVE  Exact'
  <2>1. /\ pc' = "idle" /\ mem = logged /\ mem' = logged /\ UNCHANGED issued
        /\ op.op = "Ack" => IsCompleted(logged, op.id)
        /\ \A j \in acked' : j \in acked \/ (op.op = "Ack" /\ j = op.id)
    BY <1>r DEF Return, Exact
  <2>2. AckedIn(logged)'
    BY <1>l, <1>r, <2>1 DEF AckedIn
  <2> QED  BY <1>l, <1>r, <2>1, <2>2 DEF Exact, AckedIn
<1>4. CASE SkipRotation
  <2>1. Return /\ UNCHANGED <<logged, disk>> /\ pc = "rotate" /\ DiskMakes(logged)
    BY <1>4 DEF SkipRotation, Return, Exact
  <2>2. DiskMakes(logged)'
    BY <2>1, ExactDisk
  <2> QED  BY <1>r, <2>1, <2>2
<1>5. CASE RenameActive
  <2>1. /\ pc = "rotate" /\ pc' = "truncate"
        /\ segments' = Append(segments, active) /\ active' = << >>
        /\ UNCHANGED <<mem, op, snapshot, logged, issued, acked>>
    BY <1>5 DEF RenameActive, history
  <2>2. FilesMake(SnapshotQueue, segments', logged)
    BY <1>v, <2>1, DiskFilesMake DEF Exact
  <2>3. FileMakes(logged, active', logged)
    BY <1>v, <2>1, EmptyFileMakes
  <2>4. DiskMakes(logged)'
    BY <1>v, <2>1, <2>2, <2>3 DEF DiskMakes, SnapshotQueue
  <2> QED  BY <2>1, <2>4 DEF Exact, AckedIn, Serving
<1>6. CASE TruncateSnapshot
  <2>1. /\ pc = "truncate" /\ pc' = "write"
        /\ UNCHANGED <<mem, op, logged, issued, acked>>
    BY <1>6 DEF TruncateSnapshot, history
  <2> QED  BY <2>1 DEF Exact, AckedIn, Serving
<1>7. CASE WriteSnapshot
  <2>1. /\ pc = "write" /\ pc' = "delete" /\ SnapshotQueue' = mem
        /\ UNCHANGED <<mem, op, logged, issued, acked>>
    BY <1>7 DEF WriteSnapshot, history, SnapshotQueue
  <2> QED  BY <2>1 DEF Exact, AckedIn, Serving
<1>8. CASE DeleteSegment
  <2>1. /\ pc = "delete" /\ SnapshotQueue' = SnapshotQueue
        /\ UNCHANGED <<mem, pc, op, logged, issued, acked>>
    BY <1>8 DEF DeleteSegment, process, history, SnapshotQueue
  <2> QED  BY <2>1 DEF Exact, AckedIn, Serving
<1>9. CASE ResetActive
  <2>1. /\ Return /\ pc = "delete" /\ UNCHANGED <<logged, snapshot, segments>>
        /\ segments = << >> /\ active' = << >>
    BY <1>9 DEF ResetActive, Return
  <2>2. SnapshotQueue = logged /\ SnapshotQueue' = SnapshotQueue
    BY <2>1 DEF Exact, SnapshotQueue
  <2>3. FilesMake(logged, << >>, logged) /\ FileMakes(logged, << >>, logged)
    BY <1>v, EmptyFileMakes, NoFilesMake
  <2>4. DiskMakes(logged)'
    BY <1>v, <2>1, <2>2, <2>3 DEF DiskMakes
  <2> QED  BY <1>r, <2>1, <2>4
<1>10. CASE PromoteReady
  <2>1. mem.scheduled = {} /\ Ready(mem, now) # {}
    BY <1>10 DEF PromoteReady, Exact, Serving, Settled
  <2> QED  BY <2>1 DEF Ready
<1>11. CASE Tick
  <2>1. UNCHANGED <<mem, pc, op, unread, disk, logged, issued, acked>>
    BY <1>11 DEF Tick, process, history
  <2>2. DiskMakes(logged)' <=> DiskMakes(logged)
    BY <2>1, ExactDisk
  <2>3. SnapshotQueue' = SnapshotQueue
    BY <2>1, DiskKept
  <2> QED  BY <2>1, <2>2, <2>3 DEF Exact, AckedIn, Serving, Startable
<1>t. ASSUME pc = "append", op \in Event, UNCHANGED <<snapshot, segments, logged>>,
             active' \in Unfinished
      PROVE  DiskMakes(logged)'
  <2>1. DiskMakes(logged) /\ SnapshotQueue' = SnapshotQueue
    BY <1>t DEF Exact, SnapshotQueue
  <2>2. CASE active' = active
    BY <1>t, <2>1, <2>2 DEF DiskMakes
  <2>3. CASE active' = Append(active, Torn(op))
    <3>1. Torn(op) \in Record /\ Replayed(logged, Torn(op)) = logged
      BY <1>t, RecordTyped DEF Torn, Replayed
    <3> QED  BY <1>t, <2>1, <2>3, <3>1, DiskMakesAppend DEF DiskMakes
  <2> QED  BY <1>t, <2>2, <2>3 DEF Unfinished
<1>12. CASE Crash
  <2>1. /\ pc \notin {"write", "delete"} /\ pc' = "down" /\ op' = NoOp
        /\ UNCHANGED <<snapshot, segments, logged, issued, acked>>
    BY <1>12 DEF Crash, ExactFaults, CleanFaults, history
  <2>2. DiskMakes(logged)'
    <3>1. CASE pc = "append"
      BY <1>12, <1>t, <2>1, <3>1 DEF Crash, TypeOK
    <3>2. CASE pc # "append"
      <4>1. UNCHANGED <<disk, logged>> /\ DiskMakes(logged)
        BY <1>12, <2>1, <3>2 DEF Crash, disk, Exact
      <4> QED  BY <4>1, ExactDisk
    <3> QED  BY <3>1, <3>2
  <2> QED  BY <1>l, <2>1, <2>2 DEF Exact, AckedIn, Serving
<1>13. CASE IoError
  <2>1. /\ pc \in {"append", "rotate", "truncate"} /\ pc' = "idle" /\ op' = NoOp
        /\ pc = "append" => active' \in Unfinished
        /\ pc # "append" => active' = active
        /\ UNCHANGED <<mem, snapshot, segments, logged, issued, acked>>
    BY <1>13 DEF IoError, ExactFaults, history
  <2>2. DiskMakes(logged)'
    <3>1. CASE pc = "append"
      BY <1>t, <2>1, <3>1 DEF TypeOK
    <3>2. CASE pc # "append"
      <4>1. UNCHANGED <<disk, logged>> /\ DiskMakes(logged)
        BY <2>1, <3>2 DEF disk, Exact
      <4> QED  BY <4>1, ExactDisk
    <3> QED  BY <3>1, <3>2
  <2>3. mem = logged /\ mem' = logged
    BY <2>1 DEF Exact
  <2> QED  BY <1>l, <2>1, <2>2, <2>3 DEF Exact, AckedIn
<1>14. CASE Open
  <2>1. /\ pc = "down" /\ pc' = "recover" /\ mem' = SnapshotQueue
        /\ unread' = Append(segments, active)
        /\ UNCHANGED <<op, disk, logged, issued, acked>>
    BY <1>14 DEF Open, Legible, history
  <2>2. FilesMake(mem', unread', logged)
    BY <1>v, <2>1, DiskFilesMake DEF Exact
  <2>3. DiskMakes(logged)'
    BY <2>1, ExactDisk DEF Exact
  <2> QED  BY <1>l, <2>1, <2>2, <2>3 DEF Exact, AckedIn, Serving
<1>15. CASE ReplayRecord
  <2>1. PICK r \in ReadRecord(mem, Head(unread), now) :
          /\ mem' = r.queue
          /\ unread' = [unread EXCEPT ![1] = r.rest]
          /\ pc' = IF r.ok THEN pc ELSE "failed"
    BY <1>15 DEF ReplayRecord
  <2>2. /\ pc = "recover" /\ unread # << >> /\ Head(unread) # << >>
        /\ UNCHANGED <<op, disk, logged, issued, acked>>
    BY <1>15 DEF ReplayRecord, history
  <2>3. Head(unread) \in Log /\ Head(unread) = unread[1] /\ 1 \in DOMAIN unread
    BY <1>q, <2>2, HeadTailProperties, EmptySeq, LenProperties
  <2>4. Readable(Head(unread))
    BY <2>2, <2>3 DEF Legible
  <2>5. /\ r.ok = TRUE
        /\ r.queue = Replayed(mem, Head(Head(unread)))
        /\ r.rest = Tail(Head(unread))
    <3>1. \A v \in QueueValue, file \in Log, t \in Nat :
            file # << >> /\ Readable(file) =>
              \A x \in ReadRecord(v, file, t) :
                 x.ok = TRUE /\ x.queue = Replayed(v, Head(file)) /\ x.rest = Tail(file)
      BY ReadsExactly
    <3>2. /\ mem \in QueueValue /\ now \in Nat /\ Head(unread) \in Log
          /\ Head(unread) # << >> /\ Readable(Head(unread))
      BY <1>q, <2>2, <2>3, <2>4
    <3> QED  BY <3>1, <3>2
  <2>6. FilesMake(mem', unread', logged)
    BY <1>q, <2>1, <2>2, <2>5, FilesMakeNext DEF Exact
  <2>7. DiskMakes(logged)'
    BY <2>2, ExactDisk DEF Exact
  <2> QED  BY <1>l, <2>1, <2>2, <2>5, <2>6, <2>7 DEF Exact, AckedIn, Serving
<1>16. CASE EndOfFile
  <2>1. /\ pc = "recover" /\ unread # << >> /\ Head(unread) = << >>
        /\ unread' = Tail(unread)
        /\ UNCHANGED <<mem, pc, op, disk, logged, issued, acked>>
    BY <1>16 DEF EndOfFile, history
  <2>2. FilesMake(mem, unread', logged)
    BY <1>q, <2>1, FilesMakeDone DEF Exact
  <2>3. DiskMakes(logged)'
    BY <2>1, ExactDisk DEF Exact
  <2> QED  BY <1>l, <2>1, <2>2, <2>3 DEF Exact, AckedIn, Serving
<1>17. CASE Recovered
  <2>1. /\ pc = "recover" /\ pc' = "idle" /\ unread = << >>
        /\ UNCHANGED <<mem, op, disk, logged, issued, acked>>
    BY <1>17 DEF Recovered, history
  <2>2. mem = logged
    BY <1>q, <2>1, NoFilesMake DEF Exact
  <2>3. DiskMakes(logged)'
    BY <2>1, ExactDisk DEF Exact
  <2> QED  BY <1>l, <2>1, <2>2, <2>3 DEF Exact, AckedIn
<1>18. CASE UNCHANGED vars
  <2>1. UNCHANGED <<mem, pc, op, unread, disk, logged, issued, acked>>
    BY <1>18 DEF vars, process, history
  <2>2. DiskMakes(logged)' <=> DiskMakes(logged)
    BY <2>1, ExactDisk
  <2>3. SnapshotQueue' = SnapshotQueue
    BY <2>1, DiskKept
  <2> QED  BY <2>1, <2>2, <2>3 DEF Exact, AckedIn, Serving, Startable
<1> QED
  BY <1>1, <1>2, <1>3, <1>4, <1>5, <1>6, <1>7, <1>8, <1>9, <1>10, <1>11,
     <1>12, <1>13, <1>14, <1>15, <1>16, <1>17, <1>18 DEF Next, Recovery, FileStep

-----------------------------------------------------------------------------
(* What Exact says of the queue that is served.                            *)

(* load_queue rebuilds exactly the queue that was in memory: between       *)
(* calls PersistentQueue.queue is what the logged events make, whatever    *)
(* crashes, torn appends and failed calls there were.                      *)
THEOREM PersistentIsLogged ==
  ASSUME ExactFaults, NoSchedules
  PROVE  Spec => []MemoryIsLogged
<1>1. Exact => MemoryIsLogged
  BY DEF Exact, MemoryIsLogged
<1>2. CleanFaults
  BY DEF ExactFaults
<1> QED
  BY <1>1, <1>2, InitLegible, StepLegible, InitExact, StepExact, PersistentTyped, PTL DEF Spec

(* A job whose PersistentQueue::ack returned Ok is completed whenever      *)
(* calls are served, and so never handed out again after a restart.        *)
THEOREM PersistentAcksSurvive ==
  ASSUME ExactFaults, NoSchedules
  PROVE  Spec => []AckSurvives
<1>1. Exact => AckSurvives
  BY DEF Exact, AckSurvives, AckedIn
<1>2. CleanFaults
  BY DEF ExactFaults
<1> QED
  BY <1>1, <1>2, InitLegible, StepLegible, InitExact, StepExact, PersistentTyped, PTL DEF Spec

-----------------------------------------------------------------------------
(* The abstract queue of the refinement.                                   *)
Held ==
  IF pc \in {"idle", "rotate", "truncate", "write", "delete"} THEN mem ELSE logged

(* Under Exact it is what the logged events make, in every state.          *)
LEMMA HeldIsLogged == Exact => Held = logged
BY DEF Held, Exact

(* Init maps to the initial state of the atomic queue.                     *)
LEMMA InitRefines == Init => JobQueue!QueueInit
BY DEF Init, JobQueue!QueueInit, EmptyQueue, JobQueue!EmptyQueue

(* The events of the abstract queue are those of this one.                 *)
LEMMA SameOperations ==
  ASSUME NEW v, NEW j, NEW t, NEW i, NEW n
  PROVE  /\ JobQueue!Enqueue(v, j, t) = Enqueue(v, j, t)
         /\ JobQueue!MoveToProcessing(v, i) = MoveToProcessing(v, i)
         /\ JobQueue!Ack(v, j) = Ack(v, j)
         /\ JobQueue!Nack(v, j) = Nack(v, j)
         /\ JobQueue!IsProcessing(v, j) = IsProcessing(v, j)
         /\ JobQueue!IsFirstOf(v, i, n) = IsFirstOf(v, i, n)
         /\ JobQueue!Known(v) = Known(v)
<1>1. JobQueue!Enqueue(v, j, t) = Enqueue(v, j, t)
  BY DEF JobQueue!Enqueue, Enqueue
<1>2. JobQueue!MoveToProcessing(v, i) = MoveToProcessing(v, i)
  BY DEF JobQueue!MoveToProcessing, MoveToProcessing, JobQueue!RemoveAt, RemoveAt
<1>3. JobQueue!Ack(v, j) = Ack(v, j)
  BY DEF JobQueue!Ack, Ack, JobQueue!IsProcessing, IsProcessing
<1>4. JobQueue!Nack(v, j) = Nack(v, j)
  BY DEF JobQueue!Nack, Nack, JobQueue!IsProcessing, IsProcessing
<1>5. JobQueue!IsProcessing(v, j) = IsProcessing(v, j)
  BY DEF JobQueue!IsProcessing, IsProcessing
<1>6. JobQueue!IsFirstOf(v, i, n) = IsFirstOf(v, i, n)
  BY DEF JobQueue!IsFirstOf, IsFirstOf
<1>7. JobQueue!Known(v) = Known(v)
  BY DEF JobQueue!Known, Known, JobQueue!PendingIds, PendingIds, JobQueue!ProcessingIds,
     ProcessingIds, JobQueue!IsCompleted, IsCompleted, JobQueue!IsDead, IsDead
<1> QED  BY <1>1, <1>2, <1>3, <1>4, <1>5, <1>6, <1>7

(* A step of the persistent queue is a step of the atomic queue when the   *)
(* record of its event reaches the log, or when the clock ticks, and no    *)
(* step of it otherwise.                                                   *)
LEMMA StepRefines ==
  ExactFaults /\ NoSchedules /\ TypeOK /\ Exact /\ Exact' /\ [Next]_vars
    => [JobQueue!QueueNext]_(JobQueue!queueVars)
<1> SUFFICES ASSUME ExactFaults, NoSchedules, TypeOK, Exact, Exact', [Next]_vars
             PROVE  [JobQueue!QueueNext]_(JobQueue!queueVars)
  OBVIOUS
<1>h. Held = logged /\ Held' = logged'
  BY HeldIsLogged DEF Held, Exact
<1>s. ASSUME UNCHANGED <<logged, now>>
      PROVE  UNCHANGED JobQueue!queueVars
  <2>1. UNCHANGED Held
    BY <1>h, <1>s
  <2> QED  BY <1>s, <2>1 DEF JobQueue!queueVars, Held
<1>1. CASE AppendRecord
  <2>1. /\ pc = "append" /\ op \in Event /\ UNCHANGED now
        /\ logged' = Apply(logged, op, now)
    BY <1>1 DEF AppendRecord, TypeOK
  <2>2. Startable /\ Settled(logged) /\ Known(logged) \subseteq issued
    BY <2>1 DEF Exact
  <2>3. op.id \in Job /\ op.op \in {"Enqueue", "Dequeue", "Ack", "Nack"}
    BY <2>1 DEF Event
  <2>4. CASE op.op = "Enqueue"
    <3>1. logged' = Enqueue(logged, op.id, now) /\ op.id \notin Known(logged)
      BY <2>1, <2>2, <2>4 DEF Apply, Startable
    <3>2. Held' = JobQueue!Enqueue(Held, op.id, now) /\ op.id \notin JobQueue!Known(Held)
      BY <1>h, <3>1, SameOperations
    <3>3. JobQueue!EnqueueJob(op.id)
      BY <2>1, <3>2 DEF JobQueue!EnqueueJob, Held
    <3> QED  BY <2>3, <3>3 DEF JobQueue!QueueNext
  <2>5. CASE op.op = "Dequeue"
    <3>1. PICK i \in DOMAIN logged.pending :
            /\ op.id = logged.pending[i].id
            /\ i = 1 \/ IsFirstOf(logged, i, QueueOf[op.id])
      BY <2>2, <2>5 DEF Startable
    <3>2. logged' = MoveToProcessing(logged, i)
      <4>1. logged' = DequeueById(logged, op.id)
        BY <2>1, <2>5 DEF Apply
      <4> QED  BY <2>2, <3>1, <4>1, DequeueFindsIt DEF Settled, Sound
    <3>3. Held' = JobQueue!MoveToProcessing(Held, i) /\ i \in DOMAIN Held.pending
      BY <1>h, <3>2, SameOperations
    <3>4. CASE i = 1
      <4>1. Held.pending # << >>
        BY <3>3, EmptySeq
      <4>2. JobQueue!DequeueAny
        BY <2>1, <3>3, <3>4, <4>1 DEF JobQueue!DequeueAny, Held
      <4> QED  BY <4>2 DEF JobQueue!QueueNext
    <3>5. CASE i # 1
      <4>1. JobQueue!IsFirstOf(Held, i, QueueOf[op.id])
        BY <1>h, <3>1, <3>5, SameOperations
      <4>2. JobQueue!DequeueFrom(QueueOf[op.id])
        BY <2>1, <3>3, <4>1 DEF JobQueue!DequeueFrom, Held
      <4>3. QueueOf[op.id] \in QueueName
        BY <2>3, QueueAssumption
      <4> QED  BY <4>2, <4>3 DEF JobQueue!QueueNext
    <3> QED  BY <3>4, <3>5
  <2>6. CASE op.op = "Ack"
    <3>1. logged' = Ack(logged, op.id)
      BY <2>1, <2>6 DEF Apply
    <3>2. CASE ~IsProcessing(logged, op.id)
      BY <1>s, <2>1, <3>1, <3>2 DEF Ack
    <3>3. CASE IsProcessing(logged, op.id)
      <4>1. Held' = JobQueue!Ack(Held, op.id) /\ JobQueue!IsProcessing(Held, op.id)
        BY <1>h, <3>1, <3>3, SameOperations
      <4>2. JobQueue!AckJob(op.id)
        BY <2>1, <4>1 DEF JobQueue!AckJob, Held
      <4> QED  BY <2>3, <4>2 DEF JobQueue!QueueNext
    <3> QED  BY <3>2, <3>3
  <2>7. CASE op.op = "Nack"
    <3>1. logged' = Nack(logged, op.id)
      BY <2>1, <2>7 DEF Apply
    <3>2. CASE ~IsProcessing(logged, op.id)
      BY <1>s, <2>1, <3>1, <3>2 DEF Nack
    <3>3. CASE IsProcessing(logged, op.id)
      <4>1. Held' = JobQueue!Nack(Held, op.id) /\ JobQueue!IsProcessing(Held, op.id)
        BY <1>h, <3>1, <3>3, SameOperations
      <4>2. JobQueue!NackJob(op.id)
        BY <2>1, <4>1 DEF JobQueue!NackJob, Held
      <4> QED  BY <2>3, <4>2 DEF JobQueue!QueueNext
    <3> QED  BY <3>2, <3>3
  <2> QED  BY <2>3, <2>4, <2>5, <2>6, <2>7
<1>2. CASE Tick
  <2>1. UNCHANGED logged /\ now < MaxTime /\ now' = now + 1
    BY <1>2 DEF Tick
  <2>2. UNCHANGED Held
    BY <1>h, <2>1
  <2>3. JobQueue!Tick
    BY <2>1, <2>2 DEF JobQueue!Tick, Held
  <2> QED  BY <2>3 DEF JobQueue!QueueNext
<1>3. CASE IoError
  <2>1. UNCHANGED <<logged, now>>
    BY <1>3 DEF IoError, ExactFaults
  <2> QED  BY <1>s, <2>1
<1>4. CASE \/ Recovery \/ Call \/ ApplyEvent \/ SkipRotation \/ RenameActive
           \/ TruncateSnapshot \/ WriteSnapshot \/ DeleteSegment \/ ResetActive
           \/ PromoteReady \/ Crash \/ UNCHANGED vars
  <2>1. UNCHANGED <<logged, now>>
    BY <1>4 DEF Recovery, Open, ReplayRecord, EndOfFile, Recovered, Call, BeginEnqueue,
       BeginDequeue, BeginAck, BeginNack, Begin, BeginCompact, ApplyEvent, SkipRotation,
       RenameActive, TruncateSnapshot, WriteSnapshot, DeleteSegment, ResetActive, Return,
       PromoteReady, Crash, vars
  <2> QED  BY <1>s, <2>1
<1> QED
  BY <1>1, <1>2, <1>3, <1>4 DEF Next, FileStep

(* The persistent queue implements the in-memory one: what clients see of  *)
(* PersistentQueue, through crashes and restarts, is a queue in which each *)
(* logged call takes effect once and at once.                              *)
THEOREM PersistentImplementsQueue ==
  ASSUME ExactFaults, NoSchedules
  PROVE  Spec => ImplementsQueue
<1>1. CleanFaults
  BY DEF ExactFaults
<1> QED
  BY <1>1, InitLegible, StepLegible, InitExact, StepExact, InitRefines, StepRefines,
     PersistentTyped, PTL DEF Spec, ImplementsQueue, JobQueue!QueueSpec
=============================================================================
