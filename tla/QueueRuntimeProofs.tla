-------------------------- MODULE QueueRuntimeProofs ------------------------
(***************************************************************************)
(* The queue server, for every set of workers, jobs, queues and limits and *)
(* any number of I/O errors and restarts: what the queue promises holds    *)
(* live and in recovery, from whatever snapshot and log; and the server's  *)
(* table of active jobs, its permits and its count of completions stay     *)
(* consistent through redeliveries, late answers, failed calls, heartbeat  *)
(* timeouts and restarts.                                                  *)
(***************************************************************************)
EXTENDS QueueRuntime, QueueProofs

-----------------------------------------------------------------------------
(* What a step does to the queue and to its files.                         *)

(* A pending entry is one of a job of a named queue.                       *)
LEMMA PendingJob ==
  ASSUME NEW v \in QueueValue, NEW i \in DOMAIN v.pending
  PROVE  v.pending[i].id \in Job /\ QueueOf[v.pending[i].id] \in QueueName
BY QueueFields, QueueAssumption DEF Entry

(* The job at the front of pending is a job.                               *)
LEMMA FrontIsHead ==
  ASSUME NEW v \in QueueValue, v.pending # << >>
  PROVE  Head(v.pending).id \in Job /\ Head(v.pending) = v.pending[1]
<1>1. Head(v.pending) = v.pending[1]
  BY QueueFields
<1> QED  BY <1>1, FrontIsPosition, PendingJob

(* An operation and a job make an event.                                   *)
LEMMA EventType ==
  ASSUME NEW op \in {"Enqueue", "Dequeue", "Ack", "Nack"}, NEW j \in Job
  PROVE  /\ [op |-> op, id |-> j] \in Event
         /\ op # "Enqueue" => NewJob([op |-> op, id |-> j]) = {}
         /\ op = "Enqueue" => NewJob([op |-> op, id |-> j]) = {j}
BY DEF Event, NewJob

(* The job that an event brings, if any, has an id of its own.             *)
Brings(e) == NewJob(e) = {} \/ IsNew(e.id)

(* One call of the queue, promotion, a tick, one step of recovery, or      *)
(* nothing.                                                                *)
QueueSide ==
  \/ \E e \in Event : Applies(e) /\ Brings(e) /\ (Succeeds \/ Fails)
  \/ \E e \in Event : Ignores(e) /\ Brings(e) /\ (Succeeds \/ Fails)
  \/ IsServing /\ PromoteReady /\ UNCHANGED <<disk, errors>>
  \/ Tick /\ UNCHANGED <<disk, errors>>
  \/ Restart
  \/ ReplayRecord
  \/ UNCHANGED <<queueVars, disk, errors>>

(* The handlers, the monitor and the tasks use the queue in these ways     *)
(* only.                                                                   *)
LEMMA StepQueueSide == TypeOK /\ [Next]_vars => QueueSide
<1> SUFFICES ASSUME TypeOK, [Next]_vars
             PROVE  QueueSide
  OBVIOUS
<1>t. q \in QueueValue
  BY DEF TypeOK, QueueTypeOK
<1>1. CASE \E j \in Job : SubmitJob(j)
  BY <1>1, EventType DEF SubmitJob, QueueSide, Brings
<1>2. CASE \E w \in Worker, n \in QueueName : DequeueNamed(w, n)
  <2>1. PICK i \in DOMAIN q.pending :
          LET e == [op |-> "Dequeue", id |-> q.pending[i].id]
          IN (Applies(e) \/ Ignores(e)) /\ (Succeeds \/ Fails)
    BY <1>2 DEF DequeueNamed
  <2> QED  BY <1>t, <2>1, PendingJob, EventType DEF QueueSide, Brings
<1>3. CASE \E w \in Worker : DequeueUnnamed(w)
  <2>1. LET e == [op |-> "Dequeue", id |-> Head(q.pending).id]
        IN (Applies(e) \/ Ignores(e)) /\ (Succeeds \/ Fails) /\ q.pending # << >>
    BY <1>3 DEF DequeueUnnamed
  <2> QED  BY <1>t, <2>1, FrontIsHead, EventType DEF QueueSide, Brings
<1>4. CASE \E w \in Worker, j \in Job : AckRequest(w, j)
  <2>1. PICK w \in Worker, j \in Job : Settle(w, [op |-> "Ack", id |-> j], TRUE)
    BY <1>4 DEF AckRequest
  <2> QED  BY <2>1, EventType DEF Settle, QueueSide, Brings
<1>5. CASE \E w \in Worker, j \in Job : NackRequest(w, j)
  <2>1. PICK w \in Worker, j \in Job : Settle(w, [op |-> "Nack", id |-> j], FALSE)
    BY <1>5 DEF NackRequest
  <2> QED  BY <2>1, EventType DEF Settle, QueueSide, Brings
<1>6. CASE \E w \in Worker : Finish(w)
  BY <1>6 DEF Finish, QueueSide, bounds
<1>7. CASE \E w \in Worker, j \in Job : Heartbeat(w, j)
  BY <1>7 DEF Heartbeat, QueueSide, bounds
<1>8. CASE \E j \in Job : GoStale(j)
  BY <1>8 DEF GoStale, QueueSide, bounds
<1>9. CASE MonitorScan
  BY <1>9 DEF MonitorScan, QueueSide, bounds
<1>10. CASE \E j \in Job : MonitorNack(j)
  BY <1>10, EventType DEF MonitorNack, QueueSide, Brings
<1>11. CASE MonitorFinish
  BY <1>11 DEF MonitorFinish, QueueSide, bounds
<1>12. CASE Background
  BY <1>12 DEF Background, QueueSide, bounds
<1>13. CASE Restart \/ ReplayRecord
  BY <1>13 DEF QueueSide
<1>14. CASE UNCHANGED vars
  BY <1>14 DEF vars, QueueSide, bounds
<1> QED
  BY <1>1, <1>2, <1>3, <1>4, <1>5, <1>6, <1>7, <1>8, <1>9, <1>10, <1>11,
     <1>12, <1>13, <1>14 DEF Next

(* The queue, live or half replayed, and its files keep their types.       *)
LEMMA QueueSideTyped ==
  ASSUME TypeOK, QueueSide
  PROVE  /\ QueueTypeOK' /\ saved' \in QueueValue
         /\ records' \in Seq(Event) /\ unread' \in Seq(Event)
         /\ errors' \in Nat
<1>0. /\ q \in QueueValue /\ now \in Nat /\ saved \in QueueValue
      /\ records \in Seq(Event) /\ unread \in Seq(Event) /\ errors \in Nat
      /\ << >> \in Seq(Event)
  BY DEF TypeOK, QueueTypeOK
<1>1. ASSUME NEW e \in Event, Applies(e), Succeeds \/ Fails
      PROVE  /\ QueueTypeOK' /\ saved' \in QueueValue
             /\ records' \in Seq(Event) /\ unread' \in Seq(Event)
             /\ errors' \in Nat
  <2>1. q' \in QueueValue /\ now' \in Nat /\ unread' \in Seq(Event) /\ errors' \in Nat
    BY <1>0, <1>1, ApplyTyped DEF Applies, Succeeds, Fails
  <2>2. saved' \in QueueValue /\ records' \in Seq(Event)
    <3>1. CASE Keeps(e)
      BY <1>0, <3>1 DEF Keeps
    <3>2. CASE Compacts
      BY <1>0, <2>1, <3>2 DEF Compacts
    <3> QED  BY <1>1, <3>1, <3>2 DEF Applies
  <2> QED  BY <2>1, <2>2 DEF QueueTypeOK
<1>2. ASSUME NEW e \in Event, Ignores(e), Succeeds \/ Fails
      PROVE  /\ QueueTypeOK' /\ saved' \in QueueValue
             /\ records' \in Seq(Event) /\ unread' \in Seq(Event)
             /\ errors' \in Nat
  BY <1>0, <1>2 DEF Ignores, Keeps, Succeeds, Fails, QueueTypeOK, queueVars
<1>3. CASE IsServing /\ PromoteReady /\ UNCHANGED <<disk, errors>>
  BY <1>0, <1>3, PromoteType DEF PromoteReady, disk, QueueTypeOK
<1>4. CASE Tick /\ UNCHANGED <<disk, errors>>
  BY <1>0, <1>4 DEF Tick, disk, QueueTypeOK
<1>5. CASE Restart
  BY <1>0, <1>5 DEF Restart, QueueTypeOK
<1>6. CASE ReplayRecord
  <2>1. unread # << >> /\ q' = Apply(q, Head(unread), now) /\ unread' = Tail(unread)
        /\ now' = now /\ saved' = saved /\ records' = records /\ errors' = errors
    BY <1>6 DEF ReplayRecord, bounds
  <2>2. Head(unread) \in Event /\ Tail(unread) \in Seq(Event)
    BY <1>0, <2>1
  <2> QED  BY <1>0, <2>1, <2>2, ApplyTyped DEF QueueTypeOK
<1>7. CASE UNCHANGED <<queueVars, disk, errors>>
  BY <1>0, <1>7 DEF queueVars, disk, QueueTypeOK
<1> QED  BY <1>1, <1>2, <1>3, <1>4, <1>5, <1>6, <1>7 DEF QueueSide

-----------------------------------------------------------------------------
(* Types.                                                                  *)

(* acquire_permit and register_processing keep the tables typed.           *)
LEMMA RegisterTyped ==
  ASSUME TypeOK, NEW j \in Job, Register(j)
  PROVE  /\ permits' \in [QueueName -> Nat]
         /\ active' \subseteq Job
         /\ stale' \subseteq active'
         /\ orphaned' \subseteq active'
BY QueueAssumption DEF TypeOK, Register

(* finish_job keeps the tables typed.                                      *)
LEMMA FinishJobTyped ==
  ASSUME TypeOK, NEW j \in Job, NEW success \in BOOLEAN, FinishJob(j, success)
  PROVE  /\ permits' \in [QueueName -> Nat]
         /\ active' \subseteq Job
         /\ stale' \subseteq active'
         /\ orphaned' \subseteq active'
         /\ completions' \in [QueueName -> Nat]
<1>1. QueueOf[j] \in QueueName
  BY QueueAssumption
<1>2. CASE j \in active
  <2>1. /\ active' = active \ {j} /\ stale' = stale \ {j} /\ orphaned' = orphaned \ {j}
        /\ permits' = [permits EXCEPT ![QueueOf[j]] = @ + 1]
        /\ \/ completions' = [completions EXCEPT ![QueueOf[j]] = @ + 1]
           \/ completions' = completions
    BY <1>2 DEF FinishJob
  <2>2. permits' \in [QueueName -> Nat]
    BY <1>1, <2>1 DEF TypeOK
  <2>3. completions' \in [QueueName -> Nat]
    BY <1>1, <2>1 DEF TypeOK
  <2>4. active' \subseteq Job /\ stale' \subseteq active' /\ orphaned' \subseteq active'
    BY <2>1 DEF TypeOK
  <2> QED  BY <2>2, <2>3, <2>4
<1>3. CASE j \notin active
  BY <1>3 DEF TypeOK, FinishJob
<1> QED  BY <1>2, <1>3

(* An ack or nack keeps the tables typed, whatever comes of it.            *)
LEMMA SettleTyped ==
  ASSUME TypeOK, NEW w \in Worker, NEW e \in Event, NEW success \in BOOLEAN,
         Settle(w, e, success)
  PROVE  /\ finishing' \in [Worker -> Job \cup {NoJob}]
         /\ succeeded' \in [Worker -> BOOLEAN]
         /\ held' \in [Worker -> SUBSET Job]
         /\ orphaned' \subseteq active
         /\ UNCHANGED <<permits, active, stale, completions, suspects, nacked, restarts>>
<1>1. e.id \in Job
  BY DEF Event
<1>2. CASE Answer(w, e.id, success)
  BY <1>1, <1>2 DEF TypeOK, Settle, Answer, runtime, monitor
<1>3. CASE UNCHANGED clients /\ orphaned' \subseteq active
  BY <1>3 DEF TypeOK, Settle, clients, runtime, monitor
<1>4. ASSUME UNCHANGED clients
      PROVE  orphaned' \subseteq active
  BY <1>4 DEF TypeOK, Settle, Answer
<1> QED  BY <1>2, <1>3, <1>4 DEF Settle

(* Every step of the server keeps its variables typed.                     *)
LEMMA StepTyped == TypeOK /\ [Next]_vars => TypeOK'
<1> SUFFICES ASSUME TypeOK, [Next]_vars
             PROVE  TypeOK'
  OBVIOUS
<1>0. /\ QueueTypeOK' /\ saved' \in QueueValue
      /\ records' \in Seq(Event) /\ unread' \in Seq(Event)
      /\ errors' \in Nat
  BY StepQueueSide, QueueSideTyped
<1>t. q \in QueueValue
  BY DEF TypeOK, QueueTypeOK
<1>1. CASE \E j \in Job : SubmitJob(j)
  BY <1>0, <1>1 DEF TypeOK, SubmitJob, runtime, monitor, clients
<1>2. CASE \E w \in Worker, n \in QueueName : DequeueNamed(w, n)
  <2>1. PICK w \in Worker, i \in DOMAIN q.pending :
          \/ /\ Register(q.pending[i].id)
             /\ held' = [held EXCEPT ![w] = @ \cup {q.pending[i].id}]
          \/ UNCHANGED <<permits, active, stale, orphaned, held>>
    BY <1>2 DEF DequeueNamed
  <2>2. UNCHANGED <<completions, monitor, finishing, succeeded, restarts>>
    BY <1>2 DEF DequeueNamed
  <2>3. q.pending[i].id \in Job
    BY <1>t, PendingJob
  <2>4. CASE UNCHANGED <<permits, active, stale, orphaned, held>>
    BY <1>0, <2>2, <2>4 DEF TypeOK, monitor
  <2>5. CASE /\ Register(q.pending[i].id)
             /\ held' = [held EXCEPT ![w] = @ \cup {q.pending[i].id}]
    <3>1. held' \in [Worker -> SUBSET Job]
      BY <2>3, <2>5 DEF TypeOK
    <3> QED  BY <1>0, <2>2, <2>3, <2>5, <3>1, RegisterTyped DEF TypeOK, monitor
  <2> QED  BY <2>1, <2>4, <2>5
<1>3. CASE \E w \in Worker : DequeueUnnamed(w)
  <2>1. PICK w \in Worker : DequeueUnnamed(w)
    BY <1>3
  <2>2. Head(q.pending).id \in Job
    BY <1>t, <2>1, FrontIsHead DEF DequeueUnnamed
  <2>3. held' \in [Worker -> SUBSET Job]
    BY <2>1, <2>2 DEF TypeOK, DequeueUnnamed
  <2> QED  BY <1>0, <2>1, <2>3 DEF TypeOK, DequeueUnnamed, runtime, monitor
<1>4. CASE \E w \in Worker, j \in Job : AckRequest(w, j)
  BY <1>0, <1>4, EventType, SettleTyped DEF TypeOK, AckRequest
<1>5. CASE \E w \in Worker, j \in Job : NackRequest(w, j)
  BY <1>0, <1>5, EventType, SettleTyped DEF TypeOK, NackRequest
<1>6. CASE \E w \in Worker : Finish(w)
  <2> SUFFICES ASSUME NEW w \in Worker, Finish(w)
               PROVE  TypeOK'
    BY <1>6
  <2>1. finishing[w] \in Job /\ succeeded[w] \in BOOLEAN
    BY DEF TypeOK, Finish
  <2>2. FinishJob(finishing[w], succeeded[w])
    BY DEF Finish
  <2> QED
    BY <1>0, <2>1, <2>2, FinishJobTyped DEF TypeOK, Finish, monitor, bounds
<1>7. CASE \E w \in Worker, j \in Job : Heartbeat(w, j)
  BY <1>0, <1>7 DEF TypeOK, Heartbeat, monitor, clients, bounds
<1>8. CASE \E j \in Job : GoStale(j)
  BY <1>0, <1>8 DEF TypeOK, GoStale, monitor, clients, bounds
<1>9. CASE MonitorScan
  BY <1>0, <1>9 DEF TypeOK, MonitorScan, runtime, clients, bounds
<1>10. CASE \E j \in Job : MonitorNack(j)
  BY <1>0, <1>10 DEF TypeOK, MonitorNack, runtime, clients
<1>11. CASE MonitorFinish
  <2>1. nacked \in Job /\ FinishJob(nacked, FALSE)
    BY <1>11 DEF TypeOK, MonitorFinish
  <2> QED
    BY <1>0, <1>11, <2>1, FinishJobTyped DEF TypeOK, MonitorFinish, clients, bounds
<1>12. CASE Background
  BY <1>0, <1>12 DEF TypeOK, Background, runtime, monitor, clients, bounds
<1>13. CASE Restart
  BY <1>0, <1>13, RuntimeAssumption DEF TypeOK, Restart
<1>14. CASE ReplayRecord
  BY <1>0, <1>14 DEF TypeOK, ReplayRecord, runtime, monitor, clients, bounds
<1>15. CASE UNCHANGED vars
  BY <1>0, <1>15 DEF TypeOK, vars, runtime, monitor, clients, bounds
<1> QED
  BY <1>1, <1>2, <1>3, <1>4, <1>5, <1>6, <1>7, <1>8, <1>9, <1>10, <1>11,
     <1>12, <1>13, <1>14, <1>15 DEF Next

(* Every variable keeps its type: in particular no semaphore ever goes     *)
(* below zero.                                                             *)
THEOREM ServerTyped == Spec => []TypeOK
<1>1. Init => TypeOK
  <2> SUFFICES ASSUME Init  PROVE TypeOK
    OBVIOUS
  <2>1. QueueTypeOK /\ saved \in QueueValue
    BY QueueInitTyped, EmptyQueueType DEF Init
  <2> QED  BY <2>1, RuntimeAssumption DEF Init, TypeOK
<1> QED  BY <1>1, StepTyped, PTL DEF Spec

-----------------------------------------------------------------------------
(* Recovery.                                                               *)
(*                                                                         *)
(* The log brings no job twice, and none that the queue it is to be        *)
(* applied to has: neither the snapshot, nor during open the queue that    *)
(* has been made so far.  So replaying it is like making the calls, and    *)
(* what every call keeps, recovery keeps.                                  *)

Fresh(log, v) ==
  /\ \A i, k \in DOMAIN log : i # k => NewJob(log[i]) \cap NewJob(log[k]) = {}
  /\ \A i \in DOMAIN log : NewJob(log[i]) \cap Known(v) = {}

Recoverable ==
  /\ Good(q, now) /\ Good(saved, now)
  /\ Fresh(records, saved)
  /\ Fresh(unread, q)

(* One event more.                                                         *)
LEMMA FreshAppend ==
  ASSUME NEW log \in Seq(Event), NEW v, Fresh(log, v), NEW e \in Event,
         NewJob(e) \cap Known(v) = {},
         \A i \in DOMAIN log : NewJob(e) \cap NewJob(log[i]) = {}
  PROVE  Fresh(Append(log, e), v)
<1> DEFINE new == Append(log, e)
<1>1. Len(log) \in Nat /\ DOMAIN log = 1..Len(log)
  OBVIOUS
<1>2. /\ DOMAIN new = 1..(Len(log) + 1)
      /\ \A i \in 1..Len(log) : new[i] = log[i]
      /\ new[Len(log) + 1] = e
  OBVIOUS
<1> HIDE DEF new
<1>3. \A i \in DOMAIN new :
         \/ i \in DOMAIN log /\ new[i] = log[i]
         \/ i = Len(log) + 1 /\ new[i] = e
  BY <1>1, <1>2
<1> QED  BY <1>3 DEF Fresh, new

(* One event is replayed.                                                  *)
LEMMA FreshTail ==
  ASSUME NEW log \in Seq(Event), log # << >>, NEW v, Fresh(log, v),
         NEW w, Known(w) \subseteq Known(v) \cup NewJob(Head(log))
  PROVE  /\ Head(log) \in Event /\ NewJob(Head(log)) \cap Known(v) = {}
         /\ Fresh(Tail(log), w)
<1>1. /\ Len(log) \in Nat /\ DOMAIN log = 1..Len(log) /\ 1 \in DOMAIN log
      /\ Head(log) = log[1] /\ Head(log) \in Event
      /\ DOMAIN Tail(log) = 1..(Len(log) - 1)
      /\ \A i \in 1..(Len(log) - 1) : Tail(log)[i] = log[i + 1]
  OBVIOUS
<1> DEFINE rest == Tail(log)
<1> HIDE DEF rest
<1>2. \A i \in DOMAIN rest : i + 1 \in DOMAIN log /\ i + 1 # 1 /\ rest[i] = log[i + 1]
  BY <1>1 DEF rest
<1>3. \A i \in DOMAIN rest : NewJob(rest[i]) \cap Known(w) = {}
  BY <1>1, <1>2 DEF Fresh
<1>4. \A i, k \in DOMAIN rest : i # k => i + 1 # k + 1
  BY <1>1 DEF rest
<1>5. \A i, k \in DOMAIN rest : i # k => NewJob(rest[i]) \cap NewJob(rest[k]) = {}
  BY <1>2, <1>4 DEF Fresh
<1> QED  BY <1>1, <1>3, <1>5 DEF Fresh, rest

(* A job that is new is in neither.                                        *)
LEMMA BringsNew ==
  ASSUME NEW e \in Event, Brings(e)
  PROVE  /\ NewJob(e) \cap Known(q) = {} /\ NewJob(e) \cap Known(saved) = {}
         /\ \A i \in DOMAIN records : NewJob(e) \cap NewJob(records[i]) = {}
BY DEF Brings, IsNew, NewJob

(* Every call of the queue, every failure of one and every step of         *)
(* recovery keeps the queue good and recoverable; and but for the restart  *)
(* itself none lets a job overtake another.                                *)
LEMMA QueueSideRecoverable ==
  ASSUME TypeOK, Recoverable, QueueSide
  PROVE  /\ Good(q', now') /\ Good(saved', now')
         /\ Fresh(records', saved') /\ Fresh(unread', q')
         /\ Restart \/ InLine(q, q')
<1>0. /\ q \in QueueValue /\ now \in Nat /\ saved \in QueueValue /\ NoDuplicate(q)
      /\ records \in Seq(Event) /\ unread \in Seq(Event)
      /\ Good(q, now) /\ Good(saved, now) /\ Fresh(records, saved) /\ Fresh(unread, q)
  BY DEF TypeOK, QueueTypeOK, Recoverable, Good, Sound
<1>e. \A v : Fresh(<< >>, v)
  BY DEF Fresh
<1>s. InLine(q, q)
  BY <1>0, SameInLine
<1>1. ASSUME NEW e \in Event, Applies(e), Brings(e)
      PROVE  /\ Good(q', now') /\ Good(saved', now')
             /\ Fresh(records', saved') /\ Fresh(unread', q')
             /\ InLine(q, q')
  <2>1. q' = Apply(q, e, now) /\ now' = now /\ unread' = << >>
    BY <1>1 DEF Applies, IsServing
  <2>2. Good(q', now) /\ InLine(q, q')
    BY <1>0, <1>1, <2>1, BringsNew, ApplyGood
  <2>3. CASE Keeps(e)
    BY <1>0, <1>1, <1>e, <2>1, <2>2, <2>3, BringsNew, FreshAppend DEF Keeps
  <2>4. CASE Compacts
    BY <1>e, <2>1, <2>2, <2>4 DEF Compacts
  <2> QED  BY <1>1, <2>3, <2>4 DEF Applies
<1>2. ASSUME NEW e \in Event, Ignores(e), Brings(e)
      PROVE  /\ Good(q', now') /\ Good(saved', now')
             /\ Fresh(records', saved') /\ Fresh(unread', q')
             /\ InLine(q, q')
  BY <1>0, <1>2, <1>s, BringsNew, FreshAppend DEF Ignores, Keeps, queueVars
<1>3. CASE IsServing /\ PromoteReady /\ UNCHANGED <<disk, errors>>
  <2>1. PICK s \in HeapOrders(Ready(q, now)) : q' = Promote(q, s)
    BY <1>3 DEF PromoteReady
  <2>2. Good(q', now) /\ InLine(q, q')
    BY <1>0, <2>1, PromoteGood
  <2> QED  BY <1>0, <1>3, <1>e, <2>2 DEF PromoteReady, IsServing, disk
<1>4. CASE Tick /\ UNCHANGED <<disk, errors>>
  <2>1. q' = q /\ now' = now + 1 /\ saved' = saved /\ records' = records /\ unread' = unread
    BY <1>4 DEF Tick, disk
  <2>2. Good(q, now + 1) /\ Good(saved, now + 1)
    BY <1>0, LaterDue DEF Good
  <2> QED  BY <1>0, <1>s, <2>1, <2>2
<1>5. CASE Restart
  BY <1>0, <1>5 DEF Restart
<1>6. CASE ReplayRecord
  <2>1. unread # << >> /\ q' = Apply(q, Head(unread), now) /\ unread' = Tail(unread)
        /\ now' = now /\ saved' = saved /\ records' = records
    BY <1>6 DEF ReplayRecord
  <2>2. Head(unread) \in Event /\ NewJob(Head(unread)) \cap Known(q) = {}
    BY <1>0, <2>1, FreshTail
  <2>3. Good(q', now) /\ InLine(q, q')
    BY <1>0, <2>1, <2>2, ApplyGood
  <2>4. Known(q') \subseteq Known(q) \cup NewJob(Head(unread))
    BY <1>0, <2>1, <2>2, ApplyOnward DEF Good, Onward
  <2>5. Fresh(unread', q')
    BY <1>0, <2>1, <2>4, FreshTail
  <2> QED  BY <1>0, <2>1, <2>3, <2>5
<1>7. CASE UNCHANGED <<queueVars, disk, errors>>
  BY <1>0, <1>7, <1>s DEF queueVars, disk
<1> QED  BY <1>1, <1>2, <1>3, <1>4, <1>5, <1>6, <1>7 DEF QueueSide

(* The properties of the queue say the same of q.                          *)
LEMMA GoodQueue ==
  ASSUME Good(q, now)
  PROVE  OnePlace /\ RetryAccounting /\ NotEarly
BY DEF Good, Sound, OnePlace, Accounts, Accounted, RetryAccounting, WithinBudget, ReasonsAgree,
   IsDead, IsCompleted, DueBy, NotEarly

(* The queue is good at all times, also while it is being recovered.       *)
LEMMA ServerRecoverable == Spec => []Recoverable
<1>1. Init => Recoverable
  <2> SUFFICES ASSUME Init  PROVE Recoverable
    OBVIOUS
  <2>1. q = EmptyQueue /\ saved = EmptyQueue /\ records = << >> /\ unread = << >>
    BY DEF Init, QueueInit
  <2>2. Good(q, now) /\ Good(saved, now)
    BY <2>1, EmptyQueueGood
  <2> QED  BY <2>1, <2>2 DEF Recoverable, Fresh
<1>2. TypeOK /\ Recoverable /\ [Next]_vars => Recoverable'
  <2> SUFFICES ASSUME TypeOK, Recoverable, [Next]_vars
               PROVE  Recoverable'
    OBVIOUS
  <2>1. /\ Good(q', now') /\ Good(saved', now')
        /\ Fresh(records', saved') /\ Fresh(unread', q')
    BY StepQueueSide, QueueSideRecoverable
  <2> QED
    BY <2>1
       DEF Recoverable, Good, Sound, NoDuplicate, Accounts, Accounted, DueBy, Fresh,
           PendingIds, ProcessingIds, Outstanding, Known, IsCompleted, IsDead
<1> QED  BY <1>1, <1>2, ServerTyped, PTL DEF Spec

(* No job is ever with the server in two places: no compaction, failed     *)
(* call or replay copies one.                                              *)
THEOREM ServerOnePlace == Spec => []OnePlace
<1>1. Recoverable => OnePlace
  BY GoodQueue DEF Recoverable
<1> QED  BY <1>1, ServerRecoverable, PTL

(* The server counts retries, and keeps reasons, as the queue does, also   *)
(* when the monitor and a late answer nack the same job, when a call fails *)
(* and when a restart replays the log over an older queue.                 *)
THEOREM ServerAccountsForRetries == Spec => []RetryAccounting
<1>1. Recoverable => RetryAccounting
  BY GoodQueue DEF Recoverable
<1> QED  BY <1>1, ServerRecoverable, PTL

(* The server hands out no job before its scheduled_at, nor does recovery  *)
(* make one available.                                                     *)
THEOREM ServerNotEarly == Spec => []NotEarly
<1>1. Recoverable => NotEarly
  BY GoodQueue DEF Recoverable
<1> QED  BY <1>1, ServerRecoverable, PTL

(* No handler, no background task and no replayed record lets a job        *)
(* overtake another.                                                       *)
THEOREM ServerFifo == Spec => FifoServed
<1>1. TypeOK /\ Recoverable /\ [Next]_vars => [restarts' = restarts => NoOvertaking]_vars
  <2> SUFFICES ASSUME TypeOK, Recoverable, [Next]_vars, restarts' = restarts
               PROVE  NoOvertaking
    OBVIOUS
  <2>1. ~Restart
    BY DEF Restart, TypeOK
  <2>2. InLine(q, q')
    BY <2>1, StepQueueSide, QueueSideRecoverable
  <2> QED  BY <2>2 DEF InLine, NoOvertaking
<1> QED  BY <1>1, ServerTyped, ServerRecoverable, PTL DEF Spec, FifoServed

-----------------------------------------------------------------------------
(* What a call that is applied does to the queue.                          *)

(* Each call applies its own operation; a dequeue, to the position it has  *)
(* found.                                                                  *)
LEMMA CallEffect ==
  ASSUME q \in QueueValue, NoDuplicate(q)
  PROVE  /\ \A j \in Job : Applies([op |-> "Enqueue", id |-> j]) => q' = Enqueue(q, j, now)
         /\ \A i \in DOMAIN q.pending :
              Applies([op |-> "Dequeue", id |-> q.pending[i].id]) => q' = MoveToProcessing(q, i)
         /\ \A j \in Job : Applies([op |-> "Ack", id |-> j]) => q' = Ack(q, j)
         /\ \A j \in Job : Applies([op |-> "Nack", id |-> j]) => q' = Nack(q, j)
BY DequeueFindsIt DEF Applies, Apply

(* An ack or nack takes its own job out of processing and no other.        *)
LEMMA SettleEffect ==
  ASSUME q \in QueueValue, NoDuplicate(q), NEW e \in Event, e.op \in {"Ack", "Nack"}, Applies(e)
  PROVE  \A k \in Job : k # e.id /\ IsProcessing(q, k) => IsProcessing(q', k)
<1>1. e.id \in Job
  BY DEF Event
<1>2. q' = Ack(q, e.id) \/ q' = Nack(q, e.id)
  BY DEF Applies, Apply
<1> QED  BY <1>1, <1>2, AckProcessing, NackProcessing

-----------------------------------------------------------------------------
(* An entry of active_jobs outlives its job's processing only on the way   *)
(* to its removal, or after an I/O error.  Whoever ends the processing (a  *)
(* worker's answer, a late one, the monitor) is committed to finish_job if *)
(* the call returns Ok, and a redelivery puts the job back into processing *)
(* before it touches the entry.  While the log is replayed there are no    *)
(* entries.                                                                *)
Tracked(j) == IsProcessing(q, j) \/ BeingFinished(j) \/ j \in orphaned

EntriesTracked ==
  /\ \A j \in active : Tracked(j)
  /\ unread # << >> => active = {}

(* A step that leaves the entries and the connections alone, and takes no  *)
(* job out of processing.                                                  *)
LEMMA SameTracked ==
  ASSUME NEW j, Tracked(j), IsProcessing(q, j) => IsProcessing(q', j),
         UNCHANGED <<nacked, finishing, orphaned>>
  PROVE  Tracked(j)'
<1>1. IsProcessing(q, j)' <=> IsProcessing(q', j)
  BY DEF IsProcessing
<1> QED  BY <1>1 DEF Tracked, BeingFinished

(* An ack or nack leaves every entry tracked.                              *)
LEMMA SettleTracked ==
  ASSUME TypeOK, NoDuplicate(q), NEW w \in Worker, NEW e \in Event, e.op \in {"Ack", "Nack"},
         NEW success, Settle(w, e, success), NEW j \in active, Tracked(j)
  PROVE  Tracked(j)'
<1>0. /\ q \in QueueValue /\ j \in Job /\ e.id \in Job /\ nacked' = nacked
      /\ active' = active
  BY DEF TypeOK, QueueTypeOK, Event, Settle, runtime, monitor
<1>1. CASE Applies(e) /\ Answer(w, e.id, success)
  <2>1. /\ finishing[w] = NoJob /\ finishing' = [finishing EXCEPT ![w] = e.id]
        /\ orphaned' = orphaned
    BY <1>1 DEF Settle, IsFree, Answer
  <2>2. CASE j = e.id
    BY <1>0, <2>1, <2>2 DEF Tracked, BeingFinished, TypeOK
  <2>3. CASE j # e.id /\ IsProcessing(q, j)
    <3>1. IsProcessing(q', j)
      BY <1>0, <1>1, <2>3, SettleEffect
    <3>2. IsProcessing(q, j)'
      BY <3>1 DEF IsProcessing
    <3> QED  BY <3>2 DEF Tracked
  <2>4. CASE BeingFinished(j) \/ j \in orphaned
    BY <1>0, <2>1, <2>4, RuntimeAssumption DEF Tracked, BeingFinished, TypeOK
  <2> QED  BY <2>2, <2>3, <2>4 DEF Tracked
<1>2. CASE Applies(e) /\ orphaned' = orphaned \cup ({e.id} \cap active) /\ UNCHANGED clients
  <2>1. CASE j = e.id
    BY <1>2, <2>1 DEF Tracked
  <2>2. CASE j # e.id /\ IsProcessing(q, j)
    <3>1. IsProcessing(q', j)
      BY <1>0, <1>2, <2>2, SettleEffect
    <3>2. IsProcessing(q, j)'
      BY <3>1 DEF IsProcessing
    <3> QED  BY <3>2 DEF Tracked
  <2>3. CASE BeingFinished(j) \/ j \in orphaned
    BY <1>0, <1>2, <2>3 DEF Tracked, BeingFinished, clients
  <2> QED  BY <2>1, <2>2, <2>3 DEF Tracked
<1>3. CASE Ignores(e) /\ UNCHANGED <<clients, orphaned>>
  BY <1>0, <1>3, SameTracked DEF Ignores, queueVars, clients
<1> QED  BY <1>1, <1>2, <1>3 DEF Settle

(* finish_job leaves the other entries tracked.                            *)
LEMMA FinishTracked ==
  ASSUME NEW j \in active, Tracked(j), NEW k, j # k,
         q' = q, orphaned' = orphaned \ {k},
         \A l : l # k /\ BeingFinished(l) => BeingFinished(l)'
  PROVE  Tracked(j)'
BY DEF Tracked, IsProcessing

(* Every step of the server keeps the entries tracked.                     *)
LEMMA StepTracked ==
  ASSUME TypeOK, NoDuplicate(q), EntriesTracked, [Next]_vars, NEW j \in active'
  PROVE  Tracked(j)' /\ unread' = << >>
<1>0. /\ q \in QueueValue /\ now \in Nat /\ active \subseteq Job /\ NoJob \notin Job
      /\ j \in active => Tracked(j) /\ unread = << >>
  BY RuntimeAssumption DEF TypeOK, QueueTypeOK, EntriesTracked
<1>1. CASE \E k \in Job : SubmitJob(k)
  <2>1. PICK k \in Job : SubmitJob(k)
    BY <1>1
  <2>2. q'.processing = q.processing
    BY <1>0, <2>1, CallEffect, EnqueueProcessing DEF SubmitJob, Ignores, queueVars
  <2>3. /\ UNCHANGED <<active, orphaned, nacked, finishing>> /\ unread' = << >>
    BY <2>1 DEF SubmitJob, Applies, Ignores, IsServing, runtime, monitor, clients
  <2> QED  BY <1>0, <2>2, <2>3, SameTracked DEF IsProcessing
<1>2. CASE \E w \in Worker, n \in QueueName : DequeueNamed(w, n)
  <2>1. PICK w \in Worker, n \in QueueName : DequeueNamed(w, n)
    BY <1>2
  <2>2. PICK i \in DOMAIN q.pending :
          LET e == [op |-> "Dequeue", id |-> q.pending[i].id] IN
          \/ Applies(e) /\ Register(q.pending[i].id)
          \/ (Applies(e) \/ Ignores(e)) /\ UNCHANGED <<permits, active, stale, orphaned, held>>
    BY <2>1 DEF DequeueNamed
  <2>3. /\ UNCHANGED <<nacked, finishing>> /\ unread' = << >>
    BY <2>1, <2>2 DEF DequeueNamed, Applies, Ignores, IsServing, monitor
  <2>4. q' = MoveToProcessing(q, i) \/ q' = q
    BY <1>0, <2>2, CallEffect DEF Ignores, queueVars
  <2>5. \A k \in Job : IsProcessing(q, k) => IsProcessing(q', k)
    BY <1>0, <2>4, MoveProcessing
  <2>6. CASE j \in active /\ orphaned' = orphaned
    BY <1>0, <2>3, <2>5, <2>6, SameTracked
  <2>7. CASE Register(q.pending[i].id) /\ j # q.pending[i].id
    <3>1. j \in active /\ Tracked(j)
      BY <1>0, <2>7 DEF Register
    <3>2. IsProcessing(q, j) => IsProcessing(q, j)'
      BY <1>0, <2>5, <3>1 DEF IsProcessing
    <3>3. orphaned' = orphaned \ {q.pending[i].id}
      BY <2>7 DEF Register
    <3> QED  BY <2>3, <2>7, <3>1, <3>2, <3>3 DEF Tracked, BeingFinished
  <2>8. CASE Register(q.pending[i].id) /\ j = q.pending[i].id /\ q' = MoveToProcessing(q, i)
    <3>1. IsProcessing(q', j)
      BY <1>0, <2>8, MoveProcessing
    <3> QED  BY <2>3, <3>1 DEF Tracked, IsProcessing
  <2> QED  BY <1>0, <2>2, <2>6, <2>7, <2>8, CallEffect
<1>3. CASE \E w \in Worker : DequeueUnnamed(w)
  <2>1. PICK w \in Worker : DequeueUnnamed(w)
    BY <1>3
  <2>2. /\ 1 \in DOMAIN q.pending /\ Head(q.pending) = q.pending[1]
    BY <1>0, <2>1, FrontIsPosition, FrontIsHead DEF DequeueUnnamed
  <2>3. q' = MoveToProcessing(q, 1) \/ q' = q
    BY <1>0, <2>1, <2>2, CallEffect DEF DequeueUnnamed, Ignores, queueVars
  <2>4. /\ UNCHANGED <<active, orphaned, nacked, finishing>> /\ unread' = << >>
    BY <2>1 DEF DequeueUnnamed, Applies, Ignores, IsServing, runtime, monitor
  <2> QED  BY <1>0, <2>2, <2>3, <2>4, MoveProcessing, SameTracked
<1>4. CASE \E w \in Worker, k \in Job : AckRequest(w, k) \/ NackRequest(w, k)
  <2>1. PICK w \in Worker, e \in Event, success \in BOOLEAN :
          e.op \in {"Ack", "Nack"} /\ Settle(w, e, success)
    BY <1>4, EventType DEF AckRequest, NackRequest
  <2>2. active' = active /\ unread' = << >>
    BY <2>1 DEF Settle, Applies, Ignores, IsServing, runtime
  <2> QED  BY <1>0, <2>1, <2>2, SettleTracked
<1>5. CASE \E w \in Worker : Finish(w)
  <2>1. PICK w \in Worker : Finish(w)
    BY <1>5
  <2>2. /\ j \in active /\ j # finishing[w]
        /\ finishing' = [finishing EXCEPT ![w] = NoJob]
        /\ orphaned' = orphaned \ {finishing[w]}
        /\ UNCHANGED <<q, nacked, unread>>
    BY <2>1 DEF Finish, FinishJob, queueVars, disk, monitor
  <2>3. \A l : l # finishing[w] /\ BeingFinished(l) => BeingFinished(l)'
    BY <2>2 DEF BeingFinished, TypeOK
  <2> QED  BY <1>0, <2>2, <2>3, FinishTracked
<1>6. CASE \E w \in Worker, k \in Job : Heartbeat(w, k)
  BY <1>0, <1>6, SameTracked DEF Heartbeat, queueVars, disk, monitor, clients
<1>7. CASE \E k \in Job : GoStale(k)
  BY <1>0, <1>7, SameTracked DEF GoStale, queueVars, disk, monitor, clients
<1>8. CASE MonitorScan
  BY <1>0, <1>8, SameTracked DEF MonitorScan, queueVars, disk, runtime, clients
<1>9. CASE \E k \in Job : MonitorNack(k)
  <2>1. PICK k \in Job : MonitorNack(k)
    BY <1>9
  <2>2. /\ nacked = NoJob /\ nacked' = k
        /\ UNCHANGED <<active, orphaned, finishing>>
    BY <2>1 DEF MonitorNack, runtime, clients
  <2>3. unread' = << >>
    BY <2>1 DEF MonitorNack, Applies, Ignores, IsServing
  <2>4. q' = Nack(q, k) \/ q' = q
    BY <1>0, <2>1, CallEffect DEF MonitorNack, Ignores, queueVars
  <2>5. CASE j = k
    BY <2>2, <2>3, <2>5 DEF Tracked, BeingFinished
  <2>6. CASE j # k /\ IsProcessing(q, j)
    <3>1. IsProcessing(q', j)
      BY <1>0, <2>2, <2>4, <2>6, NackProcessing
    <3> QED  BY <2>3, <3>1 DEF Tracked, IsProcessing
  <2>7. CASE BeingFinished(j) \/ j \in orphaned
    BY <1>0, <2>2, <2>3, <2>7 DEF Tracked, BeingFinished
  <2> QED  BY <1>0, <2>2, <2>5, <2>6, <2>7 DEF Tracked
<1>10. CASE MonitorFinish
  <2>1. /\ j \in active /\ j # nacked
        /\ orphaned' = orphaned \ {nacked}
        /\ UNCHANGED <<q, finishing, unread>>
    BY <1>10 DEF MonitorFinish, FinishJob, queueVars, disk, clients
  <2>2. \A l : l # nacked /\ BeingFinished(l) => BeingFinished(l)'
    BY <2>1 DEF BeingFinished
  <2> QED  BY <1>0, <2>1, <2>2, FinishTracked
<1>11. CASE Background
  <2>1. q'.processing = q.processing
    BY <1>0, <1>11, PromoteEffect DEF Background, PromoteReady, Tick
  <2>2. UNCHANGED <<active, orphaned, nacked, finishing, unread>>
    BY <1>11 DEF Background, disk, runtime, monitor, clients
  <2> QED  BY <1>0, <2>1, <2>2, SameTracked DEF IsProcessing
<1>12. CASE Restart
  BY <1>12 DEF Restart
<1>13. CASE ReplayRecord
  BY <1>0, <1>13 DEF ReplayRecord, runtime
<1>14. CASE UNCHANGED vars
  BY <1>0, <1>14, SameTracked DEF vars, queueVars, disk, runtime, monitor, clients
<1> QED
  BY <1>1, <1>2, <1>3, <1>4, <1>5, <1>6, <1>7, <1>8, <1>9, <1>10, <1>11,
     <1>12, <1>13, <1>14 DEF Next

(* No permit is kept by an entry whose job is no longer being processed,   *)
(* but where a call that took effect has returned an I/O error.            *)
THEOREM ServerNoPermitLeak == Spec => []NoPermitLeak
<1>1. Init => EntriesTracked
  BY DEF Init, EntriesTracked
<1>2. TypeOK /\ Recoverable /\ EntriesTracked /\ [Next]_vars => EntriesTracked'
  BY StepTracked DEF EntriesTracked, Recoverable, Good, Sound
<1>3. EntriesTracked => NoPermitLeak
  BY DEF EntriesTracked, Tracked, NoPermitLeak
<1> QED  BY <1>1, <1>2, <1>3, ServerTyped, ServerRecoverable, PTL DEF Spec

-----------------------------------------------------------------------------
(* The permits of one queue, before and after an entry comes or goes.      *)

(* The active jobs of a queue can be counted.                              *)
LEMMA ActiveFinite ==
  ASSUME TypeOK, NEW n
  PROVE  IsFiniteSet(ActiveIn(n)) /\ Cardinality(ActiveIn(n)) \in Nat
BY QueueAssumption, FS_Subset, FS_CardinalityType DEF TypeOK, ActiveIn

(* A registration moves one permit from the semaphore to the entry; one    *)
(* that overwrites an entry puts that entry's permit back.                 *)
LEMMA RegisterConserves ==
  ASSUME TypeOK, PermitsConserved, NEW j \in Job, Register(j)
  PROVE  PermitsConserved'
<1> SUFFICES ASSUME NEW n \in QueueName
             PROVE  permits'[n] + Cardinality(ActiveIn(n)') = Limit[n]
  BY DEF PermitsConserved
<1>0. /\ permits[n] + Cardinality(ActiveIn(n)) = Limit[n]
      /\ permits \in [QueueName -> Nat]
      /\ Cardinality(ActiveIn(n)) \in Nat
      /\ Limit[n] \in Nat
  BY ActiveFinite, RuntimeAssumption DEF PermitsConserved, TypeOK
<1>1. CASE j \in active
  <2>1. active' = active /\ permits' = permits
    BY <1>1 DEF Register
  <2> QED  BY <1>0, <2>1 DEF ActiveIn
<1>2. CASE j \notin active /\ QueueOf[j] # n
  <2>1. ActiveIn(n)' = ActiveIn(n)
    BY <1>2 DEF Register, ActiveIn
  <2>2. permits'[n] = permits[n]
    BY <1>0, <1>2 DEF Register
  <2> QED  BY <1>0, <2>1, <2>2
<1>3. CASE j \notin active /\ QueueOf[j] = n
  <2>1. ActiveIn(n)' = ActiveIn(n) \cup {j} /\ j \notin ActiveIn(n)
    BY <1>3 DEF Register, ActiveIn
  <2>2. Cardinality(ActiveIn(n)') = Cardinality(ActiveIn(n)) + 1
    BY <2>1, ActiveFinite, FS_AddElement
  <2>3. permits'[n] = permits[n] - 1
    BY <1>0, <1>3 DEF Register
  <2> QED  BY <1>0, <2>2, <2>3
<1> QED  BY <1>1, <1>2, <1>3

(* finish_job gives a permit back exactly when it removes an entry.        *)
LEMMA FinishConserves ==
  ASSUME TypeOK, PermitsConserved, NEW j \in Job, NEW success, FinishJob(j, success)
  PROVE  PermitsConserved'
<1> SUFFICES ASSUME NEW n \in QueueName
             PROVE  permits'[n] + Cardinality(ActiveIn(n)') = Limit[n]
  BY DEF PermitsConserved
<1>0. /\ permits[n] + Cardinality(ActiveIn(n)) = Limit[n]
      /\ permits \in [QueueName -> Nat]
      /\ Cardinality(ActiveIn(n)) \in Nat
      /\ Limit[n] \in Nat
  BY ActiveFinite, RuntimeAssumption DEF PermitsConserved, TypeOK
<1>1. CASE j \notin active
  <2>1. active' = active /\ permits' = permits
    BY <1>1 DEF FinishJob
  <2> QED  BY <1>0, <2>1 DEF ActiveIn
<1>2. CASE j \in active /\ QueueOf[j] # n
  <2>1. ActiveIn(n)' = ActiveIn(n)
    BY <1>2 DEF FinishJob, ActiveIn
  <2>2. permits'[n] = permits[n]
    BY <1>0, <1>2 DEF FinishJob
  <2> QED  BY <1>0, <2>1, <2>2
<1>3. CASE j \in active /\ QueueOf[j] = n
  <2>1. ActiveIn(n)' = ActiveIn(n) \ {j} /\ j \in ActiveIn(n)
    BY <1>3 DEF FinishJob, ActiveIn
  <2>2. Cardinality(ActiveIn(n)') = Cardinality(ActiveIn(n)) - 1
    BY <2>1, ActiveFinite, FS_RemoveElement
  <2>3. permits'[n] = permits[n] + 1
    BY <1>0, <1>3 DEF FinishJob
  <2> QED  BY <1>0, <2>2, <2>3
<1> QED  BY <1>1, <1>2, <1>3

(* Every step of the server conserves the permits.                         *)
LEMMA StepConserves == TypeOK /\ PermitsConserved /\ [Next]_vars => PermitsConserved'
<1> SUFFICES ASSUME TypeOK, PermitsConserved, [Next]_vars
             PROVE  PermitsConserved'
  OBVIOUS
<1>t. q \in QueueValue
  BY DEF TypeOK, QueueTypeOK
<1>u. ASSUME UNCHANGED <<permits, active>>
      PROVE  PermitsConserved'
  BY <1>u DEF PermitsConserved, ActiveIn
<1>1. CASE \E j \in Job : SubmitJob(j)
  BY <1>1, <1>u DEF SubmitJob, runtime
<1>2. CASE \E w \in Worker, n \in QueueName : DequeueNamed(w, n)
  <2>1. PICK i \in DOMAIN q.pending :
          Register(q.pending[i].id) \/ UNCHANGED <<permits, active>>
    BY <1>2 DEF DequeueNamed
  <2> QED  BY <1>t, <1>u, <2>1, PendingJob, RegisterConserves
<1>3. CASE \E w \in Worker : DequeueUnnamed(w)
  BY <1>3, <1>u DEF DequeueUnnamed, runtime
<1>4. CASE \E w \in Worker, j \in Job : AckRequest(w, j)
  BY <1>4, <1>u DEF AckRequest, Settle, runtime
<1>5. CASE \E w \in Worker, j \in Job : NackRequest(w, j)
  BY <1>5, <1>u DEF NackRequest, Settle, runtime
<1>6. CASE \E w \in Worker : Finish(w)
  BY <1>6, FinishConserves DEF Finish, TypeOK
<1>7. CASE \E w \in Worker, j \in Job : Heartbeat(w, j)
  BY <1>7, <1>u DEF Heartbeat
<1>8. CASE \E j \in Job : GoStale(j)
  BY <1>8, <1>u DEF GoStale
<1>9. CASE MonitorScan
  BY <1>9, <1>u DEF MonitorScan, runtime
<1>10. CASE \E j \in Job : MonitorNack(j)
  BY <1>10, <1>u DEF MonitorNack, runtime
<1>11. CASE MonitorFinish
  BY <1>11, FinishConserves DEF MonitorFinish, TypeOK
<1>12. CASE Background
  BY <1>12, <1>u DEF Background, runtime
<1>13. CASE Restart
  <2>1. \A n \in QueueName : ActiveIn(n)' = {}
    BY <1>13 DEF Restart, ActiveIn
  <2>2. permits' = Limit
    BY <1>13 DEF Restart
  <2> QED  BY <2>1, <2>2, FS_EmptySet, RuntimeAssumption DEF PermitsConserved
<1>14. CASE ReplayRecord
  BY <1>14, <1>u DEF ReplayRecord, runtime
<1>15. CASE UNCHANGED vars
  BY <1>15, <1>u DEF vars, runtime
<1> QED
  BY <1>1, <1>2, <1>3, <1>4, <1>5, <1>6, <1>7, <1>8, <1>9, <1>10, <1>11,
     <1>12, <1>13, <1>14, <1>15 DEF Next

(* Every permit is free or owned by exactly one entry of active_jobs, for  *)
(* any number of workers, jobs and queues and any limits.                  *)
THEOREM ServerPermitsConserved == Spec => []PermitsConserved
<1>1. Init => PermitsConserved
  <2> SUFFICES ASSUME Init, NEW n \in QueueName
               PROVE  permits[n] + Cardinality(ActiveIn(n)) = Limit[n]
    BY DEF PermitsConserved
  <2>1. ActiveIn(n) = {} /\ permits = Limit
    BY DEF Init, ActiveIn
  <2> QED  BY <2>1, FS_EmptySet, RuntimeAssumption
<1> QED  BY <1>1, ServerTyped, StepConserves, PTL DEF Spec

-----------------------------------------------------------------------------
(* Completions are counted once.                                           *)
(*                                                                         *)
(* Between the queue's ack and finish_job, a completion is owed by exactly *)
(* one connection.  What has been counted is among the jobs that are       *)
(* completed and owed by none.                                             *)

Completing(w, j) == finishing[w] = j /\ succeeded[w]

Settled(n) == {j \in CompletedIn(n) : \A w \in Worker : ~Completing(w, j)}

CompletionsOwed ==
  \A j \in Job : \A v, w \in Worker :
     Completing(v, j) => IsCompleted(q, j) /\ (Completing(w, j) => v = w)

CompletionsCounted ==
  \A n \in QueueName : completions[n] <= Cardinality(Settled(n))

(* The settled jobs of a queue can be counted.                             *)
LEMMA SettledFinite ==
  ASSUME NEW n
  PROVE  /\ IsFiniteSet(Settled(n)) /\ Cardinality(Settled(n)) \in Nat
         /\ IsFiniteSet(CompletedIn(n))
         /\ Cardinality(Settled(n)) <= Cardinality(CompletedIn(n))
         /\ Cardinality(CompletedIn(n)) \in Nat
<1>1. IsFiniteSet(CompletedIn(n))
  BY QueueAssumption, FS_Subset DEF CompletedIn
<1>2. Settled(n) \subseteq CompletedIn(n)
  BY DEF Settled
<1> QED  BY <1>1, <1>2, FS_Subset, FS_CardinalityType

(* Live or in recovery, but for the restart itself, the queue forgets no   *)
(* completion.                                                             *)
LEMMA CompletedStay ==
  ASSUME TypeOK, Recoverable, QueueSide, ~Restart
  PROVE  \A j \in Job : IsCompleted(q, j) => IsCompleted(q', j)
<1>0. /\ q \in QueueValue /\ now \in Nat /\ Sound(q) /\ unread \in Seq(Event)
      /\ Fresh(unread, q)
  BY DEF TypeOK, QueueTypeOK, Recoverable, Good
<1>1. ASSUME NEW e \in Event, NewJob(e) \cap Known(q) = {}, q' = Apply(q, e, now)
      PROVE  \A j \in Job : IsCompleted(q, j) => IsCompleted(q', j)
  BY <1>0, <1>1, ApplyOnward DEF Onward
<1>2. CASE \E e \in Event : Applies(e) /\ Brings(e)
  BY <1>1, <1>2, BringsNew DEF Applies
<1>3. CASE IsServing /\ PromoteReady
  BY <1>0, <1>3, PromoteEffect DEF PromoteReady, IsCompleted
<1>4. CASE ReplayRecord
  <2>1. Head(unread) \in Event /\ NewJob(Head(unread)) \cap Known(q) = {}
    BY <1>0, <1>4, FreshTail DEF ReplayRecord
  <2> QED  BY <1>1, <1>4, <2>1 DEF ReplayRecord
<1>5. CASE q' = q
  BY <1>5
<1> QED  BY <1>2, <1>3, <1>4, <1>5 DEF QueueSide, Ignores, Tick, queueVars

(* A step that forgets no completion, answers no request and counts        *)
(* nothing.                                                                *)
LEMMA SameCount ==
  ASSUME CompletionsOwed, CompletionsCounted, completions \in [QueueName -> Nat],
         UNCHANGED <<finishing, succeeded, completions>>,
         \A j \in Job : IsCompleted(q, j) => IsCompleted(q', j)
  PROVE  (CompletionsOwed /\ CompletionsCounted)'
<1>1. \A j \in Job : IsCompleted(q, j) => IsCompleted(q, j)'
  BY DEF IsCompleted
<1>2. \A j \in Job, w \in Worker : Completing(w, j)' <=> Completing(w, j)
  BY DEF Completing
<1>3. CompletionsOwed'
  BY <1>1, <1>2 DEF CompletionsOwed
<1>4. ASSUME NEW n \in QueueName
      PROVE  completions'[n] <= Cardinality(Settled(n)')
  <2>1. Settled(n) \subseteq Settled(n)'
    BY <1>1, <1>2 DEF Settled, CompletedIn
  <2>2. IsFiniteSet(Settled(n)') /\ Cardinality(Settled(n)') \in Nat
    <3>1. Settled(n)' \subseteq Job
      BY DEF Settled, CompletedIn
    <3> QED  BY <3>1, QueueAssumption, FS_Subset, FS_CardinalityType
  <2>3. Cardinality(Settled(n)) <= Cardinality(Settled(n)') /\ Cardinality(Settled(n)) \in Nat
    BY <2>1, <2>2, FS_Subset, SettledFinite
  <2>4. completions[n] \in Nat /\ completions[n] <= Cardinality(Settled(n)) /\ completions'[n] = completions[n]
    BY DEF CompletionsCounted
  <2> QED  BY <2>2, <2>3, <2>4
<1> QED  BY <1>3, <1>4 DEF CompletionsCounted

(* An ack that returns Ok completes a job that was not, and leaves it to   *)
(* one connection to count it.                                             *)
LEMMA AckOwes ==
  ASSUME TypeOK, NoDuplicate(q), CompletionsOwed, CompletionsCounted,
         NEW w \in Worker, NEW j \in Job, IsFree(w), IsProcessing(q, j), q' = Ack(q, j),
         Answer(w, j, TRUE), completions' = completions
  PROVE  (CompletionsOwed /\ CompletionsCounted)'
<1>1. /\ finishing[w] = NoJob
      /\ finishing' = [finishing EXCEPT ![w] = j]
      /\ succeeded' = [succeeded EXCEPT ![w] = TRUE]
  BY DEF IsFree, Answer
<1>2. q \in QueueValue /\ NoDuplicate(q) /\ q.completed \in [Job -> Nat]
  BY QueueFields DEF TypeOK, QueueTypeOK
<1>3. ~IsCompleted(q, j)
  BY <1>2, Apart DEF IsProcessing, IsCompleted
<1>4. q'.completed = [q.completed EXCEPT ![j] = q.completed[j] + 1]
  BY <1>2, AckFields
<1>5. \A k \in Job : IsCompleted(q, k)' <=> IsCompleted(q, k) \/ k = j
  BY <1>2, <1>4 DEF IsCompleted
<1>6. \A k \in Job, v \in Worker :
         Completing(v, k)' <=> Completing(v, k) \/ (v = w /\ k = j)
  BY <1>1, RuntimeAssumption DEF Completing, TypeOK
<1>7. \A v \in Worker : ~Completing(v, j)
  BY <1>3 DEF CompletionsOwed
<1>8. CompletionsOwed'
  BY <1>5, <1>6, <1>7 DEF CompletionsOwed
<1>9. \A n \in QueueName : Settled(n)' = Settled(n)
  BY <1>3, <1>5, <1>6 DEF Settled, CompletedIn
<1> QED  BY <1>1, <1>8, <1>9 DEF CompletionsCounted

(* A failed job is not completed, and its connection owes nothing.         *)
LEMMA NackOwesNothing ==
  ASSUME TypeOK, CompletionsOwed, CompletionsCounted,
         NEW w \in Worker, NEW j \in Job, IsFree(w), IsProcessing(q, j), q' = Nack(q, j),
         Answer(w, j, FALSE), completions' = completions
  PROVE  (CompletionsOwed /\ CompletionsCounted)'
<1>1. /\ finishing[w] = NoJob
      /\ finishing' = [finishing EXCEPT ![w] = j]
      /\ succeeded' = [succeeded EXCEPT ![w] = FALSE]
  BY DEF IsFree, Answer
<1>2. q'.completed = q.completed
  BY NackFields DEF TypeOK, QueueTypeOK
<1>3. \A k \in Job : IsCompleted(q, k)' <=> IsCompleted(q, k)
  BY <1>2 DEF IsCompleted
<1>4. \A k \in Job, v \in Worker : Completing(v, k)' <=> Completing(v, k)
  BY <1>1, RuntimeAssumption DEF Completing, TypeOK
<1>5. \A n \in QueueName : Settled(n)' = Settled(n)
  BY <1>3, <1>4 DEF Settled, CompletedIn
<1> QED  BY <1>1, <1>3, <1>4, <1>5 DEF CompletionsOwed, CompletionsCounted

(* finish_job counts a completion that the connection owed, and settles it.*)
LEMMA FinishSettles ==
  ASSUME TypeOK, CompletionsOwed, CompletionsCounted, NEW w \in Worker, Finish(w)
  PROVE  (CompletionsOwed /\ CompletionsCounted)'
<1> DEFINE j == finishing[w]
<1>1. /\ j \in Job /\ q' = q
      /\ finishing' = [finishing EXCEPT ![w] = NoJob]
      /\ succeeded' = [succeeded EXCEPT ![w] = FALSE]
  BY DEF Finish, TypeOK, queueVars
<1>2. \A k \in Job, v \in Worker : Completing(v, k)' <=> Completing(v, k) /\ v # w
  BY <1>1, RuntimeAssumption DEF Completing, TypeOK
<1>3. CompletionsOwed'
  BY <1>1, <1>2 DEF CompletionsOwed, IsCompleted
<1>4. ASSUME NEW n \in QueueName
      PROVE  completions'[n] <= Cardinality(Settled(n)')
  <2>0. /\ completions[n] \in Nat /\ completions[n] <= Cardinality(Settled(n))
        /\ completions \in [QueueName -> Nat] /\ QueueOf[j] \in QueueName
    BY <1>1, QueueAssumption DEF TypeOK, CompletionsCounted
  <2>1. CASE succeeded[w] /\ QueueOf[j] = n
    <3>1. Settled(n)' = Settled(n) \cup {j} /\ j \notin Settled(n)
      <4>1. Completing(w, j) /\ IsCompleted(q, j)
        BY <1>1, <2>1 DEF Completing, CompletionsOwed
      <4>2. \A v \in Worker : Completing(v, j) => v = w
        BY <1>1, <4>1 DEF CompletionsOwed
      <4>3. \A k \in Job : k # j => ~Completing(w, k)
        BY DEF Completing
      <4> QED  BY <1>1, <1>2, <2>1, <4>1, <4>2, <4>3 DEF Settled, CompletedIn, IsCompleted
    <3>2. Cardinality(Settled(n)') = Cardinality(Settled(n)) + 1
      BY <3>1, SettledFinite, FS_AddElement
    <3>3. completions'[n] <= completions[n] + 1
      BY <2>0 DEF Finish, FinishJob
    <3>4. completions'[n] \in Nat /\ Cardinality(Settled(n)) \in Nat
      BY <2>0, SettledFinite DEF Finish, FinishJob
    <3> QED  BY <2>0, <3>2, <3>3, <3>4
  <2>2. CASE ~(succeeded[w] /\ QueueOf[j] = n)
    <3>1. Settled(n)' = Settled(n)
      <4>1. \A k \in CompletedIn(n) : ~Completing(w, k)
        BY <2>2 DEF Completing, CompletedIn
      <4> QED  BY <1>1, <1>2, <4>1 DEF Settled, CompletedIn, IsCompleted
    <3>2. completions'[n] = completions[n]
      BY <2>0, <2>2 DEF Finish, FinishJob
    <3> QED  BY <2>0, <3>1, <3>2
  <2> QED  BY <2>1, <2>2
<1> QED  BY <1>3, <1>4 DEF CompletionsCounted

(* Every step keeps the count of completions honest.                       *)
LEMMA StepCounts ==
  TypeOK /\ Recoverable /\ CompletionsOwed /\ CompletionsCounted /\ [Next]_vars
    => (CompletionsOwed /\ CompletionsCounted)'
<1> SUFFICES ASSUME TypeOK, Recoverable, CompletionsOwed, CompletionsCounted, [Next]_vars
             PROVE  (CompletionsOwed /\ CompletionsCounted)'
  OBVIOUS
<1>0. q \in QueueValue /\ NoDuplicate(q) /\ completions \in [QueueName -> Nat]
  BY DEF TypeOK, QueueTypeOK, Recoverable, Good, Sound
<1>q. ASSUME UNCHANGED <<finishing, succeeded, completions>>, ~Restart
      PROVE  (CompletionsOwed /\ CompletionsCounted)'
  BY <1>0, <1>q, StepQueueSide, CompletedStay, SameCount
<1>r. restarts' = restarts => ~Restart
  BY DEF Restart, TypeOK
<1>1. CASE \E j \in Job : SubmitJob(j)
  BY <1>1, <1>q, <1>r DEF SubmitJob, runtime, clients
<1>2. CASE \E w \in Worker, n \in QueueName : DequeueNamed(w, n)
  BY <1>2, <1>q, <1>r DEF DequeueNamed
<1>3. CASE \E w \in Worker : DequeueUnnamed(w)
  BY <1>3, <1>q, <1>r DEF DequeueUnnamed, runtime
<1>4. CASE \E w \in Worker, j \in Job : AckRequest(w, j)
  <2>1. PICK w \in Worker, j \in Job : Settle(w, [op |-> "Ack", id |-> j], TRUE)
    BY <1>4 DEF AckRequest
  <2>2. completions' = completions /\ restarts' = restarts /\ IsFree(w)
    BY <2>1 DEF Settle, runtime
  <2>3. CASE UNCHANGED clients
    BY <1>q, <1>r, <2>2, <2>3 DEF clients
  <2>4. CASE IsProcessing(q, j) /\ q' = Ack(q, j) /\ Answer(w, j, TRUE)
    BY <1>0, <2>2, <2>4, AckOwes
  <2> QED  BY <1>0, <2>1, <2>3, <2>4, CallEffect DEF Settle
<1>5. CASE \E w \in Worker, j \in Job : NackRequest(w, j)
  <2>1. PICK w \in Worker, j \in Job : Settle(w, [op |-> "Nack", id |-> j], FALSE)
    BY <1>5 DEF NackRequest
  <2>2. completions' = completions /\ restarts' = restarts /\ IsFree(w)
    BY <2>1 DEF Settle, runtime
  <2>3. CASE UNCHANGED clients
    BY <1>q, <1>r, <2>2, <2>3 DEF clients
  <2>4. CASE IsProcessing(q, j) /\ q' = Nack(q, j) /\ Answer(w, j, FALSE)
    BY <1>0, <2>2, <2>4, NackOwesNothing
  <2> QED  BY <1>0, <2>1, <2>3, <2>4, CallEffect DEF Settle
<1>6. CASE \E w \in Worker : Finish(w)
  BY <1>6, FinishSettles
<1>7. CASE \E w \in Worker, j \in Job : Heartbeat(w, j)
  BY <1>7, <1>q, <1>r DEF Heartbeat, clients, bounds
<1>8. CASE \E j \in Job : GoStale(j)
  BY <1>8, <1>q, <1>r DEF GoStale, clients, bounds
<1>9. CASE MonitorScan
  BY <1>9, <1>q, <1>r DEF MonitorScan, runtime, clients, bounds
<1>10. CASE \E j \in Job : MonitorNack(j)
  BY <1>10, <1>q, <1>r DEF MonitorNack, runtime, clients
<1>11. CASE MonitorFinish
  BY <1>11, <1>q, <1>r DEF MonitorFinish, FinishJob, clients, bounds
<1>12. CASE Background
  BY <1>12, <1>q, <1>r DEF Background, runtime, clients, bounds
<1>13. CASE Restart
  <2>1. \A n \in QueueName : Cardinality(Settled(n)') \in Nat /\ completions'[n] = 0
    <3> SUFFICES ASSUME NEW n \in QueueName
                 PROVE  Cardinality(Settled(n)') \in Nat /\ completions'[n] = 0
      OBVIOUS
    <3>1. Settled(n)' \subseteq Job
      BY DEF Settled, CompletedIn
    <3> QED  BY <1>13, <3>1, QueueAssumption, FS_Subset, FS_CardinalityType DEF Restart
  <2>2. \A w \in Worker, j \in Job : ~Completing(w, j)'
    BY <1>13 DEF Restart, Completing
  <2> QED  BY <2>1, <2>2 DEF CompletionsOwed, CompletionsCounted
<1>14. CASE ReplayRecord
  BY <1>14, <1>q, <1>r DEF ReplayRecord, runtime, clients, bounds
<1>15. CASE UNCHANGED vars
  BY <1>15, <1>q, <1>r DEF vars, runtime, clients, bounds
<1> QED
  BY <1>1, <1>2, <1>3, <1>4, <1>5, <1>6, <1>7, <1>8, <1>9, <1>10, <1>11,
     <1>12, <1>13, <1>14, <1>15 DEF Next

(* stats_for_queue reports no completion that the queue did not make: not  *)
(* for a job acked late, redelivered, timed out or nacked meanwhile.       *)
THEOREM ServerCompletionsReal == Spec => []CompletionsReal
<1>1. Init => CompletionsOwed /\ CompletionsCounted
  <2> SUFFICES ASSUME Init
               PROVE  CompletionsOwed /\ CompletionsCounted
    OBVIOUS
  <2>1. \A w \in Worker, j \in Job : ~Completing(w, j)
    BY DEF Init, Completing
  <2>2. \A n \in QueueName : completions[n] = 0
    BY DEF Init
  <2> QED  BY <2>1, <2>2, SettledFinite DEF CompletionsOwed, CompletionsCounted
<1>2. TypeOK /\ CompletionsCounted => CompletionsReal
  <2> SUFFICES ASSUME TypeOK, CompletionsCounted, NEW n \in QueueName
               PROVE  completions[n] <= Cardinality(CompletedIn(n))
    BY DEF CompletionsReal
  <2>1. completions[n] \in Nat /\ completions[n] <= Cardinality(Settled(n))
    BY DEF TypeOK, CompletionsCounted
  <2> QED  BY <2>1, SettledFinite
<1> QED  BY <1>1, <1>2, ServerTyped, ServerRecoverable, StepCounts, PTL DEF Spec

-----------------------------------------------------------------------------
(* The concurrency limit.                                                  *)
(*                                                                         *)
(* ConcurrencyLimit fails when a job is delivered again before finish_job  *)
(* has removed the entry of its earlier delivery.  Where no job is retried *)
(* (and permits are taken for every dequeue, and none is forgotten by a    *)
(* restart), that cannot be.  What is left is a call that fails: a dequeue *)
(* that leaves its job in processing and drops the permit, and a nack of   *)
(* the monitor that leaves the job and is followed by finish_job.  Each    *)
(* I/O error makes at most one job exceed the limit.                       *)

DeliveredOnce ==
  /\ \A j \in Job : MaxAttempts[j] <= 1
  /\ Roaming = {}
  /\ MaxRestarts = 0

IsOver(v, j) == IsCompleted(v, j) \/ IsDead(v, j)

IsHanded(v, j) == IsProcessing(v, j) \/ IsOver(v, j)

(* The jobs in processing that have no entry, or are about to lose it.     *)
Unguarded == {j \in Job : IsProcessing(q, j) /\ (j \notin active \/ nacked = j)}

(* What has an entry, or is suspected of having lost its worker, has been  *)
(* handed out; what a connection is about to finish is over; and each      *)
(* unguarded job stands for an error.                                      *)
EntriesStand ==
  /\ unread = << >>
  /\ \A j \in active \cup suspects : IsHanded(q, j)
  /\ nacked # NoJob => IsHanded(q, nacked)
  /\ \A w \in Worker : finishing[w] # NoJob => IsOver(q, finishing[w])
  /\ Cardinality(Unguarded) <= errors

(* The unguarded jobs can be counted.                                      *)
LEMMA UnguardedFinite ==
  ASSUME NEW S, S \subseteq Job
  PROVE  /\ IsFiniteSet(S) /\ Cardinality(S) \in Nat
         /\ \A T \in SUBSET S : Cardinality(T) <= Cardinality(S) /\ Cardinality(T) \in Nat
         /\ \A j : Cardinality(S \cup {j}) <= Cardinality(S) + 1
<1>1. IsFiniteSet(S) /\ Cardinality(S) \in Nat
  BY QueueAssumption, FS_Subset, FS_CardinalityType
<1>2. \A T \in SUBSET S : Cardinality(T) <= Cardinality(S) /\ Cardinality(T) \in Nat
  BY <1>1, FS_Subset, FS_CardinalityType
<1>3. \A j : Cardinality(S \cup {j}) <= Cardinality(S) + 1
  BY <1>1, FS_AddElement
<1> QED  BY <1>1, <1>2, <1>3

(* A move to processing ends nothing.                                      *)
LEMMA MoveHands ==
  ASSUME NEW v \in QueueValue, NEW i \in DOMAIN v.pending
  PROVE  LET w == MoveToProcessing(v, i) IN
         /\ \A k \in Job : IsProcessing(w, k) <=> IsProcessing(v, k) \/ k = v.pending[i].id
         /\ \A k \in Job : IsOver(w, k) <=> IsOver(v, k)
BY MoveEffect DEF IsProcessing, IsOver, IsCompleted, IsDead

(* An ack ends its job and no other.                                       *)
LEMMA AckEnds ==
  ASSUME NEW v \in QueueValue, NEW j \in Job, IsProcessing(v, j)
  PROVE  LET w == Ack(v, j) IN
         /\ \A k \in Job : IsProcessing(w, k) <=> IsProcessing(v, k) /\ k # j
         /\ \A k \in Job : IsOver(w, k) <=> IsOver(v, k) \/ k = j
<1> DEFINE w == Ack(v, j)
<1>1. /\ w.processing = {p \in v.processing : p.id # j}
      /\ w.dead_letter = v.dead_letter
      /\ w.completed = [v.completed EXCEPT ![j] = v.completed[j] + 1]
  BY AckFields
<1>2. v.completed \in [Job -> Nat]
  BY QueueFields
<1> HIDE DEF w
<1>3. \A k \in Job : IsProcessing(w, k) <=> IsProcessing(v, k) /\ k # j
  BY <1>1 DEF IsProcessing
<1>4. \A k \in Job : IsOver(w, k) <=> IsOver(v, k) \/ k = j
  BY <1>1, <1>2 DEF IsOver, IsCompleted, IsDead
<1> QED  BY <1>3, <1>4 DEF w

(* Without retries, so does a nack.                                        *)
LEMMA NackEnds ==
  ASSUME NEW v \in QueueValue, NEW j \in Job, IsProcessing(v, j), MaxAttempts[j] <= 1
  PROVE  LET w == Nack(v, j) IN
         /\ \A k \in Job : IsProcessing(w, k) <=> IsProcessing(v, k) /\ k # j
         /\ \A k \in Job : IsOver(w, k) <=> IsOver(v, k) \/ k = j
<1> DEFINE w == Nack(v, j)
<1>1. Dies(v, j)
  <2>1. (CHOOSE e \in v.processing : e.id = j).attempts \in Nat
    BY ProcessingEntry
  <2>2. MaxAttempts[j] \in Nat
    BY QueueAssumption
  <2> QED  BY <2>1, <2>2 DEF Dies
<1>2. /\ w.processing = {p \in v.processing : p.id # j}
      /\ w.completed = v.completed
      /\ w.dead_letter = [v.dead_letter EXCEPT ![j] = v.dead_letter[j] + 1]
  BY <1>1, NackFields
<1>3. v.dead_letter \in [Job -> Nat]
  BY QueueFields
<1> HIDE DEF w
<1>4. \A k \in Job : IsProcessing(w, k) <=> IsProcessing(v, k) /\ k # j
  BY <1>2 DEF IsProcessing
<1>5. \A k \in Job : IsOver(w, k) <=> IsOver(v, k) \/ k = j
  BY <1>2, <1>3 DEF IsOver, IsCompleted, IsDead
<1> QED  BY <1>4, <1>5 DEF w

(* A job that is processing or pending is not over.                        *)
LEMMA NotYetOver ==
  ASSUME NEW v \in QueueValue, NoDuplicate(v), NEW j \in Job,
         IsProcessing(v, j) \/ j \in PendingIds(v)
  PROVE  ~IsOver(v, j)
BY Apart DEF IsOver, IsCompleted, IsDead, IsProcessing, PendingIds

(* Without retries, an event takes back no job that has been handed out,   *)
(* and only a dequeue hands one out.                                       *)
LEMMA ApplyHanded ==
  ASSUME NEW v \in QueueValue, NoDuplicate(v), NEW e \in Event, NEW t \in Nat,
         MaxAttempts[e.id] <= 1, NEW w, w = Apply(v, e, t)
  PROVE  /\ \A k \in Job : IsOver(v, k) => IsOver(w, k)
         /\ \A k \in Job : IsHanded(v, k) => IsHanded(w, k)
         /\ \A k \in Job : IsProcessing(w, k) => \/ IsProcessing(v, k)
                                                 \/ e.op = "Dequeue" /\ k = e.id
<1>0. e.id \in Job
  BY DEF Event
<1>1. CASE w = v
  BY <1>1
<1>2. CASE e.op = "Enqueue"
  <2>1. /\ w.processing = v.processing /\ w.completed = v.completed
        /\ w.dead_letter = v.dead_letter
    BY <1>0, <1>2, EnqueueEffect DEF Apply
  <2> QED  BY <2>1 DEF IsHanded, IsOver, IsCompleted, IsDead, IsProcessing
<1>3. CASE e.op = "Dequeue" /\ w # v
  <2>1. PICK i \in DOMAIN v.pending : v.pending[i].id = e.id
    BY <1>3 DEF Apply, DequeueById, PendingIds
  <2>2. w = MoveToProcessing(v, i)
    BY <1>3, <2>1, DequeueFindsIt DEF Apply
  <2>3. /\ \A k \in Job : IsProcessing(w, k) <=> IsProcessing(v, k) \/ k = e.id
        /\ \A k \in Job : IsOver(w, k) <=> IsOver(v, k)
    BY <2>1, <2>2, MoveHands
  <2> QED  BY <1>3, <2>3 DEF IsHanded
<1>4. CASE e.op = "Ack" /\ w # v
  <2>1. w = Ack(v, e.id) /\ IsProcessing(v, e.id)
    BY <1>4 DEF Apply, Ack
  <2>2. /\ \A k \in Job : IsProcessing(w, k) <=> IsProcessing(v, k) /\ k # e.id
        /\ \A k \in Job : IsOver(w, k) <=> IsOver(v, k) \/ k = e.id
    BY <1>0, <2>1, AckEnds
  <2> QED  BY <2>2 DEF IsHanded
<1>5. CASE e.op = "Nack" /\ w # v
  <2>1. w = Nack(v, e.id) /\ IsProcessing(v, e.id)
    BY <1>5 DEF Apply, Nack
  <2>2. /\ \A k \in Job : IsProcessing(w, k) <=> IsProcessing(v, k) /\ k # e.id
        /\ \A k \in Job : IsOver(w, k) <=> IsOver(v, k) \/ k = e.id
    BY <1>0, <2>1, NackEnds
  <2> QED  BY <2>2 DEF IsHanded
<1> QED  BY <1>1, <1>2, <1>3, <1>4, <1>5 DEF Event

(* Nor does any other step.                                                *)
LEMMA StepHanded ==
  ASSUME DeliveredOnce, TypeOK, NoDuplicate(q), unread = << >>, QueueSide
  PROVE  /\ unread' = << >>
         /\ \A k \in Job : IsOver(q, k) => IsOver(q', k)
         /\ \A k \in Job : IsHanded(q, k) => IsHanded(q', k)
<1>0. q \in QueueValue /\ now \in Nat
  BY DEF TypeOK, QueueTypeOK
<1>1. ASSUME NEW e \in Event, Applies(e)
      PROVE  /\ unread' = << >>
             /\ \A k \in Job : IsOver(q, k) => IsOver(q', k)
             /\ \A k \in Job : IsHanded(q, k) => IsHanded(q', k)
  <2>1. q' = Apply(q, e, now) /\ unread' = << >> /\ MaxAttempts[e.id] <= 1
    BY <1>1 DEF Applies, IsServing, DeliveredOnce, Event
  <2> QED  BY <1>0, <2>1, ApplyHanded
<1>2. CASE IsServing /\ PromoteReady /\ UNCHANGED <<disk, errors>>
  <2>1. /\ q'.processing = q.processing /\ q'.completed = q.completed
        /\ q'.dead_letter = q.dead_letter
    BY <1>0, <1>2, PromoteEffect DEF PromoteReady
  <2> QED  BY <1>2, <2>1 DEF IsHanded, IsOver, IsCompleted, IsDead, IsProcessing, disk
<1>3. CASE Restart
  BY <1>3 DEF Restart, DeliveredOnce, TypeOK
<1>4. CASE ReplayRecord
  BY <1>4 DEF ReplayRecord
<1>5. CASE UNCHANGED <<q, unread>>
  BY <1>5
<1> QED  BY <1>1, <1>2, <1>3, <1>4, <1>5 DEF QueueSide, Ignores, Tick, queueVars, disk

(* It is enough that entries and suspects are added for jobs that have     *)
(* been handed out, that the monitor nacks a suspect, that a connection    *)
(* finishes what is over, and that each error leaves one job unguarded.    *)
LEMMA EntriesKept ==
  ASSUME EntriesStand, TypeOK, unread' = << >>,
         \A k \in Job : IsOver(q, k) => IsOver(q', k),
         \A k \in Job : IsHanded(q, k) => IsHanded(q', k),
         active' \cup suspects' \subseteq Job,
         \A k \in active' \cup suspects' : k \in active \cup suspects \/ IsHanded(q', k),
         nacked' \in suspects \cup {nacked, NoJob},
         \A w \in Worker : \/ finishing'[w] \in {finishing[w], NoJob}
                           \/ IsOver(q', finishing'[w]),
         \/ Unguarded' \subseteq Unguarded /\ errors' \in {errors, errors + 1}
         \/ (\E j : Unguarded' \subseteq Unguarded \cup {j}) /\ errors' = errors + 1
  PROVE  EntriesStand'
<1>0. /\ errors \in Nat /\ active \subseteq Job /\ suspects \subseteq Job
      /\ nacked \in Job \cup {NoJob} /\ finishing \in [Worker -> Job \cup {NoJob}]
  BY DEF TypeOK
<1>1. /\ \A k : IsHanded(q, k)' <=> IsHanded(q', k)
      /\ \A k : IsOver(q, k)' <=> IsOver(q', k)
  BY DEF IsHanded, IsOver, IsProcessing, IsCompleted, IsDead
<1>2. \A k \in active' \cup suspects' : IsHanded(q', k)
  BY <1>0 DEF EntriesStand
<1>3. nacked' # NoJob => IsHanded(q', nacked')
  BY <1>0 DEF EntriesStand
<1>4. \A w \in Worker : finishing'[w] # NoJob => IsOver(q', finishing'[w])
  BY <1>0 DEF EntriesStand
<1>5. Cardinality(Unguarded') <= errors'
  <2>0. Unguarded \subseteq Job /\ Cardinality(Unguarded) <= errors
    BY DEF Unguarded, EntriesStand
  <2>1. CASE Unguarded' \subseteq Unguarded /\ errors' \in {errors, errors + 1}
    BY <1>0, <2>0, <2>1, UnguardedFinite
  <2>2. ASSUME NEW j, Unguarded' \subseteq Unguarded \cup {j}, errors' = errors + 1
        PROVE  Cardinality(Unguarded') <= errors'
    <3>1. /\ Cardinality(Unguarded) \in Nat /\ IsFiniteSet(Unguarded)
          /\ Cardinality(Unguarded \cup {j}) <= Cardinality(Unguarded) + 1
      BY <2>0, UnguardedFinite
    <3>2. IsFiniteSet(Unguarded \cup {j}) /\ Cardinality(Unguarded \cup {j}) \in Nat
      BY <3>1, FS_AddElement, FS_CardinalityType
    <3>3. Cardinality(Unguarded') <= Cardinality(Unguarded \cup {j}) /\ Cardinality(Unguarded') \in Nat
      BY <2>2, <3>2, FS_Subset, FS_CardinalityType
    <3> QED  BY <1>0, <2>0, <2>2, <3>1, <3>2, <3>3
  <2> QED  BY <2>1, <2>2
<1> QED  BY <1>1, <1>2, <1>3, <1>4, <1>5 DEF EntriesStand

(* A step that puts no job into processing leaves as many unguarded.       *)
LEMMA SameUnguarded ==
  ASSUME \A k \in Job : IsProcessing(q', k) => IsProcessing(q, k),
         active' = active, nacked' = nacked
  PROVE  Unguarded' \subseteq Unguarded
<1>1. \A k : IsProcessing(q, k)' <=> IsProcessing(q', k)
  BY DEF IsProcessing
<1> QED  BY <1>1 DEF Unguarded

(* An ack or nack that returns Ok is followed by the finish of a job that  *)
(* is over.                                                                *)
LEMMA SettleStands ==
  ASSUME DeliveredOnce, TypeOK, NoDuplicate(q), EntriesStand, QueueSide,
         NEW w \in Worker, NEW e \in Event, e.op \in {"Ack", "Nack"}, NEW success,
         Settle(w, e, success)
  PROVE  EntriesStand'
<1>0. /\ q \in QueueValue /\ now \in Nat /\ e.id \in Job /\ MaxAttempts[e.id] <= 1
      /\ active \subseteq Job /\ suspects \subseteq Job
      /\ unread = << >>
      /\ UNCHANGED <<active, suspects, nacked>>
  BY DEF TypeOK, QueueTypeOK, Event, DeliveredOnce, EntriesStand, Settle, runtime, monitor
<1>1. /\ unread' = << >>
      /\ \A k \in Job : IsOver(q, k) => IsOver(q', k)
      /\ \A k \in Job : IsHanded(q, k) => IsHanded(q', k)
  BY <1>0, StepHanded
<1>2. \A k \in Job : IsProcessing(q', k) => IsProcessing(q, k)
  <2>1. CASE Applies(e)
    BY <1>0, <2>1, ApplyHanded DEF Applies
  <2>2. CASE Ignores(e)
    BY <2>2 DEF Ignores, queueVars
  <2> QED  BY <2>1, <2>2 DEF Settle
<1>3. Unguarded' \subseteq Unguarded
  BY <1>0, <1>2, SameUnguarded
<1>4. errors' \in {errors, errors + 1}
  BY DEF Settle, Succeeds, Fails
<1>5. \A v \in Worker : finishing'[v] = finishing[v] \/ IsOver(q', finishing'[v])
  <2>1. CASE UNCHANGED clients
    BY <2>1 DEF clients
  <2>2. CASE IsProcessing(q, e.id) /\ Applies(e) /\ Answer(w, e.id, success)
    <3>1. IsOver(q', e.id)
      <4>1. q' = Ack(q, e.id) \/ q' = Nack(q, e.id)
        BY <2>2 DEF Applies, Apply
      <4> QED  BY <1>0, <2>2, <4>1, AckEnds, NackEnds
    <3>2. finishing' = [finishing EXCEPT ![w] = e.id]
      BY <2>2 DEF Answer
    <3> QED  BY <3>1, <3>2 DEF TypeOK
  <2> QED  BY <2>1, <2>2 DEF Settle
<1> QED  BY <1>0, <1>1, <1>3, <1>4, <1>5, EntriesKept

(* Where no job is delivered twice, entries stand for what is processing.  *)
LEMMA StepEntriesStand ==
  ASSUME DeliveredOnce, TypeOK, NoDuplicate(q), EntriesStand, [Next]_vars
  PROVE  EntriesStand'
<1>0. /\ q \in QueueValue /\ now \in Nat /\ NoJob \notin Job /\ errors \in Nat
      /\ active \subseteq Job /\ suspects \subseteq Job /\ stale \subseteq active
      /\ finishing \in [Worker -> Job \cup {NoJob}] /\ nacked \in Job \cup {NoJob}
      /\ unread = << >>
  BY RuntimeAssumption DEF TypeOK, QueueTypeOK, EntriesStand
<1>h. /\ unread' = << >>
      /\ \A k \in Job : IsOver(q, k) => IsOver(q', k)
      /\ \A k \in Job : IsHanded(q, k) => IsHanded(q', k)
  BY <1>0, StepQueueSide, StepHanded
<1>q. ASSUME \A k \in Job : IsProcessing(q', k) => IsProcessing(q, k),
             active' = active, nacked' = nacked, finishing' = finishing,
             suspects' \subseteq active \cup suspects, errors' \in {errors, errors + 1}
      PROVE  EntriesStand'
  <2>1. Unguarded' \subseteq Unguarded
    BY <1>q, SameUnguarded
  <2> QED  BY <1>0, <1>h, <1>q, <2>1, EntriesKept
<1>1. CASE \E j \in Job : SubmitJob(j)
  <2>1. PICK j \in Job : SubmitJob(j)
    BY <1>1
  <2>2. q'.processing = q.processing
    BY <1>0, <2>1, CallEffect, EnqueueProcessing DEF SubmitJob, Ignores, queueVars
  <2>3. \A k \in Job : IsProcessing(q', k) => IsProcessing(q, k)
    BY <2>2 DEF IsProcessing
  <2> QED
    BY <1>q, <2>1, <2>3 DEF SubmitJob, runtime, monitor, clients, Succeeds, Fails
<1>2. CASE \E w \in Worker, n \in QueueName : DequeueNamed(w, n)
  <2>1. PICK w \in Worker, n \in QueueName : DequeueNamed(w, n)
    BY <1>2
  <2>2. PICK i \in DOMAIN q.pending :
          LET e == [op |-> "Dequeue", id |-> q.pending[i].id] IN
          \/ Applies(e) /\ Succeeds /\ Register(q.pending[i].id)
          \/ (Applies(e) \/ Ignores(e)) /\ Fails /\ UNCHANGED <<permits, active, stale, orphaned, held>>
    BY <2>1 DEF DequeueNamed
  <2> DEFINE j == q.pending[i].id
  <2>3. /\ j \in Job /\ ~IsHanded(q, j)
        /\ UNCHANGED <<nacked, finishing, suspects>>
    <3>1. ~IsOver(q, j) /\ ~IsProcessing(q, j)
      BY <1>0, PendingJob, NotYetOver, Apart DEF PendingIds, IsProcessing
    <3> QED  BY <1>0, <2>1, <3>1, PendingJob DEF DequeueNamed, monitor, IsHanded
  <2>4. q' = MoveToProcessing(q, i) \/ q' = q
    BY <1>0, <2>2, CallEffect DEF Ignores, queueVars
  <2>5. \A k \in Job : IsProcessing(q', k) => IsProcessing(q, k) \/ k = j
    BY <1>0, <2>4, MoveHands
  <2>6. \A k : IsProcessing(q, k)' <=> IsProcessing(q', k)
    BY DEF IsProcessing
  <2>7. CASE Applies([op |-> "Dequeue", id |-> j]) /\ Succeeds /\ Register(j)
    <3>1. q' = MoveToProcessing(q, i)
      BY <1>0, <2>7, CallEffect
    <3>2. IsHanded(q', j)
      BY <1>0, <2>3, <3>1, MoveHands DEF IsHanded
    <3>3. active' = active \cup {j} /\ errors' = errors
      BY <2>7 DEF Register, Succeeds
    <3>4. nacked # j
      BY <1>0, <2>3 DEF EntriesStand
    <3>5. Unguarded' \subseteq Unguarded
      BY <2>3, <2>5, <2>6, <3>3, <3>4 DEF Unguarded
    <3> HIDE DEF j
    <3> QED  BY <1>0, <1>h, <2>3, <3>2, <3>3, <3>5, EntriesKept
  <2>8. CASE Fails /\ UNCHANGED active
    <3>1. Unguarded' \subseteq Unguarded \cup {j} /\ errors' = errors + 1
      BY <2>3, <2>5, <2>6, <2>8 DEF Unguarded, Fails
    <3> HIDE DEF j
    <3> QED  BY <1>0, <1>h, <2>3, <2>8, <3>1, EntriesKept
  <2> QED  BY <2>2, <2>7, <2>8
<1>3. CASE \E w \in Worker : DequeueUnnamed(w)
  BY <1>3 DEF DequeueUnnamed, DeliveredOnce
<1>4. CASE \E w \in Worker, j \in Job : AckRequest(w, j) \/ NackRequest(w, j)
  <2>1. PICK w \in Worker, e \in Event, success \in BOOLEAN :
          e.op \in {"Ack", "Nack"} /\ Settle(w, e, success)
    BY <1>4, EventType DEF AckRequest, NackRequest
  <2> QED  BY <2>1, StepQueueSide, SettleStands
<1>5. CASE \E w \in Worker : Finish(w)
  <2>1. PICK w \in Worker : Finish(w)
    BY <1>5
  <2> DEFINE j == finishing[w]
  <2>2. /\ j \in Job /\ finishing' = [finishing EXCEPT ![w] = NoJob]
        /\ active' = active \ {j} /\ q' = q
        /\ UNCHANGED <<suspects, nacked, errors>>
    BY <2>1 DEF Finish, FinishJob, TypeOK, queueVars, monitor, bounds
  <2>3. IsOver(q, j) /\ ~IsProcessing(q, j)
    <3>1. IsOver(q, j)
      BY <1>0, <2>2 DEF EntriesStand
    <3> QED  BY <1>0, <2>2, <3>1, NotYetOver
  <2>4. Unguarded' \subseteq Unguarded
    BY <2>2, <2>3 DEF Unguarded, IsProcessing
  <2>5. \A v \in Worker : finishing'[v] \in {finishing[v], NoJob}
    BY <1>0, <2>2
  <2> HIDE DEF j
  <2> QED  BY <1>0, <1>h, <2>2, <2>4, <2>5, EntriesKept
<1>6. CASE \E w \in Worker, j \in Job : Heartbeat(w, j)
  BY <1>6, <1>q DEF Heartbeat, queueVars, monitor, clients, bounds
<1>7. CASE \E j \in Job : GoStale(j)
  BY <1>7, <1>q DEF GoStale, queueVars, monitor, clients, bounds
<1>8. CASE MonitorScan
  BY <1>0, <1>8, <1>q DEF MonitorScan, queueVars, runtime, clients, bounds
<1>9. CASE \E j \in Job : MonitorNack(j)
  <2>1. PICK j \in Job : MonitorNack(j)
    BY <1>9
  <2> DEFINE e == [op |-> "Nack", id |-> j]
  <2>2. /\ j \in suspects /\ suspects' = suspects \ {j} /\ nacked' = j /\ nacked = NoJob
        /\ UNCHANGED <<active, finishing>>
        /\ \/ IsProcessing(q, j) /\ Applies(e) /\ Succeeds
           \/ IsProcessing(q, j) /\ Ignores(e) /\ Fails
           \/ ~IsProcessing(q, j) /\ Ignores(e) /\ Succeeds
    BY <2>1 DEF MonitorNack, runtime, clients
  <2>3. \A k : IsProcessing(q, k)' <=> IsProcessing(q', k)
    BY DEF IsProcessing
  <2>4. CASE IsProcessing(q, j) /\ Applies(e) /\ Succeeds
    <3>1. q' = Nack(q, j) /\ errors' = errors /\ MaxAttempts[j] <= 1
      BY <1>0, <2>4, CallEffect DEF Succeeds, DeliveredOnce
    <3>2. \A k \in Job : IsProcessing(q', k) <=> IsProcessing(q, k) /\ k # j
      BY <1>0, <2>4, <3>1, NackEnds
    <3>3. Unguarded' \subseteq Unguarded
      BY <2>2, <2>3, <3>2 DEF Unguarded
    <3> QED  BY <1>0, <1>h, <2>2, <3>1, <3>3, EntriesKept
  <2>5. CASE Ignores(e) /\ Fails
    <3>1. q' = q /\ errors' = errors + 1
      BY <2>5 DEF Ignores, Fails, queueVars
    <3>2. Unguarded' \subseteq Unguarded \cup {j}
      BY <2>2, <3>1 DEF Unguarded, IsProcessing
    <3> QED  BY <1>0, <1>h, <2>2, <3>1, <3>2, EntriesKept
  <2>6. CASE ~IsProcessing(q, j) /\ Ignores(e) /\ Succeeds
    <3>1. q' = q /\ errors' = errors
      BY <2>6 DEF Ignores, Succeeds, queueVars
    <3>2. Unguarded' \subseteq Unguarded
      BY <2>2, <2>6, <3>1 DEF Unguarded, IsProcessing
    <3> QED  BY <1>0, <1>h, <2>2, <3>1, <3>2, EntriesKept
  <2> QED  BY <2>2, <2>4, <2>5, <2>6
<1>10. CASE MonitorFinish
  <2>1. /\ nacked \in Job /\ active' = active \ {nacked} /\ q' = q
        /\ nacked' = NoJob /\ UNCHANGED <<suspects, finishing, errors>>
    BY <1>0, <1>10 DEF MonitorFinish, FinishJob, queueVars, clients, bounds
  <2>2. Unguarded' \subseteq Unguarded
    BY <1>0, <2>1 DEF Unguarded, IsProcessing
  <2> QED  BY <1>0, <1>h, <2>1, <2>2, EntriesKept
<1>11. CASE Background
  <2>1. q'.processing = q.processing
    BY <1>0, <1>11, PromoteEffect DEF Background, PromoteReady, Tick
  <2>2. \A k \in Job : IsProcessing(q', k) => IsProcessing(q, k)
    BY <2>1 DEF IsProcessing
  <2> QED  BY <1>11, <1>q, <2>2 DEF Background, runtime, monitor, clients, bounds
<1>12. CASE Restart
  BY <1>12 DEF Restart, DeliveredOnce, TypeOK
<1>13. CASE ReplayRecord
  BY <1>0, <1>13 DEF ReplayRecord
<1>14. CASE UNCHANGED vars
  BY <1>14, <1>q DEF vars, queueVars, runtime, monitor, clients, bounds
<1> QED
  BY <1>1, <1>2, <1>3, <1>4, <1>5, <1>6, <1>7, <1>8, <1>9, <1>10, <1>11,
     <1>12, <1>13, <1>14 DEF Next

(* A permit for each entry, and an entry for each job in processing but    *)
(* one per error.                                                          *)
LimitUpToErrors ==
  \A n \in QueueName : Cardinality(ProcessingIn(n)) <= Limit[n] + errors

(* So no more jobs are processed than there are permits and errors.        *)
LEMMA EntriesLimit ==
  ASSUME TypeOK, NoDuplicate(q), EntriesStand, PermitsConserved
  PROVE  LimitUpToErrors
<1> SUFFICES ASSUME NEW n \in QueueName
             PROVE  Cardinality(ProcessingIn(n)) <= Limit[n] + errors
  BY DEF LimitUpToErrors
<1>1. /\ \A e \in q.processing : e.id \in Job
      /\ \A e, f \in q.processing : e.id = f.id => e = f
  <2>1. q \in QueueValue
    BY DEF TypeOK, QueueTypeOK
  <2> QED  BY <2>1, Apart
<1> DEFINE S == ActiveIn(n) \cup Unguarded
           f == [e \in ProcessingIn(n) |-> e.id]
<1>2. f \in Injection(ProcessingIn(n), S)
  <2>1. \A e \in ProcessingIn(n) : e.id \in S
    BY <1>1 DEF ProcessingIn, ActiveIn, Unguarded, IsProcessing
  <2> QED  BY <1>1, <2>1 DEF ProcessingIn, Injection, IsInjective
<1>3. /\ IsFiniteSet(ActiveIn(n)) /\ Cardinality(ActiveIn(n)) \in Nat
      /\ IsFiniteSet(Unguarded) /\ Cardinality(Unguarded) \in Nat
  <2>1. Unguarded \subseteq Job
    BY DEF Unguarded
  <2> QED  BY <2>1, ActiveFinite, UnguardedFinite
<1>4. IsFiniteSet(S) /\ Cardinality(S) \in Nat
      /\ Cardinality(S) <= Cardinality(ActiveIn(n)) + Cardinality(Unguarded)
  <2>1. /\ IsFiniteSet(S)
        /\ Cardinality(S) = Cardinality(ActiveIn(n)) + Cardinality(Unguarded)
                               - Cardinality(ActiveIn(n) \cap Unguarded)
    BY <1>3, FS_Union
  <2>2. Cardinality(ActiveIn(n) \cap Unguarded) \in Nat /\ Cardinality(S) \in Nat
    BY <1>3, <2>1, FS_Intersection, FS_CardinalityType
  <2> HIDE DEF S
  <2> QED  BY <1>3, <2>1, <2>2
<1> HIDE DEF f, S
<1>5. /\ IsFiniteSet(ProcessingIn(n))
      /\ Cardinality(ProcessingIn(n)) <= Cardinality(S)
  BY <1>2, <1>4, FS_Injection
<1>6. /\ permits[n] + Cardinality(ActiveIn(n)) = Limit[n]
      /\ permits[n] \in Nat /\ Limit[n] \in Nat
      /\ Cardinality(Unguarded) <= errors /\ errors \in Nat
  BY RuntimeAssumption DEF PermitsConserved, TypeOK, EntriesStand
<1>7. Cardinality(ProcessingIn(n)) \in Nat
  BY <1>5, FS_CardinalityType
<1> QED  BY <1>3, <1>4, <1>5, <1>6, <1>7

(* Where no job is delivered twice, the limit on the jobs of a queue that  *)
(* are processed at a time is kept, whoever times out or answers late, but *)
(* for one job per I/O error; without one, this is ConcurrencyLimit.       *)
THEOREM ServerKeepsLimit ==
  ASSUME DeliveredOnce
  PROVE  Spec => []LimitUpToErrors
<1>1. Init => EntriesStand
  <2> SUFFICES ASSUME Init  PROVE EntriesStand
    OBVIOUS
  <2>1. /\ q.processing = {} /\ active = {} /\ suspects = {} /\ nacked = NoJob
        /\ finishing = [w \in Worker |-> NoJob] /\ unread = << >> /\ errors = 0
    BY DEF Init, QueueInit, EmptyQueue
  <2>2. Unguarded = {}
    BY <2>1 DEF Unguarded, IsProcessing
  <2>3. Cardinality(Unguarded) = 0
    BY <2>2, FS_EmptySet
  <2> QED  BY <2>1, <2>3 DEF EntriesStand
<1>2. TypeOK /\ Recoverable /\ EntriesStand /\ [Next]_vars => EntriesStand'
  BY StepEntriesStand DEF Recoverable, Good, Sound
<1>3. TypeOK /\ Recoverable /\ EntriesStand /\ PermitsConserved => LimitUpToErrors
  BY EntriesLimit DEF Recoverable, Good, Sound
<1> QED
  BY <1>1, <1>2, <1>3, ServerTyped, ServerRecoverable, ServerPermitsConserved, PTL DEF Spec
=============================================================================
