--------------------------- MODULE QueueOpsProofs ---------------------------
(***************************************************************************)
(* What the operations of the queue preserve: the type of a queue value,   *)
(* the jobs it knows of, and NoDuplicate.  These lemmas serve the proofs   *)
(* about Queue, QueueRuntime and PersistentQueue alike.                    *)
(***************************************************************************)
EXTENDS QueueOps, FiniteSetTheorems, SequenceTheorems, WellFoundedInduction,
        TLAPS

-----------------------------------------------------------------------------
(* Removing one position of a sequence.                                    *)
LEMMA RemoveOne ==
  ASSUME NEW S, NEW s \in Seq(S), NEW i \in 1..Len(s)
  PROVE  /\ RemoveAt(s, i) \in Seq(S)
         /\ Len(RemoveAt(s, i)) = Len(s) - 1
         /\ \A k \in 1..(Len(s) - 1) :
              RemoveAt(s, i)[k] = IF k < i THEN s[k] ELSE s[k + 1]
<1> DEFINE l == SubSeq(s, 1, i - 1)
           r == SubSeq(s, i + 1, Len(s))
<1>0. /\ Len(s) \in Nat
      /\ \A k \in 1..Len(s) : s[k] \in S
  BY ElementOfSeq, LenProperties
<1>1. /\ l \in Seq(S)
      /\ Len(l) = i - 1
      /\ \A k \in 1..(i - 1) : l[k] = s[k]
  <2>1. \A k \in 1..(i - 1) : s[k] \in S
    BY <1>0
  <2> HIDE DEF l
  <2>2. /\ l \in Seq(S)
        /\ Len(l) = IF 1 <= i - 1 THEN (i - 1) - 1 + 1 ELSE 0
        /\ \A k \in 1..((i - 1) - 1 + 1) : l[k] = s[1 + k - 1]
    BY <1>0, <2>1, SubSeqProperties DEF l
  <2> QED  BY <1>0, <2>2
<1>2. /\ r \in Seq(S)
      /\ Len(r) = Len(s) - i
      /\ \A k \in 1..(Len(s) - i) : r[k] = s[k + i]
  <2>1. \A k \in (i + 1)..Len(s) : s[k] \in S
    BY <1>0
  <2> HIDE DEF r
  <2>2. /\ r \in Seq(S)
        /\ Len(r) = IF i + 1 <= Len(s) THEN Len(s) - (i + 1) + 1 ELSE 0
        /\ \A k \in 1..(Len(s) - (i + 1) + 1) : r[k] = s[(i + 1) + k - 1]
    BY <1>0, <2>1, SubSeqProperties DEF r
  <2> QED  BY <1>0, <2>2
<1>3. RemoveAt(s, i) = l \o r
  BY DEF RemoveAt
<1> HIDE DEF l, r
<1>4. /\ l \o r \in Seq(S)
      /\ Len(l \o r) = Len(l) + Len(r)
      /\ \A k \in 1..(Len(l) + Len(r)) :
           (l \o r)[k] = IF k <= Len(l) THEN l[k] ELSE r[k - Len(l)]
  BY <1>1, <1>2, ConcatProperties
<1>5. ASSUME NEW k \in 1..(Len(s) - 1)
      PROVE  (l \o r)[k] = IF k < i THEN s[k] ELSE s[k + 1]
  <2>1. CASE k < i
    BY <1>0, <1>1, <1>2, <1>4, <2>1
  <2>2. CASE ~(k < i)
    <3>1. k - Len(l) \in 1..(Len(s) - i) /\ k - Len(l) + i = k + 1
      BY <1>0, <1>1, <2>2
    <3>2. (l \o r)[k] = r[k - Len(l)]
      BY <1>0, <1>1, <1>2, <1>4, <2>2
    <3> QED  BY <1>2, <2>2, <3>1, <3>2
  <2> QED  BY <2>1, <2>2
<1> QED  BY <1>0, <1>1, <1>2, <1>3, <1>4, <1>5

(* Appending one element: the positions, old and new.                      *)
LEMMA AppendOne ==
  ASSUME NEW S, NEW s \in Seq(S), NEW e \in S
  PROVE  /\ Append(s, e) \in Seq(S)
         /\ DOMAIN Append(s, e) = 1..(Len(s) + 1)
         /\ \A k \in 1..Len(s) : Append(s, e)[k] = s[k]
         /\ Append(s, e)[Len(s) + 1] = e
BY AppendProperties, LenProperties

-----------------------------------------------------------------------------
(* Types.                                                                  *)

(* What QueueValue says of each container of the struct Queue.             *)
LEMMA QueueFields ==
  ASSUME NEW v \in QueueValue
  PROVE  /\ v = [pending     |-> v.pending,    processing |-> v.processing,
                 scheduled   |-> v.scheduled,  completed  |-> v.completed,
                 dead_letter |-> v.dead_letter, reasons   |-> v.reasons]
         /\ v.pending \in Seq(Entry)
         /\ DOMAIN v.pending = 1..Len(v.pending)
         /\ Len(v.pending) \in Nat
         /\ \A i \in DOMAIN v.pending : v.pending[i] \in Entry
         /\ v.processing \subseteq Entry
         /\ v.scheduled \subseteq Job
         /\ v.completed \in [Job -> Nat]
         /\ v.dead_letter \in [Job -> Nat]
         /\ v.reasons \subseteq Job
<1>1. v.pending \in Seq(Entry)
  BY DEF QueueValue
<1>2. /\ DOMAIN v.pending = 1..Len(v.pending)
      /\ Len(v.pending) \in Nat
      /\ \A i \in DOMAIN v.pending : v.pending[i] \in Entry
  BY <1>1, LenProperties, ElementOfSeq
<1> QED  BY <1>1, <1>2 DEF QueueValue

(* Queue::new makes a queue value.                                         *)
LEMMA EmptyQueueType == EmptyQueue \in QueueValue
BY EmptySeq DEF EmptyQueue, QueueValue

(* apply_enqueue makes a queue value of a queue value.                     *)
LEMMA EnqueueType ==
  ASSUME NEW v \in QueueValue, NEW j \in Job, NEW t \in Nat
  PROVE  Enqueue(v, j, t) \in QueueValue
<1>1. [id |-> j, attempts |-> 0] \in Entry
  BY DEF Entry
<1>2. Append(v.pending, [id |-> j, attempts |-> 0]) \in Seq(Entry)
  BY <1>1, QueueFields, AppendOne
<1> QED  BY <1>2, QueueFields DEF Enqueue, QueueValue

(* So does moving a pending job to processing.                             *)
LEMMA MoveType ==
  ASSUME NEW v \in QueueValue, NEW i \in DOMAIN v.pending
  PROVE  MoveToProcessing(v, i) \in QueueValue
<1>1. i \in 1..Len(v.pending) /\ v.pending[i] \in Entry
  BY QueueFields
<1>2. RemoveAt(v.pending, i) \in Seq(Entry)
  BY <1>1, QueueFields, RemoveOne
<1> QED  BY <1>1, <1>2, QueueFields DEF MoveToProcessing, QueueValue

(* What apply_ack does to a processing job, container by container.        *)
LEMMA AckEffect ==
  ASSUME NEW v \in QueueValue, NEW j \in Job, IsProcessing(v, j)
  PROVE  Ack(v, j) =
           [v EXCEPT !.processing = {p \in v.processing : p.id # j},
                     !.reasons    = v.reasons \ {j},
                     !.completed  = [v.completed EXCEPT ![j] = v.completed[j] + 1]]
<1>1. Ack(v, j) = [v EXCEPT !.processing   = {p \in @ : p.id # j},
                            !.reasons      = @ \ {j},
                            !.completed[j] = @ + 1]
  BY DEF Ack
<1>2. [v EXCEPT !.processing   = {p \in @ : p.id # j},
                !.reasons      = @ \ {j},
                !.completed[j] = @ + 1] =
      [v EXCEPT !.processing = {p \in v.processing : p.id # j},
                !.reasons    = v.reasons \ {j},
                !.completed  = [v.completed EXCEPT ![j] = v.completed[j] + 1]]
  BY QueueFields
<1> QED  BY <1>1, <1>2

(* apply_ack makes a queue value, and so it does when it is rejected.      *)
LEMMA AckType ==
  ASSUME NEW v \in QueueValue, NEW j \in Job
  PROVE  Ack(v, j) \in QueueValue
<1> DEFINE done == [v.completed EXCEPT ![j] = v.completed[j] + 1]
           rest == {p \in v.processing : p.id # j}
           left == v.reasons \ {j}
<1>1. done \in [Job -> Nat] /\ rest \in SUBSET Entry /\ left \in SUBSET Job
  BY QueueFields
<1>2. CASE ~IsProcessing(v, j)
  BY <1>2 DEF Ack
<1>3. CASE IsProcessing(v, j)
  <2>1. Ack(v, j) = [v EXCEPT !.processing = rest, !.reasons = left, !.completed = done]
    BY <1>3, AckEffect
  <2> HIDE DEF done, rest, left
  <2> QED  BY <1>1, <2>1, QueueFields DEF QueueValue
<1> QED  BY <1>2, <1>3

(* The entry of a processing job, and what nack makes of it.               *)
LEMMA ProcessingEntry ==
  ASSUME NEW v \in QueueValue, NEW j \in Job, IsProcessing(v, j)
  PROVE  LET e == CHOOSE e \in v.processing : e.id = j IN
         /\ e \in v.processing
         /\ e \in Entry
         /\ e.id = j
         /\ e.attempts \in Nat
         /\ [id |-> j, attempts |-> e.attempts + 1] \in Entry
BY QueueFields DEF IsProcessing, Entry

(* A nacked job dies, or joins the back of the line with one more attempt. *)
Dies(v, j) == (CHOOSE e \in v.processing : e.id = j).attempts + 1 >= MaxAttempts[j]

Requeued(v, j) ==
  [id |-> j, attempts |-> (CHOOSE e \in v.processing : e.id = j).attempts + 1]

(* What apply_nack does to a processing job: it dies or is requeued.       *)
LEMMA NackEffect ==
  ASSUME NEW v \in QueueValue, NEW j \in Job, IsProcessing(v, j)
  PROVE  /\ Requeued(v, j) \in Entry
         /\ Dies(v, j) =>
              Nack(v, j) =
                [v EXCEPT !.processing  = {p \in v.processing : p.id # j},
                          !.reasons     = v.reasons \cup {j},
                          !.dead_letter = [v.dead_letter EXCEPT ![j] = v.dead_letter[j] + 1]]
         /\ ~Dies(v, j) =>
              Nack(v, j) =
                [v EXCEPT !.processing = {p \in v.processing : p.id # j},
                          !.reasons    = v.reasons \cup {j},
                          !.pending    = Append(v.pending, Requeued(v, j))]
<1>1. Requeued(v, j) \in Entry
  BY ProcessingEntry DEF Requeued
<1>2. ASSUME Dies(v, j)
      PROVE  Nack(v, j) =
               [v EXCEPT !.processing     = {p \in v.processing : p.id # j},
                         !.reasons        = @ \cup {j},
                         !.dead_letter[j] = @ + 1]
  BY <1>2 DEF Nack, Dies
<1>3. ASSUME ~Dies(v, j)
      PROVE  Nack(v, j) =
               [v EXCEPT !.processing = {p \in v.processing : p.id # j},
                         !.reasons    = @ \cup {j},
                         !.pending    = Append(@, Requeued(v, j))]
  BY <1>3 DEF Nack, Dies, Requeued
<1>4. [v EXCEPT !.processing     = {p \in v.processing : p.id # j},
                !.reasons        = @ \cup {j},
                !.dead_letter[j] = @ + 1] =
      [v EXCEPT !.processing  = {p \in v.processing : p.id # j},
                !.reasons     = v.reasons \cup {j},
                !.dead_letter = [v.dead_letter EXCEPT ![j] = v.dead_letter[j] + 1]]
  BY QueueFields
<1>5. [v EXCEPT !.processing = {p \in v.processing : p.id # j},
                !.reasons    = @ \cup {j},
                !.pending    = Append(@, Requeued(v, j))] =
      [v EXCEPT !.processing = {p \in v.processing : p.id # j},
                !.reasons    = v.reasons \cup {j},
                !.pending    = Append(v.pending, Requeued(v, j))]
  BY QueueFields
<1> QED  BY <1>1, <1>2, <1>3, <1>4, <1>5

(* apply_nack makes a queue value of a queue value.                        *)
LEMMA NackType ==
  ASSUME NEW v \in QueueValue, NEW j \in Job
  PROVE  Nack(v, j) \in QueueValue
<1>1. CASE ~IsProcessing(v, j)
  BY <1>1 DEF Nack
<1>2. CASE IsProcessing(v, j)
  <2> DEFINE rest   == {p \in v.processing : p.id # j}
             failed == v.reasons \cup {j}
             dead   == [v.dead_letter EXCEPT ![j] = v.dead_letter[j] + 1]
             line   == Append(v.pending, Requeued(v, j))
  <2>0. line \in Seq(Entry)
    BY <1>2, QueueFields, AppendOne, NackEffect
  <2>1. /\ dead \in [Job -> Nat]
        /\ rest \in SUBSET Entry
        /\ failed \in SUBSET Job
    BY QueueFields
  <2>2. CASE Dies(v, j)
    <3>1. Nack(v, j) =
            [v EXCEPT !.processing = rest, !.reasons = failed, !.dead_letter = dead]
      BY <1>2, <2>2, NackEffect
    <3> HIDE DEF rest, failed, dead, line
    <3> QED  BY <2>1, <3>1, QueueFields DEF QueueValue
  <2>3. CASE ~Dies(v, j)
    <3>1. Nack(v, j) =
            [v EXCEPT !.processing = rest, !.reasons = failed, !.pending = line]
      BY <1>2, <2>3, NackEffect
    <3> HIDE DEF rest, failed, dead, line
    <3> QED  BY <2>0, <2>1, <3>1, QueueFields DEF QueueValue
  <2> QED  BY <2>2, <2>3
<1> QED  BY <1>1, <1>2

(* promote_ready_jobs makes a queue value, in whatever order it pops.      *)
LEMMA PromoteType ==
  ASSUME NEW v \in QueueValue, NEW t, NEW s \in HeapOrders(Ready(v, t))
  PROVE  Promote(v, s) \in QueueValue
<1> DEFINE n    == Cardinality(Ready(v, t))
           more == [i \in DOMAIN s |-> [id |-> s[i], attempts |-> 0]]
<1>1. s \in [1..n -> Job]
  BY QueueFields DEF HeapOrders, Ready
<1>2. n \in Nat
  BY QueueAssumption, QueueFields, FS_Subset, FS_CardinalityType DEF Ready
<1>3. more \in [1..n -> Entry]
  BY <1>1 DEF Entry
<1>4. more \in Seq(Entry)
  BY <1>2, <1>3, SeqDef
<1>5. v.pending \o more \in Seq(Entry)
  BY <1>4, QueueFields, ConcatProperties
<1> HIDE DEF more
<1>6. Promote(v, s) = [v EXCEPT !.scheduled = @ \ {s[i] : i \in DOMAIN s},
                                !.pending   = @ \o more]
  BY DEF Promote, more
<1> QED  BY <1>5, <1>6, QueueFields DEF QueueValue

-----------------------------------------------------------------------------
(* Apart from the moved entry, dequeuing keeps pending as it is, only      *)
(* shorter; the moved entry replaces any of the same id in processing.     *)
LEMMA MoveEffect ==
  ASSUME NEW v \in QueueValue, NEW i \in DOMAIN v.pending
  PROVE  LET w == MoveToProcessing(v, i) IN
         /\ w.processing = {p \in v.processing : p.id # v.pending[i].id} \cup {v.pending[i]}
         /\ w.scheduled = v.scheduled
         /\ w.completed = v.completed
         /\ w.dead_letter = v.dead_letter
         /\ w.reasons = v.reasons
         /\ DOMAIN w.pending = 1..(Len(v.pending) - 1)
         /\ \A k \in DOMAIN w.pending :
              w.pending[k] = IF k < i THEN v.pending[k] ELSE v.pending[k + 1]
<1> DEFINE w    == MoveToProcessing(v, i)
           rest == {p \in v.processing : p.id # v.pending[i].id} \cup {v.pending[i]}
           line == RemoveAt(v.pending, i)
<1>1. w = [v EXCEPT !.pending = line, !.processing = rest]
  BY QueueFields DEF MoveToProcessing
<1>2. /\ w.processing = rest
      /\ w.pending = line
      /\ w.scheduled = v.scheduled
      /\ w.completed = v.completed
      /\ w.dead_letter = v.dead_letter
      /\ w.reasons = v.reasons
  <2> HIDE DEF w, rest, line
  <2> QED  BY <1>1, QueueFields
<1>3. i \in 1..Len(v.pending)
  BY QueueFields
<1>4. /\ line \in Seq(Entry)
      /\ Len(line) = Len(v.pending) - 1
      /\ \A k \in 1..(Len(v.pending) - 1) :
           line[k] = IF k < i THEN v.pending[k] ELSE v.pending[k + 1]
  BY <1>3, QueueFields, RemoveOne
<1>5. DOMAIN line = 1..(Len(v.pending) - 1)
  BY <1>4, LenProperties
<1> HIDE DEF w, line
<1>6. QED
  BY <1>2, <1>4, <1>5 DEF w

(* The promoted jobs are the ready ones, each once, and join the back.     *)
LEMMA PromoteEffect ==
  ASSUME NEW v \in QueueValue, NEW t, NEW s \in HeapOrders(Ready(v, t))
  PROVE  LET w == Promote(v, s)
             n == Len(v.pending) IN
         /\ w.scheduled = v.scheduled \ Ready(v, t)
         /\ w.processing = v.processing
         /\ w.completed = v.completed
         /\ w.dead_letter = v.dead_letter
         /\ w.reasons = v.reasons
         /\ Cardinality(Ready(v, t)) \in Nat
         /\ DOMAIN s = 1..Cardinality(Ready(v, t))
         /\ DOMAIN w.pending = 1..(n + Cardinality(Ready(v, t)))
         /\ \A k \in 1..n : w.pending[k] = v.pending[k]
         /\ \A k \in DOMAIN s : w.pending[n + k] = [id |-> s[k], attempts |-> 0]
         /\ \A k \in DOMAIN s : s[k] \in Ready(v, t)
         /\ \A j \in Ready(v, t) : \E k \in DOMAIN s : s[k] = j
         /\ \A k, m \in DOMAIN s : k # m => s[k] # s[m]
<1> DEFINE c    == Cardinality(Ready(v, t))
           more == [i \in DOMAIN s |-> [id |-> s[i], attempts |-> 0]]
           w    == Promote(v, s)
           line == v.pending \o more
           left == v.scheduled \ {s[i] : i \in DOMAIN s}
<1>1. c \in Nat
  BY QueueAssumption, QueueFields, FS_Subset, FS_CardinalityType DEF Ready
<1>2. /\ DOMAIN s = 1..c
      /\ s \in [1..c -> Job]
      /\ \A k \in DOMAIN s : s[k] \in Ready(v, t)
      /\ {s[i] : i \in DOMAIN s} = Ready(v, t)
      /\ \A k, m \in DOMAIN s : k < m => s[k] # s[m]
  BY QueueFields DEF HeapOrders, Ready
<1>3. \A k, m \in DOMAIN s : k # m => s[k] # s[m]
  BY <1>1, <1>2
<1>4. \A j \in Ready(v, t) : \E k \in DOMAIN s : s[k] = j
  BY <1>2
<1>5. more \in Seq(Entry) /\ Len(more) = c
  <2>1. more \in [1..c -> Entry]
    BY <1>2 DEF Entry
  <2>2. more \in Seq(Entry)
    BY <1>1, <2>1, SeqDef
  <2> HIDE DEF more
  <2> QED  BY <1>1, <2>1, <2>2, LenProperties
<1>6. /\ line \in Seq(Entry)
      /\ Len(line) = Len(v.pending) + c
      /\ \A k \in 1..(Len(v.pending) + c) :
           line[k] = IF k <= Len(v.pending) THEN v.pending[k] ELSE more[k - Len(v.pending)]
  BY <1>5, QueueFields, ConcatProperties
<1>7. \A k \in 1..c : more[k] = [id |-> s[k], attempts |-> 0]
  BY <1>2
<1>8. w = [v EXCEPT !.scheduled = left, !.pending = line]
  BY QueueFields DEF Promote
<1>9. /\ w.pending = line
      /\ w.scheduled = left
      /\ w.processing = v.processing
      /\ w.completed = v.completed
      /\ w.dead_letter = v.dead_letter
      /\ w.reasons = v.reasons
  <2> HIDE DEF w, line, left
  <2> QED  BY <1>8, QueueFields
<1>10. left = v.scheduled \ Ready(v, t)
  BY <1>2
<1>11. DOMAIN line = 1..(Len(v.pending) + c)
  BY <1>6, LenProperties
<1> HIDE DEF c, more, w, line, left
<1>12. ASSUME NEW k \in 1..c
       PROVE  line[Len(v.pending) + k] = [id |-> s[k], attempts |-> 0]
  <2>1. /\ Len(v.pending) + k \in 1..(Len(v.pending) + c)
        /\ ~(Len(v.pending) + k <= Len(v.pending))
        /\ (Len(v.pending) + k) - Len(v.pending) = k
    BY <1>1, QueueFields
  <2>2. line[Len(v.pending) + k] = more[k]
    BY <1>6, <2>1
  <2> QED  BY <1>7, <2>2
<1>13. \A k \in 1..Len(v.pending) : line[k] = v.pending[k]
  BY <1>1, <1>6, QueueFields
<1> QED
  BY <1>1, <1>2, <1>3, <1>4, <1>9, <1>10, <1>11, <1>12, <1>13 DEF w, c

-----------------------------------------------------------------------------
(* A job that is looked for by id and is pending has a first copy.         *)
LEMMA FirstCopyExists ==
  ASSUME NEW v \in QueueValue, NEW j \in PendingIds(v)
  PROVE  \E i \in DOMAIN v.pending : IsFirstCopy(v, i, j)
<1> DEFINE T == {i \in DOMAIN v.pending : v.pending[i].id = j}
<1>1. T \subseteq Nat /\ T # {}
  BY QueueFields DEF PendingIds
<1>2. PICK i \in T : \A k \in T : ~(<<k, i>> \in OpToRel(<, Nat))
  BY <1>1, NatLessThanWellFounded, WFMin
<1>3. \A k \in T : ~(k < i)
  BY <1>1, <1>2 DEF OpToRel
<1>4. \A k \in 1..(i - 1) : v.pending[k].id # j
  BY <1>3, QueueFields
<1> QED  BY <1>4 DEF IsFirstCopy

(* apply_dequeue moves one pending job, or does nothing at all.            *)
LEMMA DequeueByIdIsMove ==
  ASSUME NEW v \in QueueValue, NEW j \in Job
  PROVE  \/ DequeueById(v, j) = v
         \/ \E i \in DOMAIN v.pending : DequeueById(v, j) = MoveToProcessing(v, i)
BY FirstCopyExists DEF DequeueById

(* A job that is acked leaves processing, and is completed.                *)
LEMMA AckFields ==
  ASSUME NEW v \in QueueValue, NEW j \in Job, IsProcessing(v, j)
  PROVE  LET w == Ack(v, j) IN
         /\ w.pending = v.pending /\ w.scheduled = v.scheduled
         /\ w.processing = {p \in v.processing : p.id # j}
         /\ w.dead_letter = v.dead_letter /\ w.reasons = v.reasons \ {j}
         /\ w.completed = [v.completed EXCEPT ![j] = v.completed[j] + 1]
<1> DEFINE w    == Ack(v, j)
           rest == {p \in v.processing : p.id # j}
           left == v.reasons \ {j}
           done == [v.completed EXCEPT ![j] = v.completed[j] + 1]
<1>1. w = [v EXCEPT !.processing = rest, !.reasons = left, !.completed = done]
  BY AckEffect
<1> HIDE DEF w
<1>2. /\ w.pending = v.pending /\ w.scheduled = v.scheduled /\ w.processing = rest
      /\ w.dead_letter = v.dead_letter /\ w.reasons = left /\ w.completed = done
  <2> HIDE DEF rest, left, done
  <2> QED  BY <1>1, QueueFields
<1> QED  BY <1>2 DEF w

(* A job that is nacked leaves processing, and dies or joins the line.     *)
LEMMA NackFields ==
  ASSUME NEW v \in QueueValue, NEW j \in Job, IsProcessing(v, j)
  PROVE  LET w == Nack(v, j) IN
         /\ w.scheduled = v.scheduled /\ w.completed = v.completed
         /\ w.processing = {p \in v.processing : p.id # j}
         /\ w.reasons = v.reasons \cup {j}
         /\ Dies(v, j) =>
              /\ w.pending = v.pending
              /\ w.dead_letter = [v.dead_letter EXCEPT ![j] = v.dead_letter[j] + 1]
         /\ ~Dies(v, j) =>
              /\ w.pending = Append(v.pending, Requeued(v, j))
              /\ w.dead_letter = v.dead_letter
<1> DEFINE w      == Nack(v, j)
           rest   == {p \in v.processing : p.id # j}
           failed == v.reasons \cup {j}
           dead   == [v.dead_letter EXCEPT ![j] = v.dead_letter[j] + 1]
           line   == Append(v.pending, Requeued(v, j))
<1>1. Dies(v, j) =>
        w = [v EXCEPT !.processing = rest, !.reasons = failed, !.dead_letter = dead]
  BY NackEffect
<1>2. ~Dies(v, j) =>
        w = [v EXCEPT !.processing = rest, !.reasons = failed, !.pending = line]
  BY NackEffect
<1> HIDE DEF w
<1>3. ASSUME Dies(v, j)
      PROVE  /\ w.pending = v.pending /\ w.scheduled = v.scheduled /\ w.processing = rest
             /\ w.dead_letter = dead /\ w.reasons = failed /\ w.completed = v.completed
  <2>1. w = [v EXCEPT !.processing = rest, !.reasons = failed, !.dead_letter = dead]
    BY <1>1, <1>3
  <2> HIDE DEF rest, failed, dead, line
  <2> QED  BY <2>1, QueueFields
<1>4. ASSUME ~Dies(v, j)
      PROVE  /\ w.pending = line /\ w.scheduled = v.scheduled /\ w.processing = rest
             /\ w.dead_letter = v.dead_letter /\ w.reasons = failed /\ w.completed = v.completed
  <2>1. w = [v EXCEPT !.processing = rest, !.reasons = failed, !.pending = line]
    BY <1>2, <1>4
  <2> HIDE DEF rest, failed, dead, line
  <2> QED  BY <2>1, QueueFields
<1> QED  BY <1>3, <1>4 DEF w

-----------------------------------------------------------------------------
(* No operation forgets a job.                                             *)

(* A job is known exactly when one of the five containers has it.          *)
LEMMA KnownPlaces ==
  ASSUME NEW v, NEW j \in Job
  PROVE  j \in Known(v) <=> \/ j \in PendingIds(v)
                            \/ j \in ProcessingIds(v)
                            \/ j \in v.scheduled
                            \/ v.completed[j] > 0
                            \/ v.dead_letter[j] > 0
BY DEF Known, IsCompleted, IsDead

(* An operation that takes jobs out of a container only to put them into   *)
(* the next one along forgets no job.                                      *)
LEMMA KnownGrows ==
  ASSUME NEW v, NEW w,
         v.scheduled \subseteq w.scheduled \cup PendingIds(w),
         PendingIds(v) \subseteq PendingIds(w) \cup ProcessingIds(w),
         \A j \in ProcessingIds(v) :
            \/ j \in PendingIds(w) \cup ProcessingIds(w)
            \/ w.completed[j] > 0
            \/ w.dead_letter[j] > 0,
         \A j \in Job : v.completed[j] > 0 => w.completed[j] > 0,
         \A j \in Job : v.dead_letter[j] > 0 => w.dead_letter[j] > 0
  PROVE  Known(v) \subseteq Known(w)
<1>1. ASSUME NEW j \in Job, j \in Known(v)
      PROVE  j \in Known(w)
  <2>1. \/ j \in PendingIds(v)
        \/ j \in ProcessingIds(v)
        \/ j \in v.scheduled
        \/ v.completed[j] > 0
        \/ v.dead_letter[j] > 0
    BY <1>1, KnownPlaces
  <2>2. \/ j \in PendingIds(w)
        \/ j \in ProcessingIds(w)
        \/ j \in w.scheduled
        \/ w.completed[j] > 0
        \/ w.dead_letter[j] > 0
    BY <2>1
  <2> QED  BY <2>2, KnownPlaces
<1> QED  BY <1>1 DEF Known

(* apply_enqueue forgets no job and knows the new one.                     *)
LEMMA EnqueueKnows ==
  ASSUME NEW v \in QueueValue, NEW j \in Job, NEW t \in Nat
  PROVE  Known(v) \cup {j} \subseteq Known(Enqueue(v, j, t))
<1> DEFINE new  == [id |-> j, attempts |-> 0]
           line == Append(v.pending, new)
           w    == Enqueue(v, j, t)
<1>1. /\ DOMAIN line = 1..(Len(v.pending) + 1)
      /\ \A k \in 1..Len(v.pending) : line[k] = v.pending[k]
      /\ line[Len(v.pending) + 1] = new
  BY QueueFields, AppendOne DEF Entry
<1>2. CASE ScheduledAt[j] > t
  <2>1. w = [v EXCEPT !.scheduled = @ \cup {j}]
    BY <1>2 DEF Enqueue
  <2>2. /\ w.pending = v.pending
        /\ w.processing = v.processing
        /\ w.scheduled = v.scheduled \cup {j}
        /\ w.completed = v.completed
        /\ w.dead_letter = v.dead_letter
    BY <2>1, QueueFields
  <2>3. PendingIds(w) = PendingIds(v) /\ ProcessingIds(w) = ProcessingIds(v)
    BY <2>2 DEF PendingIds, ProcessingIds
  <2>4. j \in Known(w)
    BY <2>2, KnownPlaces
  <2> HIDE DEF w
  <2>5. Known(v) \subseteq Known(w)
    BY <2>2, <2>3, KnownGrows
  <2> QED  BY <2>4, <2>5 DEF w
<1>3. CASE ~(ScheduledAt[j] > t)
  <2>1. w = [v EXCEPT !.pending = line]
    BY <1>3 DEF Enqueue
  <2>2. /\ w.pending = line
        /\ w.processing = v.processing
        /\ w.scheduled = v.scheduled
        /\ w.completed = v.completed
        /\ w.dead_letter = v.dead_letter
    <3> HIDE DEF line, w
    <3> QED  BY <2>1, QueueFields
  <2>3. PendingIds(v) \cup {j} \subseteq PendingIds(w)
    <3>1. ASSUME NEW k \in 1..Len(v.pending)
          PROVE  k \in DOMAIN line /\ line[k].id = v.pending[k].id
      <4> HIDE DEF line
      <4> QED  BY <1>1, QueueFields
    <3>2. Len(v.pending) + 1 \in DOMAIN line /\ line[Len(v.pending) + 1].id = j
      <4> HIDE DEF line
      <4> QED  BY <1>1, QueueFields
    <3> HIDE DEF line, w
    <3> QED  BY <2>2, <3>1, <3>2, QueueFields DEF PendingIds
  <2>4. ProcessingIds(w) = ProcessingIds(v)
    BY <2>2 DEF ProcessingIds
  <2>5. j \in Known(w)
    BY <2>3, KnownPlaces
  <2> HIDE DEF line, w
  <2>6. Known(v) \subseteq Known(w)
    BY <2>2, <2>3, <2>4, KnownGrows
  <2> QED  BY <2>5, <2>6 DEF w
<1> QED  BY <1>2, <1>3

(* Moving a job to processing forgets none, whatever it overwrites.        *)
LEMMA MoveKnows ==
  ASSUME NEW v \in QueueValue, NEW i \in DOMAIN v.pending
  PROVE  Known(v) \subseteq Known(MoveToProcessing(v, i))
<1> DEFINE w == MoveToProcessing(v, i)
<1>1. /\ w.processing = {p \in v.processing : p.id # v.pending[i].id} \cup {v.pending[i]}
      /\ w.scheduled = v.scheduled
      /\ w.completed = v.completed
      /\ w.dead_letter = v.dead_letter
      /\ DOMAIN w.pending = 1..(Len(v.pending) - 1)
      /\ \A k \in DOMAIN w.pending :
           w.pending[k] = IF k < i THEN v.pending[k] ELSE v.pending[k + 1]
  BY MoveEffect
<1> HIDE DEF w
<1>2. ProcessingIds(v) \subseteq ProcessingIds(w)
  BY <1>1 DEF ProcessingIds
<1>3. ASSUME NEW k \in DOMAIN v.pending
      PROVE  v.pending[k].id \in PendingIds(w) \cup ProcessingIds(w)
  <2>1. CASE k = i
    BY <1>1, <2>1 DEF ProcessingIds
  <2>2. CASE k < i
    <3>1. k \in DOMAIN w.pending /\ w.pending[k] = v.pending[k]
      BY <1>1, <2>2, QueueFields
    <3> QED  BY <3>1 DEF PendingIds
  <2>3. CASE k > i
    <3>1. k - 1 \in DOMAIN w.pending /\ w.pending[k - 1] = v.pending[k]
      BY <1>1, <2>3, QueueFields
    <3> QED  BY <3>1 DEF PendingIds
  <2> QED  BY <2>1, <2>2, <2>3, QueueFields
<1>4. PendingIds(v) \subseteq PendingIds(w) \cup ProcessingIds(w)
  BY <1>3 DEF PendingIds
<1>5. Known(v) \subseteq Known(w)
  BY <1>1, <1>2, <1>4, KnownGrows
<1> QED  BY <1>5 DEF w

(* apply_dequeue forgets no job.                                           *)
LEMMA DequeueByIdKnows ==
  ASSUME NEW v \in QueueValue, NEW j \in Job
  PROVE  Known(v) \subseteq Known(DequeueById(v, j))
BY DequeueByIdIsMove, MoveKnows

(* apply_ack forgets no job: the one it takes out is completed.            *)
LEMMA AckKnows ==
  ASSUME NEW v \in QueueValue, NEW j \in Job
  PROVE  Known(v) \subseteq Known(Ack(v, j))
<1>1. CASE ~IsProcessing(v, j)
  BY <1>1 DEF Ack
<1>2. CASE IsProcessing(v, j)
  <2> DEFINE w    == Ack(v, j)
             done == [v.completed EXCEPT ![j] = v.completed[j] + 1]
             rest == {p \in v.processing : p.id # j}
             left == v.reasons \ {j}
  <2>1. w = [v EXCEPT !.processing = rest, !.reasons = left, !.completed = done]
    BY <1>2, AckEffect
  <2>2. /\ w.pending = v.pending
        /\ w.processing = rest
        /\ w.scheduled = v.scheduled
        /\ w.completed = done
        /\ w.dead_letter = v.dead_letter
    <3> HIDE DEF w, done, rest, left
    <3> QED  BY <2>1, QueueFields
  <2>3. \A k \in Job : (v.completed[k] > 0 \/ k = j) => done[k] > 0
    BY QueueFields
  <2>4. ProcessingIds(v) \subseteq {p.id : p \in rest} \cup {j}
    BY DEF ProcessingIds
  <2>5. PendingIds(w) = PendingIds(v) /\ ProcessingIds(w) = {p.id : p \in rest}
    BY <2>2 DEF PendingIds, ProcessingIds
  <2> HIDE DEF w, done, rest
  <2>6. Known(v) \subseteq Known(w)
    BY <2>2, <2>3, <2>4, <2>5, KnownGrows
  <2> QED  BY <2>6 DEF w
<1> QED  BY <1>1, <1>2

(* apply_nack forgets no job: the one it takes out is pending or dead.     *)
LEMMA NackKnows ==
  ASSUME NEW v \in QueueValue, NEW j \in Job
  PROVE  Known(v) \subseteq Known(Nack(v, j))
<1>1. CASE ~IsProcessing(v, j)
  BY <1>1 DEF Nack
<1>2. CASE IsProcessing(v, j)
  <2> DEFINE w      == Nack(v, j)
             rest   == {p \in v.processing : p.id # j}
             failed == v.reasons \cup {j}
             dead   == [v.dead_letter EXCEPT ![j] = v.dead_letter[j] + 1]
             line   == Append(v.pending, Requeued(v, j))
  <2>1. ProcessingIds(v) \subseteq {p.id : p \in rest} \cup {j}
    BY DEF ProcessingIds
  <2>2. CASE Dies(v, j)
    <3>1. w = [v EXCEPT !.processing = rest, !.reasons = failed, !.dead_letter = dead]
      BY <1>2, <2>2, NackEffect
    <3>2. /\ w.pending = v.pending
          /\ w.processing = rest
          /\ w.scheduled = v.scheduled
          /\ w.completed = v.completed
          /\ w.dead_letter = dead
      <4> HIDE DEF w, rest, failed, dead
      <4> QED  BY <3>1, QueueFields
    <3>3. \A k \in Job : (v.dead_letter[k] > 0 \/ k = j) => dead[k] > 0
      BY QueueFields
    <3>4. PendingIds(w) = PendingIds(v) /\ ProcessingIds(w) = {p.id : p \in rest}
      BY <3>2 DEF PendingIds, ProcessingIds
    <3> HIDE DEF w, rest, dead
    <3>5. Known(v) \subseteq Known(w)
      BY <2>1, <3>2, <3>3, <3>4, KnownGrows
    <3> QED  BY <3>5 DEF w
  <2>3. CASE ~Dies(v, j)
    <3>1. w = [v EXCEPT !.processing = rest, !.reasons = failed, !.pending = line]
      BY <1>2, <2>3, NackEffect
    <3>2. /\ w.pending = line
          /\ w.processing = rest
          /\ w.scheduled = v.scheduled
          /\ w.completed = v.completed
          /\ w.dead_letter = v.dead_letter
      <4> HIDE DEF w, rest, failed, line
      <4> QED  BY <3>1, QueueFields
    <3>3. /\ DOMAIN line = 1..(Len(v.pending) + 1)
          /\ \A k \in 1..Len(v.pending) : line[k] = v.pending[k]
          /\ line[Len(v.pending) + 1] = Requeued(v, j)
      <4>1. Requeued(v, j) \in Entry /\ v.pending \in Seq(Entry)
        BY <1>2, NackEffect, QueueFields
      <4> QED  BY <4>1, AppendOne
    <3>4. Requeued(v, j).id = j
      BY DEF Requeued
    <3> HIDE DEF w, rest, line
    <3>5. \A k \in DOMAIN v.pending : k \in DOMAIN line /\ line[k] = v.pending[k]
      BY <3>3, QueueFields
    <3>6. Len(v.pending) + 1 \in DOMAIN line
      BY <3>3, QueueFields
    <3>7. PendingIds(v) \cup {j} \subseteq PendingIds(w)
      BY <3>2, <3>3, <3>4, <3>5, <3>6 DEF PendingIds
    <3>8. ProcessingIds(w) = {p.id : p \in rest}
      BY <3>2 DEF ProcessingIds
    <3>9. Known(v) \subseteq Known(w)
      BY <2>1, <3>2, <3>7, <3>8, KnownGrows
    <3> QED  BY <3>9 DEF w
  <2> QED  BY <2>2, <2>3
<1> QED  BY <1>1, <1>2

(* promote_ready_jobs forgets no job.                                      *)
LEMMA PromoteKnows ==
  ASSUME NEW v \in QueueValue, NEW t, NEW s \in HeapOrders(Ready(v, t))
  PROVE  Known(v) \subseteq Known(Promote(v, s))
<1> DEFINE w == Promote(v, s)
           n == Len(v.pending)
           c == Cardinality(Ready(v, t))
<1>1. /\ w.scheduled = v.scheduled \ Ready(v, t)
      /\ w.processing = v.processing
      /\ w.completed = v.completed
      /\ w.dead_letter = v.dead_letter
      /\ c \in Nat
      /\ DOMAIN s = 1..c
      /\ DOMAIN w.pending = 1..(n + c)
      /\ \A k \in 1..n : w.pending[k] = v.pending[k]
      /\ \A k \in DOMAIN s : w.pending[n + k] = [id |-> s[k], attempts |-> 0]
      /\ \A j \in Ready(v, t) : \E k \in DOMAIN s : s[k] = j
  BY PromoteEffect
<1> HIDE DEF w, c
<1>2. PendingIds(v) \subseteq PendingIds(w)
  <2>1. \A k \in DOMAIN v.pending : k \in DOMAIN w.pending /\ w.pending[k] = v.pending[k]
    BY <1>1, QueueFields
  <2> QED  BY <2>1 DEF PendingIds
<1>3. Ready(v, t) \subseteq PendingIds(w)
  <2>1. \A k \in DOMAIN s : n + k \in DOMAIN w.pending
    BY <1>1, QueueFields
  <2>2. ASSUME NEW k \in DOMAIN s
        PROVE  s[k] \in PendingIds(w)
    <3>1. w.pending[n + k] = [id |-> s[k], attempts |-> 0]
      BY <1>1
    <3>2. w.pending[n + k].id = s[k]
      BY <3>1
    <3> QED  BY <2>1, <3>2 DEF PendingIds
  <2> QED  BY <1>1, <2>2
<1>4. ProcessingIds(w) = ProcessingIds(v)
  BY <1>1 DEF ProcessingIds
<1>5. Known(v) \subseteq Known(w)
  BY <1>1, <1>2, <1>3, <1>4, KnownGrows
<1> QED  BY <1>5 DEF w

-----------------------------------------------------------------------------
(* No operation duplicates a job.                                          *)

(* What NoDuplicate says of a job that is pending, and of one that is      *)
(* being processed.                                                        *)
LEMMA Apart ==
  ASSUME NEW v \in QueueValue, NoDuplicate(v)
  PROVE  /\ \A i, k \in DOMAIN v.pending : i # k => v.pending[i].id # v.pending[k].id
         /\ \A e, f \in v.processing : e.id = f.id => e = f
         /\ \A i \in DOMAIN v.pending, e \in v.processing : v.pending[i].id # e.id
         /\ \A i \in DOMAIN v.pending :
              LET j == v.pending[i].id IN
              j \in Job /\ j \notin v.scheduled /\ v.completed[j] = 0 /\ v.dead_letter[j] = 0
         /\ \A e \in v.processing :
              LET j == e.id IN
              j \in Job /\ j \notin v.scheduled /\ v.completed[j] = 0 /\ v.dead_letter[j] = 0
         /\ \A j \in v.scheduled : v.completed[j] = 0 /\ v.dead_letter[j] = 0
         /\ \A j \in Job : v.completed[j] + v.dead_letter[j] <= 1
<1>1. \A i \in DOMAIN v.pending : v.pending[i].id \in Job /\ v.pending[i].id \in PendingIds(v)
  BY QueueFields DEF Entry, PendingIds
<1>2. \A e \in v.processing : e.id \in Job /\ e.id \in ProcessingIds(v)
  BY QueueFields DEF Entry, ProcessingIds
<1>3. \A j \in Job : v.completed[j] \in Nat /\ v.dead_letter[j] \in Nat
  BY QueueFields
<1>4. \A j \in Job : v.completed[j] + v.dead_letter[j] = 0
                     => v.completed[j] = 0 /\ v.dead_letter[j] = 0
  BY <1>3
<1>5. \A j \in Outstanding(v) \cap Job : v.completed[j] = 0 /\ v.dead_letter[j] = 0
  BY <1>4 DEF NoDuplicate
<1>6. \A i \in DOMAIN v.pending, e \in v.processing : v.pending[i].id # e.id
  BY <1>1, <1>2 DEF NoDuplicate
<1>7. \A i \in DOMAIN v.pending : v.pending[i].id \in Outstanding(v) /\ v.pending[i].id \notin v.scheduled
  BY <1>1 DEF NoDuplicate, Outstanding
<1>8. \A e \in v.processing : e.id \in Outstanding(v) /\ e.id \notin v.scheduled
  BY <1>2 DEF NoDuplicate, Outstanding
<1>9. \A j \in v.scheduled : j \in Outstanding(v) \cap Job
  BY QueueFields DEF Outstanding
<1> QED
  BY <1>1, <1>2, <1>5, <1>6, <1>7, <1>8, <1>9 DEF NoDuplicate

(* ... and conversely.                                                     *)
LEMMA ApartIsUnique ==
  ASSUME NEW v \in QueueValue,
         \A i, k \in DOMAIN v.pending : i # k => v.pending[i].id # v.pending[k].id,
         \A e, f \in v.processing : e.id = f.id => e = f,
         \A i \in DOMAIN v.pending, e \in v.processing : v.pending[i].id # e.id,
         \A i \in DOMAIN v.pending :
            LET j == v.pending[i].id IN
            j \notin v.scheduled /\ v.completed[j] = 0 /\ v.dead_letter[j] = 0,
         \A e \in v.processing :
            LET j == e.id IN
            j \notin v.scheduled /\ v.completed[j] = 0 /\ v.dead_letter[j] = 0,
         \A j \in v.scheduled : v.completed[j] = 0 /\ v.dead_letter[j] = 0,
         \A j \in Job : v.completed[j] + v.dead_letter[j] <= 1
  PROVE  NoDuplicate(v)
<1>1. PendingIds(v) \cap ProcessingIds(v) = {}
  BY DEF PendingIds, ProcessingIds
<1>2. v.scheduled \cap (PendingIds(v) \cup ProcessingIds(v)) = {}
  BY DEF PendingIds, ProcessingIds
<1>3. \A j \in Outstanding(v) : v.completed[j] = 0 /\ v.dead_letter[j] = 0
  BY DEF Outstanding, PendingIds, ProcessingIds
<1>4. \A j \in Outstanding(v) : v.completed[j] + v.dead_letter[j] = 0
  BY <1>3
<1> QED  BY <1>1, <1>2, <1>4 DEF NoDuplicate

(* The empty queue has no duplicates.                                      *)
LEMMA EmptyQueueUnique == NoDuplicate(EmptyQueue)
<1>1. /\ EmptyQueue.pending = << >>
      /\ EmptyQueue.processing = {}
      /\ EmptyQueue.scheduled = {}
      /\ \A j \in Job : EmptyQueue.completed[j] = 0 /\ EmptyQueue.dead_letter[j] = 0
  BY DEF EmptyQueue
<1>2. DOMAIN EmptyQueue.pending = {}
  BY <1>1
<1> QED  BY <1>1, <1>2, EmptyQueueType, ApartIsUnique

(* Moving a job to processing makes no duplicate.                          *)
LEMMA MoveUnique ==
  ASSUME NEW v \in QueueValue, NEW i \in DOMAIN v.pending, NoDuplicate(v)
  PROVE  NoDuplicate(MoveToProcessing(v, i))
<1> DEFINE w == MoveToProcessing(v, i)
<1>1. /\ w.processing = {p \in v.processing : p.id # v.pending[i].id} \cup {v.pending[i]}
      /\ w.scheduled = v.scheduled
      /\ w.completed = v.completed
      /\ w.dead_letter = v.dead_letter
      /\ DOMAIN w.pending = 1..(Len(v.pending) - 1)
      /\ \A k \in DOMAIN w.pending :
           w.pending[k] = IF k < i THEN v.pending[k] ELSE v.pending[k + 1]
  BY MoveEffect
<1>2. w \in QueueValue
  BY MoveType
<1> DEFINE old(k) == IF k < i THEN k ELSE k + 1
<1>3. ASSUME NEW k \in DOMAIN w.pending
      PROVE  /\ old(k) \in DOMAIN v.pending
             /\ old(k) # i
             /\ w.pending[k] = v.pending[old(k)]
  <2> HIDE DEF w
  <2> QED  BY <1>1, QueueFields
<1>4. ASSUME NEW k \in DOMAIN w.pending, NEW m \in DOMAIN w.pending, k # m
      PROVE  old(k) # old(m)
  <2> HIDE DEF w
  <2> QED  BY <1>1, <1>4, QueueFields
<1> HIDE DEF w, old
<1>5. \A e \in w.processing : e \in v.processing \/ e = v.pending[i]
  BY <1>1
<1> QED
  <2>1. \A k, m \in DOMAIN w.pending : k # m => w.pending[k].id # w.pending[m].id
    BY <1>3, <1>4, Apart
  <2>2. \A e, f \in w.processing : e.id = f.id => e = f
    BY <1>1, Apart
  <2>3. \A k \in DOMAIN w.pending, e \in w.processing : w.pending[k].id # e.id
    BY <1>3, <1>5, Apart
  <2>4. \A k \in DOMAIN w.pending :
          LET j == w.pending[k].id IN
          j \notin w.scheduled /\ w.completed[j] = 0 /\ w.dead_letter[j] = 0
    BY <1>1, <1>3, Apart
  <2>5. \A e \in w.processing :
          LET j == e.id IN
          j \notin w.scheduled /\ w.completed[j] = 0 /\ w.dead_letter[j] = 0
    BY <1>1, <1>5, Apart
  <2>6. /\ \A j \in w.scheduled : w.completed[j] = 0 /\ w.dead_letter[j] = 0
        /\ \A j \in Job : w.completed[j] + w.dead_letter[j] <= 1
    BY <1>1, Apart
  <2>7. NoDuplicate(w)
    BY <1>2, <2>1, <2>2, <2>3, <2>4, <2>5, <2>6, ApartIsUnique
  <2> QED  BY <2>7 DEF w

(* apply_ack makes no duplicate.                                           *)
LEMMA AckUnique ==
  ASSUME NEW v \in QueueValue, NEW j \in Job, NoDuplicate(v)
  PROVE  NoDuplicate(Ack(v, j))
<1>1. CASE ~IsProcessing(v, j)
  BY <1>1 DEF Ack
<1>2. CASE IsProcessing(v, j)
  <2> DEFINE w    == Ack(v, j)
             done == [v.completed EXCEPT ![j] = v.completed[j] + 1]
             rest == {p \in v.processing : p.id # j}
             left == v.reasons \ {j}
  <2>1. w = [v EXCEPT !.processing = rest, !.reasons = left, !.completed = done]
    BY <1>2, AckEffect
  <2>2. /\ w.pending = v.pending
        /\ w.processing = rest
        /\ w.scheduled = v.scheduled
        /\ w.completed = done
        /\ w.dead_letter = v.dead_letter
    <3> HIDE DEF w, done, rest, left
    <3> QED  BY <2>1, QueueFields
  <2>3. w \in QueueValue
    BY AckType
  <2>4. /\ j \notin v.scheduled
        /\ v.completed[j] = 0
        /\ v.dead_letter[j] = 0
        /\ \A i \in DOMAIN v.pending : v.pending[i].id # j
    BY <1>2, Apart DEF IsProcessing
  <2>5. /\ \A k \in Job : k # j => done[k] = v.completed[k]
        /\ done[j] = 1
    BY <2>4, QueueFields
  <2>6. \A e \in rest : e \in v.processing /\ e.id # j
    OBVIOUS
  <2> HIDE DEF w, done, rest
  <2>7. \A k \in Job : w.completed[k] + w.dead_letter[k] <= 1
    <3> TAKE k \in Job
    <3>1. CASE k = j
      BY <2>2, <2>4, <2>5, <3>1
    <3>2. CASE k # j
      BY <2>2, <2>5, <3>2, Apart
    <3> QED  BY <3>1, <3>2
  <2>8. \A i \in DOMAIN w.pending :
          LET k == w.pending[i].id IN
          k \notin w.scheduled /\ w.completed[k] = 0 /\ w.dead_letter[k] = 0
    BY <2>2, <2>4, <2>5, Apart
  <2>9. \A e \in w.processing :
          LET k == e.id IN
          k \notin w.scheduled /\ w.completed[k] = 0 /\ w.dead_letter[k] = 0
    BY <2>2, <2>5, <2>6, Apart
  <2>10. \A k \in w.scheduled : w.completed[k] = 0 /\ w.dead_letter[k] = 0
    <3>1. \A k \in v.scheduled : k \in Job /\ k # j
      BY <2>4, QueueFields
    <3> QED  BY <2>2, <2>5, <3>1, Apart
  <2>11. /\ \A i, k \in DOMAIN w.pending : i # k => w.pending[i].id # w.pending[k].id
         /\ \A e, f \in w.processing : e.id = f.id => e = f
         /\ \A i \in DOMAIN w.pending, e \in w.processing : w.pending[i].id # e.id
    BY <2>2, <2>6, Apart
  <2>12. NoDuplicate(w)
    BY <2>3, <2>7, <2>8, <2>9, <2>10, <2>11, ApartIsUnique
  <2> QED  BY <2>12 DEF w
<1> QED  BY <1>1, <1>2

(* A job that is nowhere else may join the back of pending.                *)
LEMMA JoinUnique ==
  ASSUME NEW v \in QueueValue, NEW w \in QueueValue, NEW e \in Entry,
         NoDuplicate(v),
         w.pending = Append(v.pending, e),
         w.processing \subseteq v.processing,
         w.scheduled = v.scheduled,
         w.completed = v.completed,
         w.dead_letter = v.dead_letter,
         \A i \in DOMAIN v.pending : v.pending[i].id # e.id,
         \A f \in w.processing : f.id # e.id,
         e.id \notin v.scheduled,
         v.completed[e.id] = 0,
         v.dead_letter[e.id] = 0
  PROVE  NoDuplicate(w)
<1>1. /\ DOMAIN w.pending = 1..(Len(v.pending) + 1)
      /\ \A k \in 1..Len(v.pending) : w.pending[k] = v.pending[k]
      /\ w.pending[Len(v.pending) + 1] = e
  BY QueueFields, AppendOne
<1>2. ASSUME NEW k \in DOMAIN w.pending
      PROVE  \/ k \in DOMAIN v.pending /\ w.pending[k] = v.pending[k]
             \/ k = Len(v.pending) + 1 /\ w.pending[k] = e
  BY <1>1, QueueFields
<1>3. \A i, k \in DOMAIN w.pending : i # k => w.pending[i].id # w.pending[k].id
  BY <1>2, Apart
<1>4. \A i \in DOMAIN w.pending, f \in w.processing : w.pending[i].id # f.id
  BY <1>2, Apart
<1>5. \A i \in DOMAIN w.pending :
        LET j == w.pending[i].id IN
        j \notin w.scheduled /\ w.completed[j] = 0 /\ w.dead_letter[j] = 0
  BY <1>2, Apart
<1>6. /\ \A f, g \in w.processing : f.id = g.id => f = g
      /\ \A f \in w.processing :
           LET j == f.id IN
           j \notin w.scheduled /\ w.completed[j] = 0 /\ w.dead_letter[j] = 0
      /\ \A j \in w.scheduled : w.completed[j] = 0 /\ w.dead_letter[j] = 0
      /\ \A j \in Job : w.completed[j] + w.dead_letter[j] <= 1
  BY Apart
<1> QED  BY <1>3, <1>4, <1>5, <1>6, ApartIsUnique

(* apply_enqueue makes no duplicate if the job is new to the queue.        *)
LEMMA EnqueueUnique ==
  ASSUME NEW v \in QueueValue, NEW j \in Job, NEW t \in Nat,
         NoDuplicate(v), j \notin Known(v)
  PROVE  NoDuplicate(Enqueue(v, j, t))
<1> DEFINE new  == [id |-> j, attempts |-> 0]
           line == Append(v.pending, new)
           w    == Enqueue(v, j, t)
<1>1. w \in QueueValue
  BY EnqueueType
<1>2. /\ j \notin v.scheduled
      /\ v.completed[j] = 0
      /\ v.dead_letter[j] = 0
      /\ \A i \in DOMAIN v.pending : v.pending[i].id # j
      /\ \A e \in v.processing : e.id # j
  <2>1. /\ j \notin PendingIds(v) /\ j \notin ProcessingIds(v) /\ j \notin v.scheduled
        /\ ~(v.completed[j] > 0) /\ ~(v.dead_letter[j] > 0)
    BY KnownPlaces
  <2>2. v.completed[j] \in Nat /\ v.dead_letter[j] \in Nat
    BY QueueFields
  <2>3. v.completed[j] = 0 /\ v.dead_letter[j] = 0
    BY <2>1, <2>2
  <2> QED  BY <2>1, <2>3 DEF PendingIds, ProcessingIds
<1>3. CASE ScheduledAt[j] > t
  <2>1. w = [v EXCEPT !.scheduled = @ \cup {j}]
    BY <1>3 DEF Enqueue
  <2>2. /\ w.pending = v.pending
        /\ w.processing = v.processing
        /\ w.scheduled = v.scheduled \cup {j}
        /\ w.completed = v.completed
        /\ w.dead_letter = v.dead_letter
    BY <2>1, QueueFields
  <2> HIDE DEF w
  <2>3. /\ \A i, k \in DOMAIN w.pending : i # k => w.pending[i].id # w.pending[k].id
        /\ \A e, f \in w.processing : e.id = f.id => e = f
        /\ \A i \in DOMAIN w.pending, e \in w.processing : w.pending[i].id # e.id
        /\ \A k \in Job : w.completed[k] + w.dead_letter[k] <= 1
    BY <2>2, Apart
  <2>4. \A i \in DOMAIN w.pending :
          LET k == w.pending[i].id IN
          k \notin w.scheduled /\ w.completed[k] = 0 /\ w.dead_letter[k] = 0
    BY <1>2, <2>2, Apart
  <2>5. \A e \in w.processing :
          LET k == e.id IN
          k \notin w.scheduled /\ w.completed[k] = 0 /\ w.dead_letter[k] = 0
    BY <1>2, <2>2, Apart
  <2>6. \A k \in w.scheduled : w.completed[k] = 0 /\ w.dead_letter[k] = 0
    BY <1>2, <2>2, Apart
  <2>7. NoDuplicate(w)
    BY <1>1, <2>3, <2>4, <2>5, <2>6, ApartIsUnique
  <2> QED  BY <2>7 DEF w
<1>4. CASE ~(ScheduledAt[j] > t)
  <2>1. w = [v EXCEPT !.pending = line]
    BY <1>4 DEF Enqueue
  <2>2. /\ w.pending = Append(v.pending, new)
        /\ w.processing = v.processing
        /\ w.scheduled = v.scheduled
        /\ w.completed = v.completed
        /\ w.dead_letter = v.dead_letter
    <3>1. w.pending = line
      <4> HIDE DEF line, w
      <4> QED  BY <2>1, QueueFields
    <3> HIDE DEF w
    <3> QED  BY <2>1, <3>1, QueueFields
  <2>3. new \in Entry /\ new.id = j
    BY DEF Entry
  <2> HIDE DEF w, new
  <2>4. NoDuplicate(w)
    BY <1>1, <1>2, <2>2, <2>3, JoinUnique
  <2> QED  BY <2>4 DEF w
<1> QED  BY <1>3, <1>4

(* apply_nack makes no duplicate, whether the job dies or is requeued.     *)
LEMMA NackUnique ==
  ASSUME NEW v \in QueueValue, NEW j \in Job, NoDuplicate(v)
  PROVE  NoDuplicate(Nack(v, j))
<1>1. CASE ~IsProcessing(v, j)
  BY <1>1 DEF Nack
<1>2. CASE IsProcessing(v, j)
  <2> DEFINE w      == Nack(v, j)
             rest   == {p \in v.processing : p.id # j}
             failed == v.reasons \cup {j}
             dead   == [v.dead_letter EXCEPT ![j] = v.dead_letter[j] + 1]
             line   == Append(v.pending, Requeued(v, j))
  <2>1. w \in QueueValue
    BY NackType
  <2>2. /\ j \notin v.scheduled
        /\ v.completed[j] = 0
        /\ v.dead_letter[j] = 0
        /\ \A i \in DOMAIN v.pending : v.pending[i].id # j
    BY <1>2, Apart DEF IsProcessing
  <2>3. \A e \in rest : e \in v.processing /\ e.id # j
    OBVIOUS
  <2>4. CASE Dies(v, j)
    <3>1. w = [v EXCEPT !.processing = rest, !.reasons = failed, !.dead_letter = dead]
      BY <1>2, <2>4, NackEffect
    <3>2. /\ w.pending = v.pending
          /\ w.processing = rest
          /\ w.scheduled = v.scheduled
          /\ w.completed = v.completed
          /\ w.dead_letter = dead
      <4> HIDE DEF w, rest, failed, dead
      <4> QED  BY <3>1, QueueFields
    <3>3. /\ \A k \in Job : k # j => dead[k] = v.dead_letter[k]
          /\ dead[j] = 1
      BY <2>2, QueueFields
    <3> HIDE DEF w, rest, dead
    <3>4. \A k \in Job : w.completed[k] + w.dead_letter[k] <= 1
      <4> TAKE k \in Job
      <4>1. CASE k = j
        BY <2>2, <3>2, <3>3, <4>1
      <4>2. CASE k # j
        BY <3>2, <3>3, <4>2, Apart
      <4> QED  BY <4>1, <4>2
    <3>5. \A i \in DOMAIN w.pending :
            LET k == w.pending[i].id IN
            k \notin w.scheduled /\ w.completed[k] = 0 /\ w.dead_letter[k] = 0
      BY <2>2, <3>2, <3>3, Apart
    <3>6. \A e \in w.processing :
            LET k == e.id IN
            k \notin w.scheduled /\ w.completed[k] = 0 /\ w.dead_letter[k] = 0
      BY <2>3, <3>2, <3>3, Apart
    <3>7. \A k \in w.scheduled : w.completed[k] = 0 /\ w.dead_letter[k] = 0
      <4>1. \A k \in v.scheduled : k \in Job /\ k # j
        BY <2>2, QueueFields
      <4> QED  BY <3>2, <3>3, <4>1, Apart
    <3>8. /\ \A i, k \in DOMAIN w.pending : i # k => w.pending[i].id # w.pending[k].id
          /\ \A e, f \in w.processing : e.id = f.id => e = f
          /\ \A i \in DOMAIN w.pending, e \in w.processing : w.pending[i].id # e.id
      BY <2>3, <3>2, Apart
    <3>9. NoDuplicate(w)
      BY <2>1, <3>4, <3>5, <3>6, <3>7, <3>8, ApartIsUnique
    <3> QED  BY <3>9 DEF w
  <2>5. CASE ~Dies(v, j)
    <3>1. w = [v EXCEPT !.processing = rest, !.reasons = failed, !.pending = line]
      BY <1>2, <2>5, NackEffect
    <3>2. /\ w.pending = line
          /\ w.processing = rest
          /\ w.scheduled = v.scheduled
          /\ w.completed = v.completed
          /\ w.dead_letter = v.dead_letter
      <4> HIDE DEF w, rest, failed, line
      <4> QED  BY <3>1, QueueFields
    <3>3. w.pending = Append(v.pending, Requeued(v, j))
      BY <3>2
    <3>4. Requeued(v, j) \in Entry /\ Requeued(v, j).id = j
      BY <1>2, NackEffect DEF Requeued
    <3>5. /\ w.processing \subseteq v.processing
          /\ \A f \in w.processing : f.id # j
      BY <3>2
    <3> HIDE DEF w, rest, line
    <3>6. NoDuplicate(w)
      BY <2>1, <2>2, <3>2, <3>3, <3>4, <3>5, JoinUnique
    <3> QED  BY <3>6 DEF w
  <2> QED  BY <2>4, <2>5
<1> QED  BY <1>1, <1>2

(* promote_ready_jobs makes no duplicate.                                  *)
LEMMA PromoteUnique ==
  ASSUME NEW v \in QueueValue, NEW t, NEW s \in HeapOrders(Ready(v, t)), NoDuplicate(v)
  PROVE  NoDuplicate(Promote(v, s))
<1> DEFINE w == Promote(v, s)
           n == Len(v.pending)
           c == Cardinality(Ready(v, t))
<1>1. /\ w.scheduled = v.scheduled \ Ready(v, t)
      /\ w.processing = v.processing
      /\ w.completed = v.completed
      /\ w.dead_letter = v.dead_letter
      /\ c \in Nat
      /\ DOMAIN s = 1..c
      /\ DOMAIN w.pending = 1..(n + c)
      /\ \A k \in 1..n : w.pending[k] = v.pending[k]
      /\ \A k \in DOMAIN s : w.pending[n + k] = [id |-> s[k], attempts |-> 0]
      /\ \A k \in DOMAIN s : s[k] \in Ready(v, t)
      /\ \A k, m \in DOMAIN s : k # m => s[k] # s[m]
  BY PromoteEffect
<1>2. w \in QueueValue
  BY PromoteType
<1>3. \A j \in Ready(v, t) : j \in v.scheduled
  BY DEF Ready
<1>4. n \in Nat /\ DOMAIN v.pending = 1..n
  BY QueueFields
<1> HIDE DEF w, n, c
<1>5. ASSUME NEW i \in DOMAIN w.pending
      PROVE  \/ i \in DOMAIN v.pending /\ w.pending[i] = v.pending[i]
             \/ /\ i > n
                /\ i - n \in DOMAIN s
                /\ w.pending[i].id = s[i - n]
                /\ s[i - n] \in Ready(v, t)
  <2>1. CASE i <= n
    BY <1>1, <1>4, <2>1
  <2>2. CASE i > n
    <3>1. i - n \in 1..c /\ n + (i - n) = i
      BY <1>1, <1>4, <2>2
    <3>2. w.pending[i] = [id |-> s[i - n], attempts |-> 0]
      BY <1>1, <3>1
    <3>3. w.pending[i].id = s[i - n]
      BY <3>2
    <3> QED  BY <1>1, <2>2, <3>1, <3>3
  <2> QED  BY <1>1, <1>4, <2>1, <2>2
<1>6. ASSUME NEW j \in Ready(v, t)
      PROVE  /\ j \notin w.scheduled
             /\ w.completed[j] = 0
             /\ w.dead_letter[j] = 0
             /\ \A i \in DOMAIN v.pending : v.pending[i].id # j
             /\ \A e \in w.processing : e.id # j
  BY <1>1, <1>3, Apart
<1>7. ASSUME NEW i \in DOMAIN w.pending, NEW k \in DOMAIN w.pending, i # k
      PROVE  w.pending[i].id # w.pending[k].id
  <2>1. CASE i \in DOMAIN v.pending /\ k \in DOMAIN v.pending
    BY <1>1, <1>4, <1>7, <2>1, Apart
  <2>2. CASE i \in DOMAIN v.pending /\ k \notin DOMAIN v.pending
    BY <1>1, <1>4, <1>5, <1>6, <2>2
  <2>3. CASE i \notin DOMAIN v.pending /\ k \in DOMAIN v.pending
    BY <1>1, <1>4, <1>5, <1>6, <2>3
  <2>4. CASE i \notin DOMAIN v.pending /\ k \notin DOMAIN v.pending
    <3>1. i - n \in DOMAIN s /\ k - n \in DOMAIN s /\ i - n # k - n
      BY <1>1, <1>4, <1>5, <1>7, <2>4
    <3>2. s[i - n] # s[k - n]
      BY <1>1, <3>1
    <3> QED  BY <1>5, <2>4, <3>2
  <2> QED  BY <2>1, <2>2, <2>3, <2>4
<1>8. \A i \in DOMAIN w.pending, e \in w.processing : w.pending[i].id # e.id
  BY <1>1, <1>5, <1>6, Apart
<1>9. \A i \in DOMAIN w.pending :
        LET j == w.pending[i].id IN
        j \notin w.scheduled /\ w.completed[j] = 0 /\ w.dead_letter[j] = 0
  BY <1>1, <1>5, <1>6, Apart
<1>10. /\ \A f, g \in w.processing : f.id = g.id => f = g
       /\ \A f \in w.processing :
            LET j == f.id IN
            j \notin w.scheduled /\ w.completed[j] = 0 /\ w.dead_letter[j] = 0
       /\ \A j \in w.scheduled : w.completed[j] = 0 /\ w.dead_letter[j] = 0
       /\ \A j \in Job : w.completed[j] + w.dead_letter[j] <= 1
  BY <1>1, Apart
<1>11. NoDuplicate(w)
  BY <1>2, <1>7, <1>8, <1>9, <1>10, ApartIsUnique
<1> QED  BY <1>11 DEF w

-----------------------------------------------------------------------------
(* Which operations take a job out of processing: only its own ack or nack.*)

(* apply_enqueue leaves the processing jobs alone.                         *)
LEMMA EnqueueProcessing ==
  ASSUME NEW v \in QueueValue, NEW j \in Job, NEW t \in Nat
  PROVE  Enqueue(v, j, t).processing = v.processing
BY QueueFields DEF Enqueue

(* A job moved to processing is processing, and the others still are.      *)
LEMMA MoveProcessing ==
  ASSUME NEW v \in QueueValue, NEW i \in DOMAIN v.pending
  PROVE  /\ IsProcessing(MoveToProcessing(v, i), v.pending[i].id)
         /\ \A k \in Job : IsProcessing(v, k) => IsProcessing(MoveToProcessing(v, i), k)
BY MoveEffect DEF IsProcessing

(* An ack stops the processing of no other job.                            *)
LEMMA AckProcessing ==
  ASSUME NEW v \in QueueValue, NEW j \in Job, NEW k \in Job, k # j, IsProcessing(v, k)
  PROVE  IsProcessing(Ack(v, j), k)
<1>1. CASE ~IsProcessing(v, j)
  BY <1>1 DEF Ack
<1>2. CASE IsProcessing(v, j)
  <2> DEFINE w    == Ack(v, j)
             done == [v.completed EXCEPT ![j] = v.completed[j] + 1]
             rest == {p \in v.processing : p.id # j}
             left == v.reasons \ {j}
  <2>0. w = [v EXCEPT !.processing = rest, !.reasons = left, !.completed = done]
    BY <1>2, AckEffect
  <2>1. w.processing = rest
    <3> HIDE DEF w, done, rest, left
    <3> QED  BY <2>0, QueueFields
  <2> QED  BY <2>1 DEF IsProcessing
<1> QED  BY <1>1, <1>2

(* A nack stops the processing of no other job.                            *)
LEMMA NackProcessing ==
  ASSUME NEW v \in QueueValue, NEW j \in Job, NEW k \in Job, k # j, IsProcessing(v, k)
  PROVE  IsProcessing(Nack(v, j), k)
<1>1. CASE ~IsProcessing(v, j)
  BY <1>1 DEF Nack
<1>2. CASE IsProcessing(v, j)
  <2> DEFINE w      == Nack(v, j)
             rest   == {p \in v.processing : p.id # j}
             failed == v.reasons \cup {j}
             dead   == [v.dead_letter EXCEPT ![j] = v.dead_letter[j] + 1]
             line   == Append(v.pending, Requeued(v, j))
  <2>1. CASE Dies(v, j)
    <3>1. w = [v EXCEPT !.processing = rest, !.reasons = failed, !.dead_letter = dead]
      BY <1>2, <2>1, NackEffect
    <3>2. w.processing = rest
      <4> HIDE DEF w, rest, failed, dead
      <4> QED  BY <3>1, QueueFields
    <3> QED  BY <3>2 DEF IsProcessing
  <2>2. CASE ~Dies(v, j)
    <3>1. w = [v EXCEPT !.processing = rest, !.reasons = failed, !.pending = line]
      BY <1>2, <2>2, NackEffect
    <3>2. w.processing = rest
      <4> HIDE DEF w, rest, failed, line
      <4> QED  BY <3>1, QueueFields
    <3> QED  BY <3>2 DEF IsProcessing
  <2> QED  BY <2>1, <2>2
<1> QED  BY <1>1, <1>2

-----------------------------------------------------------------------------
(* What applying an event does, live or in replay.                         *)

(* Applying an event to a queue value makes a queue value.                 *)
LEMMA ApplyTyped ==
  ASSUME NEW v \in QueueValue, NEW e \in Event, NEW t \in Nat
  PROVE  Apply(v, e, t) \in QueueValue
<1>1. e.id \in Job /\ e.op \in {"Enqueue", "Dequeue", "Ack", "Nack"}
  BY DEF Event
<1>2. CASE e.op = "Enqueue"
  BY <1>1, <1>2, EnqueueType DEF Apply
<1>3. CASE e.op = "Dequeue"
  <2>1. Apply(v, e, t) = DequeueById(v, e.id)
    BY <1>3 DEF Apply
  <2> QED  BY <1>1, <2>1, DequeueByIdIsMove, MoveType
<1>4. CASE e.op = "Ack"
  BY <1>1, <1>4, AckType DEF Apply
<1>5. CASE e.op = "Nack"
  BY <1>1, <1>5, NackType DEF Apply
<1> QED  BY <1>1, <1>2, <1>3, <1>4, <1>5

(* Applying an event forgets no job, and an Enqueue's job is known.        *)
LEMMA ApplyKnows ==
  ASSUME NEW v \in QueueValue, NEW e \in Event, NEW t \in Nat
  PROVE  /\ Known(v) \subseteq Known(Apply(v, e, t))
         /\ e.op = "Enqueue" => e.id \in Known(Apply(v, e, t))
<1>1. e.id \in Job /\ e.op \in {"Enqueue", "Dequeue", "Ack", "Nack"}
  BY DEF Event
<1>2. CASE e.op = "Enqueue"
  <2>1. Apply(v, e, t) = Enqueue(v, e.id, t)
    BY <1>2 DEF Apply
  <2> QED  BY <1>1, <2>1, EnqueueKnows
<1>3. CASE e.op = "Dequeue"
  <2>1. Apply(v, e, t) = DequeueById(v, e.id)
    BY <1>3 DEF Apply
  <2> QED  BY <1>1, <1>3, <2>1, DequeueByIdKnows
<1>4. CASE e.op = "Ack"
  <2>1. Apply(v, e, t) = Ack(v, e.id)
    BY <1>4 DEF Apply
  <2> QED  BY <1>1, <1>4, <2>1, AckKnows
<1>5. CASE e.op = "Nack"
  <2>1. Apply(v, e, t) = Nack(v, e.id)
    BY <1>5 DEF Apply
  <2> QED  BY <1>1, <1>5, <2>1, NackKnows
<1> QED  BY <1>1, <1>2, <1>3, <1>4, <1>5

-----------------------------------------------------------------------------
(* What one event does to the queue.                                       *)

(* What stays unknown when only the jobs of a set are touched, or jobs     *)
(* that were known.                                                        *)
LEMMA KnownOnly ==
  ASSUME NEW v, NEW w, NEW new,
         PendingIds(w) \subseteq Known(v) \cup new,
         ProcessingIds(w) \subseteq Known(v) \cup new,
         w.scheduled \subseteq Known(v) \cup new,
         \A k \in Job : k \in Known(v) \cup new \/ w.completed[k] = v.completed[k],
         \A k \in Job : k \in Known(v) \cup new \/ w.dead_letter[k] = v.dead_letter[k]
  PROVE  Known(w) \subseteq Known(v) \cup new
<1> SUFFICES ASSUME NEW k \in Known(w), k \notin new
             PROVE  k \in Known(v)
  OBVIOUS
<1>1. k \in Job
  BY DEF Known
<1> QED  BY <1>1, KnownPlaces

(* A queue value in which no job is twice.                                 *)
Sound(v) == v \in QueueValue /\ NoDuplicate(v)

(* What an event does to a sound queue: it stays sound, comes to know of   *)
(* no job but the new ones, and forgets no completion.                     *)
Onward(v, new, w) ==
  /\ Sound(w)
  /\ Known(w) \subseteq Known(v) \cup new
  /\ \A j \in Job : IsCompleted(v, j) => IsCompleted(w, j)

(* The job that an event brings.                                           *)
NewJob(e) == IF e.op = "Enqueue" THEN {e.id} ELSE {}

(* apply_enqueue of a job not known goes onward.                           *)
LEMMA EnqueueOnward ==
  ASSUME NEW v, Sound(v), NEW j \in Job, j \notin Known(v), NEW t \in Nat
  PROVE  Onward(v, {j}, Enqueue(v, j, t))
<1> DEFINE new == [id |-> j, attempts |-> 0]
           line == Append(v.pending, new)
           w == Enqueue(v, j, t)
<1>1. v \in QueueValue /\ NoDuplicate(v)
  BY DEF Sound
<1>2. w \in QueueValue /\ NoDuplicate(w)
  BY <1>1, EnqueueType, EnqueueUnique
<1>3. \/ w = [v EXCEPT !.scheduled = v.scheduled \cup {j}]
      \/ w = [v EXCEPT !.pending = line]
  BY DEF Enqueue
<1>4. /\ \/ w.pending = v.pending /\ w.scheduled = v.scheduled \cup {j}
         \/ w.pending = line /\ w.scheduled = v.scheduled
      /\ w.processing = v.processing
      /\ w.completed = v.completed
      /\ w.dead_letter = v.dead_letter
  <2> HIDE DEF w, line
  <2> QED  BY <1>1, <1>3, QueueFields
<1>5. new \in Entry /\ new.id = j
  BY DEF Entry
<1> HIDE DEF new
<1>6. /\ DOMAIN line = 1..(Len(v.pending) + 1)
      /\ \A i \in 1..Len(v.pending) : line[i] = v.pending[i]
      /\ line[Len(v.pending) + 1] = new
      /\ DOMAIN v.pending = 1..Len(v.pending) /\ Len(v.pending) \in Nat
      /\ \A i \in DOMAIN v.pending : v.pending[i].id \in Job
  BY <1>1, <1>5, QueueFields, AppendOne DEF Entry
<1> HIDE DEF w, line
<1>7. PendingIds(w) \subseteq PendingIds(v) \cup {j}
  BY <1>4, <1>5, <1>6 DEF PendingIds
<1>8. PendingIds(v) \subseteq Known(v)
  BY <1>6 DEF Known, PendingIds
<1>9. ProcessingIds(w) \subseteq Known(v) /\ v.scheduled \subseteq Known(v)
  BY <1>1, <1>4, QueueFields DEF Known, ProcessingIds, Entry
<1>10. Known(w) \subseteq Known(v) \cup {j}
  BY <1>1, <1>4, <1>7, <1>8, <1>9, KnownOnly
<1> QED  BY <1>1, <1>2, <1>4, <1>10 DEF Onward, Sound, IsCompleted, w

(* So does apply_dequeue.                                                  *)
LEMMA DequeueOnward ==
  ASSUME NEW v, Sound(v), NEW j \in Job
  PROVE  Onward(v, {}, DequeueById(v, j))
<1>1. v \in QueueValue /\ NoDuplicate(v) /\ v.scheduled \subseteq Known(v)
  BY QueueFields DEF Sound, Known
<1>2. CASE DequeueById(v, j) = v
  BY <1>1, <1>2 DEF Onward, Sound
<1>3. ASSUME NEW i \in DOMAIN v.pending
      PROVE  Onward(v, {}, MoveToProcessing(v, i))
  <2> DEFINE w == MoveToProcessing(v, i)
  <2>1. w \in QueueValue /\ NoDuplicate(w)
    BY <1>1, MoveType, MoveUnique
  <2>2. /\ w.processing = {p \in v.processing : p.id # v.pending[i].id} \cup {v.pending[i]}
        /\ w.scheduled = v.scheduled
        /\ w.completed = v.completed
        /\ w.dead_letter = v.dead_letter
        /\ DOMAIN w.pending = 1..(Len(v.pending) - 1)
        /\ \A k \in DOMAIN w.pending :
             w.pending[k] = IF k < i THEN v.pending[k] ELSE v.pending[k + 1]
    BY <1>1, MoveEffect
  <2> HIDE DEF w
  <2>3. /\ DOMAIN v.pending = 1..Len(v.pending) /\ Len(v.pending) \in Nat
        /\ \A k \in DOMAIN v.pending : v.pending[k].id \in Job
    BY <1>1, QueueFields DEF Entry
  <2>4. PendingIds(w) \subseteq PendingIds(v)
    <3>1. \A k \in DOMAIN w.pending : k \in DOMAIN v.pending /\ k + 1 \in DOMAIN v.pending
      BY <2>2, <2>3
    <3>2. \A k \in DOMAIN w.pending : \E m \in DOMAIN v.pending : w.pending[k] = v.pending[m]
      BY <2>2, <3>1
    <3> QED  BY <3>2 DEF PendingIds
  <2>5. PendingIds(v) \subseteq Known(v)
    BY <2>3 DEF Known, PendingIds
  <2>6. ProcessingIds(v) \subseteq Known(v)
    BY <1>1, QueueFields DEF Known, ProcessingIds, Entry
  <2>7. ProcessingIds(w) \subseteq ProcessingIds(v) \cup PendingIds(v)
    BY <2>2 DEF ProcessingIds, PendingIds
  <2>8. Known(w) \subseteq Known(v) \cup {}
    BY <1>1, <2>2, <2>4, <2>5, <2>6, <2>7, KnownOnly
  <2> QED  BY <1>1, <2>1, <2>2, <2>8 DEF Onward, Sound, IsCompleted, w
<1> QED  BY <1>1, <1>2, <1>3, DequeueByIdIsMove

(* So does apply_ack.                                                      *)
LEMMA AckOnward ==
  ASSUME NEW v, Sound(v), NEW j \in Job
  PROVE  /\ Onward(v, {}, Ack(v, j))
         /\ IsProcessing(v, j) => IsCompleted(Ack(v, j), j)
<1> DEFINE w == Ack(v, j)
<1>1. v \in QueueValue /\ NoDuplicate(v)
  BY DEF Sound
<1>2. w \in QueueValue /\ NoDuplicate(w)
  BY <1>1, AckType, AckUnique
<1>3. CASE ~IsProcessing(v, j)
  BY <1>1, <1>3 DEF Ack, Onward, Sound
<1>4. CASE IsProcessing(v, j)
  <2>1. /\ w.pending = v.pending /\ w.scheduled = v.scheduled
        /\ w.processing = {p \in v.processing : p.id # j}
        /\ w.dead_letter = v.dead_letter
        /\ w.completed = [v.completed EXCEPT ![j] = v.completed[j] + 1]
    BY <1>1, <1>4, AckFields
  <2> HIDE DEF w
  <2>2. /\ PendingIds(v) \subseteq Known(v) /\ ProcessingIds(v) \subseteq Known(v)
        /\ v.scheduled \subseteq Known(v) /\ j \in ProcessingIds(v)
    BY <1>1, <1>4, QueueFields DEF Known, PendingIds, ProcessingIds, Entry, IsProcessing
  <2>3. /\ \A k \in Job : k # j => w.completed[k] = v.completed[k]
        /\ w.completed[j] > 0
    BY <1>1, <2>1, QueueFields
  <2>4. PendingIds(w) \subseteq Known(v) /\ ProcessingIds(w) \subseteq Known(v)
    BY <2>1, <2>2 DEF PendingIds, ProcessingIds
  <2>5. Known(w) \subseteq Known(v) \cup {}
    BY <2>1, <2>2, <2>3, <2>4, KnownOnly
  <2>6. \A k \in Job : IsCompleted(v, k) => IsCompleted(w, k)
    BY <2>3 DEF IsCompleted
  <2> QED  BY <1>2, <2>3, <2>5, <2>6 DEF Onward, Sound, IsCompleted, w
<1> QED  BY <1>3, <1>4

(* So does apply_nack.                                                     *)
LEMMA NackOnward ==
  ASSUME NEW v, Sound(v), NEW j \in Job
  PROVE  Onward(v, {}, Nack(v, j))
<1> DEFINE w == Nack(v, j)
<1>1. v \in QueueValue /\ NoDuplicate(v)
  BY DEF Sound
<1>2. w \in QueueValue /\ NoDuplicate(w)
  BY <1>1, NackType, NackUnique
<1>3. CASE ~IsProcessing(v, j)
  BY <1>1, <1>3 DEF Nack, Onward, Sound
<1>4. CASE IsProcessing(v, j)
  <2>1. /\ w.scheduled = v.scheduled /\ w.completed = v.completed
        /\ w.processing = {p \in v.processing : p.id # j}
        /\ Dies(v, j) =>
             /\ w.pending = v.pending
             /\ w.dead_letter = [v.dead_letter EXCEPT ![j] = v.dead_letter[j] + 1]
        /\ ~Dies(v, j) =>
             /\ w.pending = Append(v.pending, Requeued(v, j))
             /\ w.dead_letter = v.dead_letter
    BY <1>1, <1>4, NackFields
  <2> HIDE DEF w
  <2>2. /\ PendingIds(v) \subseteq Known(v) /\ ProcessingIds(v) \subseteq Known(v)
        /\ v.scheduled \subseteq Known(v) /\ j \in ProcessingIds(v)
    BY <1>1, <1>4, QueueFields DEF Known, PendingIds, ProcessingIds, Entry, IsProcessing
  <2>3. \A k \in Job : k # j => w.dead_letter[k] = v.dead_letter[k]
    BY <1>1, <2>1, QueueFields
  <2>4. ProcessingIds(w) \subseteq Known(v)
    BY <2>1, <2>2 DEF ProcessingIds
  <2>5. PendingIds(w) \subseteq Known(v)
    <3>1. CASE Dies(v, j)
      BY <2>1, <2>2, <3>1 DEF PendingIds
    <3>2. CASE ~Dies(v, j)
      <4>1. Requeued(v, j) \in Entry /\ Requeued(v, j).id = j
        BY <1>1, <1>4, NackEffect DEF Requeued
      <4>2. /\ DOMAIN w.pending = 1..(Len(v.pending) + 1)
            /\ \A i \in 1..Len(v.pending) : w.pending[i] = v.pending[i]
            /\ w.pending[Len(v.pending) + 1] = Requeued(v, j)
            /\ DOMAIN v.pending = 1..Len(v.pending) /\ Len(v.pending) \in Nat
        BY <1>1, <2>1, <3>2, <4>1, QueueFields, AppendOne
      <4>3. PendingIds(w) \subseteq PendingIds(v) \cup {j}
        BY <4>1, <4>2 DEF PendingIds
      <4> QED  BY <2>2, <4>3
    <3> QED  BY <3>1, <3>2
  <2>6. Known(w) \subseteq Known(v) \cup {}
    BY <2>1, <2>2, <2>3, <2>4, <2>5, KnownOnly
  <2> QED  BY <1>2, <2>1, <2>6 DEF Onward, Sound, IsCompleted, w
<1> QED  BY <1>3, <1>4

(* So any event goes onward, if the job it enqueues is a new one.          *)
LEMMA ApplyOnward ==
  ASSUME NEW v, Sound(v), NEW e \in Event, NEW t \in Nat,
         NewJob(e) \cap Known(v) = {}
  PROVE  Onward(v, NewJob(e), Apply(v, e, t))
<1>j. e.id \in Job
  BY DEF Event
<1>1. CASE e.op = "Enqueue"
  <2>1. Apply(v, e, t) = Enqueue(v, e.id, t) /\ NewJob(e) = {e.id}
    BY <1>1 DEF Apply, NewJob
  <2> QED  BY <1>j, <2>1, EnqueueOnward
<1>2. CASE e.op = "Dequeue"
  <2>1. Apply(v, e, t) = DequeueById(v, e.id) /\ NewJob(e) = {}
    BY <1>2 DEF Apply, NewJob
  <2> QED  BY <1>j, <2>1, DequeueOnward
<1>3. CASE e.op = "Ack"
  <2>1. Apply(v, e, t) = Ack(v, e.id) /\ NewJob(e) = {}
    BY <1>3 DEF Apply, NewJob
  <2> QED  BY <1>j, <2>1, AckOnward
<1>4. CASE e.op = "Nack"
  <2>1. Apply(v, e, t) = Nack(v, e.id) /\ NewJob(e) = {}
    BY <1>4 DEF Apply, NewJob
  <2> QED  BY <1>j, <2>1, NackOnward
<1> QED  BY <1>1, <1>2, <1>3, <1>4 DEF Event

(* promote_ready_jobs keeps a queue sound and adds no job.                 *)
LEMMA PromoteOnward ==
  ASSUME NEW v, Sound(v), NEW t, NEW s \in HeapOrders(Ready(v, t))
  PROVE  Sound(Promote(v, s)) /\ Known(Promote(v, s)) \subseteq Known(v)
<1> DEFINE w == Promote(v, s)
           n == Len(v.pending)
           c == Cardinality(Ready(v, t))
<1>1. v \in QueueValue /\ NoDuplicate(v)
  BY DEF Sound
<1>2. w \in QueueValue /\ NoDuplicate(w)
  BY <1>1, PromoteType, PromoteUnique
<1>3. /\ w.scheduled = v.scheduled \ Ready(v, t)
      /\ w.processing = v.processing
      /\ w.completed = v.completed
      /\ w.dead_letter = v.dead_letter
      /\ c \in Nat
      /\ DOMAIN s = 1..c
      /\ DOMAIN w.pending = 1..(n + c)
      /\ \A k \in 1..n : w.pending[k] = v.pending[k]
      /\ \A k \in DOMAIN s : w.pending[n + k] = [id |-> s[k], attempts |-> 0]
      /\ \A k \in DOMAIN s : s[k] \in Ready(v, t)
  BY <1>1, PromoteEffect
<1> HIDE DEF w, c
<1>4. /\ PendingIds(v) \subseteq Known(v) /\ ProcessingIds(v) \subseteq Known(v)
      /\ v.scheduled \subseteq Known(v) /\ Ready(v, t) \subseteq v.scheduled
      /\ n \in Nat /\ DOMAIN v.pending = 1..n
  BY <1>1, QueueFields DEF Known, PendingIds, ProcessingIds, Entry, Ready
<1>5. PendingIds(w) \subseteq Known(v)
  <2> SUFFICES ASSUME NEW i \in DOMAIN w.pending
               PROVE  w.pending[i].id \in Known(v)
    BY DEF PendingIds
  <2>1. CASE i <= n
    <3>1. i \in DOMAIN v.pending /\ w.pending[i] = v.pending[i]
      BY <1>3, <1>4, <2>1
    <3> QED  BY <1>4, <3>1 DEF PendingIds
  <2>2. CASE i > n
    <3>1. i - n \in DOMAIN s /\ n + (i - n) = i
      BY <1>3, <1>4, <2>2
    <3>2. w.pending[n + (i - n)] = [id |-> s[i - n], attempts |-> 0]
      BY <1>3, <3>1
    <3>3. w.pending[i].id = s[i - n]
      BY <3>1, <3>2
    <3>4. s[i - n] \in Ready(v, t)
      BY <1>3, <3>1
    <3> QED  BY <1>4, <3>3, <3>4
  <2> QED  BY <1>3, <1>4, <2>1, <2>2
<1>6. ProcessingIds(w) \subseteq Known(v)
  BY <1>3, <1>4 DEF ProcessingIds
<1>7. Known(w) \subseteq Known(v) \cup {}
  BY <1>3, <1>4, <1>5, <1>6, KnownOnly
<1> QED  BY <1>2, <1>7 DEF Sound, w

(* An event brings one job at most.                                        *)
LEMMA NewJobType ==
  ASSUME NEW e \in Event
  PROVE  NewJob(e) \subseteq Job /\ (NewJob(e) = {} \/ \E j \in Job : NewJob(e) = {j})
BY DEF NewJob, Event

(* The pending job at i, being there once, is the one apply_dequeue finds. *)
LEMMA DequeueFindsIt ==
  ASSUME NEW v \in QueueValue, NoDuplicate(v), NEW i \in DOMAIN v.pending
  PROVE  DequeueById(v, v.pending[i].id) = MoveToProcessing(v, i)
<1> DEFINE j == v.pending[i].id
           k == CHOOSE k \in DOMAIN v.pending : IsFirstCopy(v, k, j)
<1>1. j \in PendingIds(v)
  BY DEF PendingIds
<1>2. k \in DOMAIN v.pending /\ v.pending[k].id = j
  BY <1>1, FirstCopyExists DEF IsFirstCopy
<1>3. k = i
  BY <1>2, Apart
<1> QED  BY <1>1, <1>3 DEF DequeueById
=============================================================================
