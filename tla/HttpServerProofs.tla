--------------------------- MODULE HttpServerProofs ---------------------------
(***************************************************************************)
(* Proofs about the servers of engine/http-server: which server the slot   *)
(* of the Node binding holds, that a connection's answers are in order,    *)
(* and that nothing is served once run has returned.                       *)
(***************************************************************************)
EXTENDS HttpServer, JsServer, FiniteSetTheorems, SequenceTheorems,
        WellFoundedInduction, TLAPS

-----------------------------------------------------------------------------
(* JsServer                                                                *)
(*                                                                         *)
(* As long as no two calls overlap, a server that is not done is in the    *)
(* slot or in the hands of the one call that goes on, and close would      *)
(* reach it: the slot has its token.                                       *)

NotIdle(c) == promise[c].stage # "idle"

CloseReaches(k) ==
  /\ slot.shutdown = k
  /\ served[k].stage # "done" => slot.port = k

OneCall == \A c, d \in Promise : NotIdle(c) /\ NotIdle(d) => c = d

NoneForgotten ==
  \A k \in DOMAIN served :
    \/ served[k].stage = "done"
    \/ slot.task = k
    \/ \E c \in Promise : NotIdle(c) /\ promise[c].server = k

TaskIsReached ==
  slot.task # None => /\ CloseReaches(slot.task)
                      /\ \A c \in Promise : ~NotIdle(c)

ListenIsReached ==
  \A c \in Promise :
    promise[c].stage \in {"reserved", "spawned"}
      => /\ slot.task = None
         /\ CloseReaches(promise[c].server)
         /\ promise[c].stage = "reserved" => served[promise[c].server].stage = "reserved"

SerialCalls == OneCall /\ NoneForgotten /\ TaskIsReached /\ ListenIsReached

(* The variables keep their types, and a call that goes on its server.     *)
Server == [stage : {"reserved", "binding", "running", "ended", "done"}, cancelled : BOOLEAN]
Slot(n) == [shutdown : 0..n, task : 0..n, port : 0..n]
Call(n) == [stage : {"idle", "reserved", "spawned", "awaiting"}, server : 0..n]

JsShape ==
  /\ JsTypeOK
  /\ \A c \in Promise : NotIdle(c) => promise[c].server \in DOMAIN served
  /\ overlapped \in BOOLEAN

(* What it says, with the sequence of servers as a function.               *)
LEMMA JsShapeMeans ==
  ASSUME JsShape
  PROVE  /\ served \in Seq(Server) /\ Len(served) \in Nat
         /\ DOMAIN served = 1..Len(served)
         /\ \A k \in 1..Len(served) : served[k] \in Server
         /\ slot \in Slot(Len(served))
         /\ promise \in [Promise -> Call(Len(served))]
         /\ overlapped \in BOOLEAN
         /\ \A c \in Promise : promise[c].stage # "idle"
                                 => promise[c].server \in 1..Len(served)
<1>1. served \in Seq(Server)
  BY DEF JsShape, JsTypeOK, Server
<1>2. /\ Len(served) \in Nat
      /\ DOMAIN served = 1..Len(served)
      /\ \A k \in 1..Len(served) : served[k] \in Server
  BY <1>1, LenProperties, ElementOfSeq
<1> QED  BY <1>1, <1>2 DEF JsShape, JsTypeOK, Slot, Call, NotIdle

(* A step that changes one server leaves the others as they were.          *)
LEMMA ServerChanges ==
  ASSUME JsShape, NEW k \in 1..Len(served), NEW s \in Server,
         served' = [served EXCEPT ![k] = s]
  PROVE  /\ served' \in Seq(Server) /\ Len(served') = Len(served)
         /\ DOMAIN served' = DOMAIN served
         /\ \A j \in 1..Len(served) : served'[j] = IF j = k THEN s ELSE served[j]
<1>1. served \in Seq(Server) /\ DOMAIN served = 1..Len(served)
  BY JsShapeMeans
<1> HIDE DEF Server
<1>2. served' \in Seq(Server) /\ Len(served') = Len(served)
  BY <1>1, ExceptSeq
<1> QED  BY <1>1, <1>2

(* It changes one call, at most, and leaves the sequence of servers as     *)
(* long as it was, or makes it longer.                                     *)
LEMMA CallChanges ==
  ASSUME JsShape, NEW m \in Nat, Len(served) <= m,
         \/ promise' = promise
         \/ \E c \in Promise : promise' = [promise EXCEPT ![c] = NoPromise]
         \/ \E c \in Promise, stage \in {"reserved", "spawned", "awaiting"}, k \in 1..m :
              Goes(c, stage, k)
  PROVE  /\ promise' \in [Promise -> Call(m)]
         /\ \A c \in Promise : promise'[c].stage # "idle" => promise'[c].server \in 1..m
<1>1. /\ promise \in [Promise -> Call(m)]
      /\ \A c \in Promise : promise[c].stage # "idle" => promise[c].server \in 1..m
  BY JsShapeMeans DEF Call
<1>2. CASE promise' = promise
  BY <1>1, <1>2
<1>3. ASSUME NEW c \in Promise, NEW q \in Call(m), q.stage # "idle" => q.server \in 1..m,
             promise' = [promise EXCEPT ![c] = q]
      PROVE  /\ promise' \in [Promise -> Call(m)]
             /\ \A d \in Promise : promise'[d].stage # "idle" => promise'[d].server \in 1..m
  <2>1. promise' \in [Promise -> Call(m)]
    BY <1>1, <1>3
  <2>2. \A d \in Promise : promise'[d] = IF d = c THEN q ELSE promise[d]
    BY <1>1, <1>3
  <2> QED  BY <1>1, <1>3, <2>1, <2>2
<1>4. ASSUME NEW c \in Promise, promise' = [promise EXCEPT ![c] = NoPromise]
      PROVE  /\ promise' \in [Promise -> Call(m)]
             /\ \A d \in Promise : promise'[d].stage # "idle" => promise'[d].server \in 1..m
  <2>1. NoPromise \in Call(m) /\ NoPromise.stage = "idle"
    BY DEF NoPromise, Call, None
  <2> QED  BY <1>3, <1>4, <2>1
<1>5. ASSUME NEW c \in Promise, NEW stage \in {"reserved", "spawned", "awaiting"},
             NEW k \in 1..m, Goes(c, stage, k)
      PROVE  /\ promise' \in [Promise -> Call(m)]
             /\ \A d \in Promise : promise'[d].stage # "idle" => promise'[d].server \in 1..m
  <2> DEFINE q == [stage |-> stage, server |-> k]
  <2>1. q \in Call(m) /\ q.server \in 1..m
    BY DEF Call
  <2>2. promise' = [promise EXCEPT ![c] = q]
    BY <1>5 DEF Goes
  <2> HIDE DEF q
  <2> QED  BY <1>3, <2>1, <2>2
<1> QED  BY <1>2, <1>4, <1>5

(* The slot may get new servers, or none.                                  *)
LEMMA SlotChanges ==
  ASSUME JsShape, NEW m \in Nat, Len(served) <= m, NEW k \in 0..m,
         \/ slot' = slot
         \/ slot' = [slot EXCEPT !.shutdown = k, !.port = k]
         \/ slot' = [slot EXCEPT !.task = k]
         \/ slot' = [slot EXCEPT !.shutdown = k, !.task = k]
         \/ slot' = [slot EXCEPT !.task = k, !.port = k]
  PROVE  slot' \in Slot(m)
<1>1. slot \in Slot(m)
  BY JsShapeMeans DEF Slot
<1> QED  BY <1>1 DEF Slot

(* Every step of the program keeps the shape.                              *)
LEMMA JsShapeStep == JsShape /\ [JsNext]_jsVars => JsShape'
<1> SUFFICES ASSUME JsShape, [JsNext]_jsVars  PROVE JsShape'
  OBVIOUS
<1>0. /\ served \in Seq(Server) /\ Len(served) \in Nat /\ DOMAIN served = 1..Len(served)
      /\ \A k \in 1..Len(served) : served[k] \in Server
      /\ slot \in Slot(Len(served)) /\ overlapped \in BOOLEAN
      /\ \A c \in Promise : promise[c].stage # "idle" => promise[c].server \in 1..Len(served)
  BY JsShapeMeans
<1>00. ASSUME NEW m \in Nat, Len(served) <= m, served' \in Seq(Server), Len(served') = m,
              slot' \in Slot(m), overlapped' \in BOOLEAN,
              promise' \in [Promise -> Call(m)],
              \A c \in Promise : promise'[c].stage # "idle" => promise'[c].server \in 1..m
       PROVE  JsShape'
  <2>1. DOMAIN served' = 1..m
    BY <1>00, LenProperties
  <2> QED  BY <1>00, <2>1 DEF JsShape, JsTypeOK, Slot, Call, Server, NotIdle
<1>1. ASSUME NEW c \in Promise, ListenReserve(c)
      PROVE  JsShape'
  <2> DEFINE s == [stage |-> "reserved", cancelled |-> FALSE]
             m == Len(served) + 1
  <2>1. served' = Append(served, s) /\ s \in Server
    BY <1>1 DEF ListenReserve, Server
  <2>2. served' \in Seq(Server) /\ Len(served') = m
    BY <1>0, <2>1, AppendProperties
  <2>3. slot' = [slot EXCEPT !.shutdown = m, !.port = m] /\ Goes(c, "reserved", m)
    BY <1>1 DEF ListenReserve
  <2>4. m \in Nat /\ m \in 1..m /\ m \in 0..m /\ Len(served) <= m
    BY <1>0
  <2> HIDE DEF m
  <2>5. slot' \in Slot(m)
    BY <2>3, <2>4, SlotChanges
  <2>6. overlapped' \in BOOLEAN
    BY <1>0, <1>1 DEF ListenReserve, Begins
  <2> QED  BY <1>00, <2>2, <2>3, <2>4, <2>5, <2>6, CallChanges
<1>2. ASSUME NEW m \in Nat, m = Len(served), served' \in Seq(Server), Len(served') = m,
             overlapped' \in BOOLEAN,
             \/ slot' = slot
             \/ \E k \in 0..m : \/ slot' = [slot EXCEPT !.task = k]
                                \/ slot' = [slot EXCEPT !.shutdown = k, !.task = k]
                                \/ slot' = [slot EXCEPT !.task = k, !.port = k],
             \/ promise' = promise
             \/ \E c \in Promise : promise' = [promise EXCEPT ![c] = NoPromise]
             \/ \E c \in Promise, stage \in {"reserved", "spawned", "awaiting"}, k \in 1..m :
                  Goes(c, stage, k)
      PROVE  JsShape'
  <2>0. Len(served) <= m /\ 0 \in 0..m
    <3>1. m = Len(served) /\ m \in Nat
      BY <1>2
    <3> QED  BY <3>1
  <2>1. slot' \in Slot(m)
    BY <1>2, <2>0, SlotChanges
  <2>2. /\ promise' \in [Promise -> Call(m)]
        /\ \A c \in Promise : promise'[c].stage # "idle" => promise'[c].server \in 1..m
    BY <1>2, <2>0, CallChanges
  <2> QED  BY <1>00, <1>2, <2>0, <2>1, <2>2
<1>3. ASSUME NEW c \in Promise, ListenSpawn(c)
      PROVE  JsShape'
  <2> DEFINE k == promise[c].server
             s == [served[k] EXCEPT !.stage = "binding"]
  <2>1. k \in 1..Len(served)
    BY <1>0, <1>3 DEF ListenSpawn
  <2>2. s \in Server /\ served' = [served EXCEPT ![k] = s]
    BY <1>0, <1>3, <2>1 DEF ListenSpawn, Server
  <2>3. Goes(c, "spawned", k) /\ slot' = slot /\ overlapped' = overlapped
    BY <1>3 DEF ListenSpawn
  <2> HIDE DEF s, k
  <2>4. served' \in Seq(Server) /\ Len(served') = Len(served)
    BY <2>1, <2>2, ServerChanges
  <2> QED  BY <1>0, <1>2, <2>1, <2>3, <2>4
<1>4. ASSUME NEW c \in Promise, ListenStore(c)
      PROVE  JsShape'
  <2>1. promise[c].server \in 0..Len(served)
    BY <1>0, <1>4 DEF ListenStore
  <2> QED  BY <1>0, <1>2, <1>4, <2>1 DEF ListenStore, Ends
<1>5. ASSUME NEW c \in Promise, Close(c)
      PROVE  JsShape'
  <2>1. served' \in Seq(Server) /\ Len(served') = Len(served)
    <3>1. CASE slot.shutdown = None
      BY <1>0, <1>5, <3>1 DEF Close, Cancelled
    <3>2. CASE slot.shutdown # None
      <4> DEFINE k == slot.shutdown
                 s == [served[k] EXCEPT !.cancelled = TRUE]
      <4>1. k \in 1..Len(served)
        BY <1>0, <3>2 DEF Slot, None
      <4>2. s \in Server /\ served' = [served EXCEPT ![k] = s]
        BY <1>0, <1>5, <3>2, <4>1 DEF Close, Cancelled, Server
      <4> HIDE DEF s, k
      <4> QED  BY <4>1, <4>2, ServerChanges
    <3> QED  BY <3>1, <3>2
  <2>2. slot' = [slot EXCEPT !.shutdown = 0, !.task = 0] /\ 0 \in 0..Len(served)
    BY <1>0, <1>5 DEF Close, None
  <2>3. overlapped' \in BOOLEAN
    BY <1>0, <1>5 DEF Close, Begins
  <2>4. promise' = promise
        \/ (slot.task \in 1..Len(served) /\ Goes(c, "awaiting", slot.task))
    BY <1>0, <1>5 DEF Close, Slot, None
  <2> QED  BY <1>0, <1>2, <2>1, <2>2, <2>3, <2>4
<1>6. ASSUME NEW c \in Promise, CloseReturns(c)
      PROVE  JsShape'
  BY <1>0, <1>2, <1>6 DEF CloseReturns, Ends
<1>7. ASSUME NEW k \in 1..Len(served), ServerTask(k)
      PROVE  JsShape'
  <2>1. PICK x \in {"running", "ended", "done"} :
          served' = [served EXCEPT ![k].stage = x]
    BY <1>7 DEF ServerTask, Bind, RunReturns, ClearSlot
  <2> DEFINE s == [served[k] EXCEPT !.stage = x]
  <2>2. s \in Server /\ served' = [served EXCEPT ![k] = s]
    BY <1>0, <2>1 DEF Server
  <2> HIDE DEF s
  <2>3. served' \in Seq(Server) /\ Len(served') = Len(served)
    BY <2>2, ServerChanges
  <2>4. /\ slot' = slot \/ slot' = [slot EXCEPT !.task = 0, !.port = 0]
        /\ promise' = promise /\ overlapped' = overlapped /\ 0 \in 0..Len(served)
    BY <1>0, <1>7 DEF ServerTask, Bind, RunReturns, ClearSlot, None
  <2> QED  BY <1>0, <1>2, <2>3, <2>4
<1>8. CASE UNCHANGED jsVars
  BY <1>0, <1>2, <1>8 DEF jsVars
<1> QED  BY <1>0, <1>1, <1>3, <1>4, <1>5, <1>6, <1>7, <1>8 DEF JsNext

JsInv == JsShape /\ (overlapped \/ SerialCalls)

(* The inductive invariant holds initially.                                *)
LEMMA JsInvInit == JsInit => JsInv
<1> SUFFICES ASSUME JsInit  PROVE JsInv
  OBVIOUS
<1>1. /\ slot = [shutdown |-> 0, task |-> 0, port |-> 0]
      /\ served = << >> /\ Len(served) = 0 /\ DOMAIN served = {}
      /\ promise = [c \in Promise |-> [stage |-> "idle", server |-> 0]]
      /\ overlapped = FALSE
  BY DEF JsInit, NoPromise, None
<1>2. \A c \in Promise : promise[c].stage = "idle"
  BY <1>1
<1>3. /\ slot \in Slot(0) /\ promise \in [Promise -> Call(0)]
      /\ served \in Seq(Server)
  BY <1>1 DEF Slot, Call
<1>4. JsShape
  BY <1>1, <1>2, <1>3 DEF JsShape, JsTypeOK, NotIdle, Slot, Call, Server
<1>5. SerialCalls
  BY <1>1, <1>2 DEF SerialCalls, OneCall, NoneForgotten, TaskIsReached, ListenIsReached,
                    NotIdle, None
<1> QED  BY <1>4, <1>5 DEF JsInv

(* What a step does to the servers and the calls, as functions.            *)
LEMMA ServedFunctions ==
  ASSUME JsShape
  PROVE  /\ \A s \in Server : served' = Append(served, s)
              => /\ DOMAIN served' = DOMAIN served \cup {Len(served) + 1}
                 /\ served'[Len(served) + 1] = s
                 /\ \A k \in DOMAIN served : served'[k] = served[k]
         /\ \A k \in DOMAIN served, x \in {"reserved", "binding", "running", "ended", "done"} :
              served' = [served EXCEPT ![k].stage = x]
              => /\ DOMAIN served' = DOMAIN served
                 /\ served'[k].stage = x
                 /\ \A j \in DOMAIN served : j # k => served'[j] = served[j]
         /\ \A k \in 0..Len(served) : served' = Cancelled(k)
              => /\ DOMAIN served' = DOMAIN served
                 /\ \A j \in DOMAIN served : served'[j].stage = served[j].stage
<1>0. /\ served \in Seq(Server) /\ Len(served) \in Nat /\ DOMAIN served = 1..Len(served)
      /\ \A k \in 1..Len(served) : served[k] \in Server
  BY JsShapeMeans
<1>1. ASSUME NEW s \in Server, served' = Append(served, s)
      PROVE  /\ DOMAIN served' = DOMAIN served \cup {Len(served) + 1}
             /\ served'[Len(served) + 1] = s
             /\ \A k \in DOMAIN served : served'[k] = served[k]
  BY <1>0, <1>1, AppendProperties
<1>2. ASSUME NEW k \in DOMAIN served, NEW x, served' = [served EXCEPT ![k].stage = x]
      PROVE  /\ DOMAIN served' = DOMAIN served
             /\ served'[k].stage = x
             /\ \A j \in DOMAIN served : j # k => served'[j] = served[j]
  BY <1>0, <1>2 DEF Server
<1>3. ASSUME NEW k \in 0..Len(served), served' = Cancelled(k)
      PROVE  /\ DOMAIN served' = DOMAIN served
             /\ \A j \in DOMAIN served : served'[j].stage = served[j].stage
  BY <1>0, <1>3 DEF Server, Cancelled, None
<1> QED  BY <1>1, <1>2, <1>3

(* What a call writes is its own: the other promises stay as they are.     *)
LEMMA CallFunctions ==
  ASSUME JsShape
  PROVE  /\ \A c \in Promise : promise' = [promise EXCEPT ![c] = NoPromise]
              => /\ promise'[c].stage = "idle"
                 /\ \A d \in Promise : d # c => promise'[d] = promise[d]
         /\ \A c \in Promise : \A stage, k : Goes(c, stage, k)
              => /\ promise'[c].stage = stage /\ promise'[c].server = k
                 /\ \A d \in Promise : d # c => promise'[d] = promise[d]
<1>1. DOMAIN promise = Promise
  BY JsShapeMeans
<1> QED  BY <1>1 DEF Goes, NoPromise

(* Every step keeps the invariant.                                         *)
LEMMA JsInvStep == JsInv /\ [JsNext]_jsVars => JsInv'
<1> SUFFICES ASSUME JsInv, [JsNext]_jsVars, ~overlapped'  PROVE SerialCalls'
  BY JsShapeStep DEF JsInv
<1>1. JsShape /\ JsShape'
  BY JsShapeStep DEF JsInv
<1>2. ~overlapped /\ SerialCalls
  <2>1. ASSUME NEW c \in Promise, ListenReserve(c) \/ Close(c)  PROVE ~overlapped
    BY <2>1 DEF ListenReserve, Close, Begins
  <2>2. ASSUME UNCHANGED overlapped  PROVE ~overlapped
    BY <2>2
  <2>3. ~overlapped
    BY <2>1, <2>2 DEF JsNext, ListenSpawn, ListenStore, CloseReturns, ServerTask, Bind,
                      RunReturns, ClearSlot, jsVars
  <2> QED  BY <2>3 DEF JsInv
<1>3. /\ Len(served) \in Nat /\ DOMAIN served = 1..Len(served)
      /\ slot \in Slot(Len(served))
      /\ \A c \in Promise : promise[c].stage # "idle" => promise[c].server \in 1..Len(served)
      /\ \A k \in DOMAIN served : served[k] \in Server
  BY <1>1, JsShapeMeans
<1> DEFINE Idle == \A c \in Promise : promise[c].stage = "idle"
<1>4. Idle => \A k \in DOMAIN served : served[k].stage = "done" \/ slot.task = k
  BY <1>2 DEF SerialCalls, NoneForgotten, NotIdle
<1>5. ASSUME NEW c \in Promise, ListenReserve(c)
      PROVE  SerialCalls'
  <2> DEFINE n == Len(served) + 1
  <2>1. Idle /\ slot.task = 0
    BY <1>1, <1>5, JsShapeMeans DEF ListenReserve, Begins, None
  <2>2. /\ DOMAIN served' = DOMAIN served \cup {n}
        /\ served'[n].stage = "reserved"
        /\ \A k \in DOMAIN served : served'[k] = served[k]
    BY <1>1, <1>5, ServedFunctions DEF ListenReserve, Server
  <2>3. slot'.task = 0 /\ slot'.shutdown = n /\ slot'.port = n
    BY <1>3, <1>5, <2>1 DEF ListenReserve, Slot
  <2>4. /\ promise'[c].stage = "reserved" /\ promise'[c].server = n
        /\ \A d \in Promise : d # c => promise'[d] = promise[d]
    BY <1>1, <1>5, CallFunctions DEF ListenReserve
  <2>5. \A k \in DOMAIN served : served[k].stage = "done"
    BY <1>3, <1>4, <2>1
  <2> HIDE DEF n
  <2>6. OneCall' /\ TaskIsReached'
    BY <2>1, <2>3, <2>4 DEF OneCall, TaskIsReached, NotIdle, None
  <2>7. NoneForgotten'
    BY <2>2, <2>4, <2>5 DEF NoneForgotten, NotIdle
  <2>8. ListenIsReached'
    BY <2>1, <2>2, <2>3, <2>4 DEF ListenIsReached, CloseReaches, None
  <2> QED  BY <2>6, <2>7, <2>8 DEF SerialCalls
<1>6. ASSUME NEW c \in Promise, ListenSpawn(c)
      PROVE  SerialCalls'
  <2> DEFINE k == promise[c].server
  <2>1. k \in DOMAIN served /\ promise[c].stage = "reserved" /\ slot' = slot
    BY <1>3, <1>6 DEF ListenSpawn
  <2>2. /\ DOMAIN served' = DOMAIN served /\ served'[k].stage = "binding"
        /\ \A j \in DOMAIN served : j # k => served'[j] = served[j]
    BY <1>1, <1>6, <2>1, ServedFunctions DEF ListenSpawn
  <2>3. /\ promise'[c].stage = "spawned" /\ promise'[c].server = k
        /\ \A d \in Promise : d # c => promise'[d] = promise[d]
    BY <1>1, <1>6, CallFunctions DEF ListenSpawn
  <2>4. \A d \in Promise : d # c => promise[d].stage = "idle"
    BY <1>2, <2>1 DEF SerialCalls, OneCall, NotIdle
  <2>5. /\ slot.task = None /\ slot.shutdown = k
        /\ served[k].stage = "reserved" /\ slot.port = k
    BY <1>2, <2>1 DEF SerialCalls, ListenIsReached, CloseReaches
  <2>6. \A j \in DOMAIN served : served[j].stage = "done" \/ j = k
    BY <1>2, <1>3, <2>1, <2>4, <2>5 DEF SerialCalls, NoneForgotten, NotIdle, None
  <2> HIDE DEF k
  <2>7. OneCall' /\ TaskIsReached'
    BY <2>1, <2>3, <2>4, <2>5 DEF OneCall, TaskIsReached, NotIdle
  <2>8. NoneForgotten'
    BY <2>2, <2>3, <2>6 DEF NoneForgotten, NotIdle
  <2>9. ListenIsReached'
    BY <2>1, <2>3, <2>4, <2>5 DEF ListenIsReached, CloseReaches
  <2> QED  BY <2>7, <2>8, <2>9 DEF SerialCalls
<1>7. ASSUME NEW c \in Promise, ListenStore(c)
      PROVE  SerialCalls'
  <2> DEFINE k == promise[c].server
  <2>1. k \in DOMAIN served /\ promise[c].stage = "spawned" /\ served' = served
    BY <1>3, <1>7 DEF ListenStore
  <2>2. /\ promise'[c].stage = "idle"
        /\ \A d \in Promise : d # c => promise'[d] = promise[d]
    BY <1>1, <1>7, CallFunctions DEF ListenStore, Ends
  <2>3. \A d \in Promise : d # c => promise[d].stage = "idle"
    BY <1>2, <2>1 DEF SerialCalls, OneCall, NotIdle
  <2>4. slot.task = None /\ CloseReaches(k)
    BY <1>2, <2>1 DEF SerialCalls, ListenIsReached
  <2>5. slot'.task = k /\ slot'.shutdown = slot.shutdown /\ slot'.port = slot.port
    BY <1>3, <1>7 DEF ListenStore, Slot
  <2>6. \A j \in DOMAIN served : served[j].stage = "done" \/ j = k
    BY <1>2, <1>3, <2>1, <2>3, <2>4 DEF SerialCalls, NoneForgotten, NotIdle, None
  <2> HIDE DEF k
  <2>7. OneCall' /\ ListenIsReached'
    BY <2>2, <2>3 DEF OneCall, ListenIsReached, NotIdle
  <2>8. NoneForgotten'
    BY <2>1, <2>5, <2>6 DEF NoneForgotten
  <2>9. TaskIsReached'
    BY <2>1, <2>2, <2>3, <2>4, <2>5 DEF TaskIsReached, CloseReaches, NotIdle
  <2> QED  BY <2>7, <2>8, <2>9 DEF SerialCalls
<1>8. ASSUME NEW c \in Promise, Close(c)
      PROVE  SerialCalls'
  <2>1. Idle
    BY <1>1, <1>8, JsShapeMeans DEF Close, Begins
  <2>2. slot.shutdown \in 0..Len(served) /\ slot.task \in 0..Len(served) /\ slot'.task = None
    BY <1>3, <1>8 DEF Close, Slot
  <2>3. /\ DOMAIN served' = DOMAIN served
        /\ \A j \in DOMAIN served : served'[j].stage = served[j].stage
    BY <1>1, <1>8, <2>2, ServedFunctions DEF Close
  <2>4. CASE slot.task = None
    <3>1. promise' = promise
      BY <1>8, <2>4 DEF Close
    <3>2. \A k \in DOMAIN served : served[k].stage = "done"
      BY <1>3, <1>4, <2>1, <2>4 DEF None
    <3> QED  BY <2>1, <2>2, <2>3, <3>1, <3>2
             DEF SerialCalls, OneCall, NoneForgotten, TaskIsReached, ListenIsReached, NotIdle
  <2>5. CASE slot.task # None
    <3>1. /\ promise'[c].stage = "awaiting" /\ promise'[c].server = slot.task
          /\ \A d \in Promise : d # c => promise'[d] = promise[d]
      BY <1>1, <1>8, <2>5, CallFunctions DEF Close
    <3>2. OneCall' /\ TaskIsReached' /\ ListenIsReached'
      BY <2>1, <2>2, <3>1 DEF OneCall, TaskIsReached, ListenIsReached, NotIdle
    <3>3. NoneForgotten'
      BY <1>4, <2>1, <2>3, <3>1 DEF NoneForgotten, NotIdle
    <3> QED  BY <3>2, <3>3 DEF SerialCalls
  <2> QED  BY <2>4, <2>5
<1>9. ASSUME NEW c \in Promise, CloseReturns(c)
      PROVE  SerialCalls'
  <2> DEFINE k == promise[c].server
  <2>1. /\ k \in DOMAIN served /\ promise[c].stage = "awaiting"
        /\ served' = served /\ slot' = slot /\ served[k].stage = "done"
    BY <1>3, <1>9 DEF CloseReturns
  <2>2. /\ promise'[c].stage = "idle"
        /\ \A d \in Promise : d # c => promise'[d] = promise[d]
    BY <1>1, <1>9, CallFunctions DEF CloseReturns, Ends
  <2>3. \A d \in Promise : d # c => promise[d].stage = "idle"
    BY <1>2, <2>1 DEF SerialCalls, OneCall, NotIdle
  <2>4. slot.task = None
    BY <1>2, <2>1 DEF SerialCalls, TaskIsReached, NotIdle
  <2>5. \A j \in DOMAIN served : served[j].stage = "done" \/ j = k
    BY <1>2, <1>3, <2>1, <2>3, <2>4 DEF SerialCalls, NoneForgotten, NotIdle, None
  <2> QED  BY <2>1, <2>2, <2>3, <2>4, <2>5
           DEF SerialCalls, OneCall, NoneForgotten, TaskIsReached, ListenIsReached, NotIdle
<1>10. ASSUME NEW k \in DOMAIN served, NEW x \in {"running", "ended"},
              served[k].stage \in {"binding", "running"}, slot' = slot, promise' = promise,
              served' = [served EXCEPT ![k].stage = x]
       PROVE  SerialCalls'
  <2>1. /\ DOMAIN served' = DOMAIN served /\ served'[k].stage = x
        /\ \A j \in DOMAIN served : j # k => served'[j] = served[j]
    BY <1>1, <1>10, ServedFunctions
  <2>2. \A j \in DOMAIN served : /\ served'[j].stage = "done" <=> served[j].stage = "done"
                                 /\ served[j].stage = "reserved" => served'[j].stage = "reserved"
    BY <1>10, <2>1
  <2>3. OneCall' /\ NoneForgotten'
    BY <1>2, <1>10, <2>1, <2>2 DEF SerialCalls, OneCall, NoneForgotten, NotIdle
  <2>4. \A j \in DOMAIN served : CloseReaches(j) => CloseReaches(j)'
    BY <1>10, <2>1, <2>2 DEF CloseReaches
  <2>5. TaskIsReached'
    <3>1. slot.task # None => slot.task \in DOMAIN served
      BY <1>3 DEF Slot, None
    <3> QED  BY <1>2, <1>10, <2>2, <3>1 DEF SerialCalls, TaskIsReached, CloseReaches, NotIdle
  <2>6. ListenIsReached'
    <3>1. ASSUME NEW c \in Promise, promise[c].stage \in {"reserved", "spawned"}
          PROVE  /\ slot.task = None /\ CloseReaches(promise[c].server)
                 /\ promise[c].stage = "reserved" => served[promise[c].server].stage = "reserved"
                 /\ promise[c].server \in DOMAIN served
      BY <1>2, <1>3, <3>1 DEF SerialCalls, ListenIsReached
    <3> QED  BY <1>10, <2>2, <3>1 DEF ListenIsReached, CloseReaches
  <2> QED  BY <2>3, <2>5, <2>6 DEF SerialCalls
<1>11. ASSUME NEW k \in DOMAIN served, ClearSlot(k)
       PROVE  SerialCalls'
  <2>1. /\ DOMAIN served' = DOMAIN served /\ served'[k].stage = "done"
        /\ \A j \in DOMAIN served : j # k => served'[j] = served[j]
    BY <1>1, <1>11, ServedFunctions DEF ClearSlot
  <2>2. /\ served[k].stage = "ended" /\ promise' = promise
        /\ slot'.task = None /\ slot'.shutdown = slot.shutdown
    BY <1>3, <1>11 DEF ClearSlot, Slot
  <2>3. OneCall' /\ TaskIsReached'
    BY <1>2, <2>2 DEF SerialCalls, OneCall, TaskIsReached, NotIdle
  <2>4. slot.task = k \/ (\E c \in Promise : NotIdle(c) /\ promise[c].server = k)
    BY <1>2, <2>2 DEF SerialCalls, NoneForgotten
  <2>5. NoneForgotten'
    <3>1. ASSUME NEW j \in DOMAIN served, j # k, slot.task = j
          PROVE  FALSE
      <4>1. slot.task # None
        BY <1>3, <3>1 DEF None
      <4> QED  BY <1>2, <2>4, <3>1, <4>1 DEF SerialCalls, TaskIsReached
    <3> QED  BY <1>2, <2>1, <2>2, <3>1 DEF SerialCalls, NoneForgotten, NotIdle
  <2>6. ASSUME NEW c \in Promise, promise[c].stage \in {"reserved", "spawned"}
        PROVE  promise[c].server = k /\ slot.shutdown = k /\ promise[c].stage # "reserved"
    <3>1. /\ slot.task = None /\ slot.shutdown = promise[c].server /\ NotIdle(c)
          /\ promise[c].stage = "reserved" => served[promise[c].server].stage = "reserved"
      BY <1>2, <2>6 DEF SerialCalls, ListenIsReached, CloseReaches, NotIdle
    <3>2. promise[c].server = k
      <4>1. slot.task # k
        BY <1>3, <3>1 DEF None
      <4> QED  BY <1>2, <2>4, <3>1, <4>1 DEF SerialCalls, OneCall
    <3> QED  BY <2>2, <3>1, <3>2
  <2>7. ListenIsReached'
    BY <2>1, <2>2, <2>6 DEF ListenIsReached, CloseReaches
  <2> QED  BY <2>3, <2>5, <2>7 DEF SerialCalls
<1>12. ASSUME NEW k \in DOMAIN served, ServerTask(k)
       PROVE  SerialCalls'
  <2>1. CASE ClearSlot(k)
    BY <1>11, <2>1
  <2>2. CASE \E succeeds \in BOOLEAN : Bind(k, succeeds)
    BY <1>10, <2>2 DEF Bind
  <2>3. CASE RunReturns(k)
    BY <1>10, <2>3 DEF RunReturns
  <2> QED  BY <1>12, <2>1, <2>2, <2>3 DEF ServerTask
<1>13. CASE UNCHANGED jsVars
  BY <1>2, <1>13 DEF jsVars, SerialCalls, OneCall, NoneForgotten, TaskIsReached, ListenIsReached,
                     CloseReaches, NotIdle
<1> QED  BY <1>5, <1>6, <1>7, <1>8, <1>9, <1>12, <1>13 DEF JsNext

(* Of calls made one after the other, the server that is up is the one in  *)
(* the slot: close will stop it, and listen will not start another.        *)
THEOREM JsSlotTracksServer == JsSpec => [](JsTypeOK /\ SlotTracksServer)
<1>1. ASSUME JsInv  PROVE JsTypeOK /\ SlotTracksServer
  <2>1. JsShape
    BY <1>1 DEF JsInv
  <2>2. ASSUME NEW k \in DOMAIN served, served[k].stage = "running", ~overlapped,
               \A c \in Promise : promise[c].stage = "idle"
        PROVE  slot = [shutdown |-> k, task |-> k, port |-> k]
    <3>1. SerialCalls
      BY <1>1, <2>2 DEF JsInv
    <3>2. slot.task = k
      BY <2>2, <3>1 DEF SerialCalls, NoneForgotten, NotIdle
    <3>3. slot.task # None
      BY <2>1, <2>2, <3>2, JsShapeMeans DEF None
    <3>4. slot.shutdown = k /\ slot.port = k
      BY <2>2, <3>1, <3>2, <3>3 DEF SerialCalls, TaskIsReached, CloseReaches
    <3>5. slot \in Slot(Len(served))
      BY <2>1, JsShapeMeans
    <3> QED  BY <3>2, <3>4, <3>5 DEF Slot
  <2>3. overlapped \in BOOLEAN
    BY <2>1 DEF JsShape
  <2> QED  BY <2>1, <2>2, <2>3 DEF JsShape, SlotTracksServer
<1> QED  BY <1>1, JsInvInit, JsInvStep, PTL DEF JsSpec

-----------------------------------------------------------------------------
(* HttpServer: the connections, one by one                                 *)
(*                                                                         *)
(* What is still to be read of a connection comes after the request in     *)
(* hand, which comes after those that are answered, and a body directly    *)
(* after its head; but for the answer 400, after which nothing is read.    *)

Talking == {"handshake", "parsing", "body", "handling", "writing"}
Texts == {"head", "body"} \X Nat
Pieces == Texts \cup ({"frame"} \X Frames)
Links == [stage : OpenStages \cup {"none", "refused", "closed"}, unread : Seq(Pieces),
          owed : Nat, n : Nat, status : Nat]
Answers == Nat \X Nat

(* The last request that is answered.                                      *)
Floor(a) == IF a = << >> THEN 0 ELSE a[Len(a)][1]

Earlier(x, y) == x[2] < y[2] \/ (x[2] = y[2] /\ x[1] = "head" /\ y[1] = "body")

UnreadRight(q, s, a) ==
  /\ \A i \in 1..Len(q.unread) :
       /\ q.unread[i] \in Texts
       /\ Floor(a) < q.unread[i][2] /\ q.unread[i][2] <= Len(s)
       /\ q.unread[i][1] = "body"
            => s[q.unread[i][2]].body /\ (q.owed # 0 => q.unread[i][2] < q.owed)
  /\ \A i, j \in 1..Len(q.unread) : i < j => Earlier(q.unread[i], q.unread[j])

OwedRight(q, s, a) == q.owed # 0 => q.owed = Len(s) /\ s[q.owed].body /\ Floor(a) < q.owed

InHandRight(q, s, a) ==
  q.stage \in {"body", "handling", "writing"} => q.n \in 1..Len(s) /\ Floor(a) < q.n

RestIsLater(q) ==
  q.stage \in {"body", "handling"} \/ (q.stage = "writing" /\ q.status # 400)
    => /\ \A i \in 1..Len(q.unread) :
            \/ q.n < q.unread[i][2]
            \/ q.stage = "body" /\ q.unread[i] = <<"body", q.n>>
       /\ q.owed # 0 => q.n < q.owed \/ (q.stage = "body" /\ q.owed = q.n)

(* A peer that waits has no more than one request that is not answered.    *)
PatienceRight(p, s, a) == p \in Patient => Floor(a) = Len(a) /\ Len(s) <= Len(a) + 1

TalkRight(p, q, s, a) ==
  /\ UnreadRight(q, s, a) /\ OwedRight(q, s, a)
  /\ InHandRight(q, s, a) /\ RestIsLater(q) /\ PatienceRight(p, s, a)
  /\ Floor(a) <= Len(s)

AnswersRight(p, a) ==
  \A i \in 1..Len(a) :
    IF p \in Patient THEN a[i][1] = i ELSE i > 1 => a[i - 1][1] < a[i][1]

PeerRight(p, q, s, a) ==
  /\ q \in Links /\ s \in Seq(HttpRequests) /\ a \in Seq(Answers)
  /\ q.stage = "none" => q = NoLink /\ s = << >> /\ a = << >>
  /\ AnswersRight(p, a)
  /\ q.stage \in Talking => TalkRight(p, q, s, a)

-----------------------------------------------------------------------------
(* The last number is a number.                                            *)
LEMMA FloorIsNat == \A a \in Seq(Answers) : Floor(a) \in Nat
<1> SUFFICES ASSUME NEW a \in Seq(Answers), a # << >>  PROVE a[Len(a)][1] \in Nat
  BY DEF Floor
<1>1. Len(a) \in 1..Len(a)
  BY EmptySeq
<1>2. a[Len(a)] \in Answers
  BY <1>1, ElementOfSeq
<1> QED  BY <1>2 DEF Answers

(* Rest drops the first pieces.                                            *)
LEMMA RestOfSeq ==
  ASSUME NEW S, NEW u \in Seq(S), NEW k \in 1..Len(u)
  PROVE  /\ Rest(u, k) \in Seq(S) /\ Len(Rest(u, k)) = Len(u) - k
         /\ \A i \in 1..Len(Rest(u, k)) : /\ i + k \in 1..Len(u) /\ 1 < i + k
                                          /\ Rest(u, k)[i] = u[i + k]
<1>1. Len(u) \in Nat /\ \A i \in 1..Len(u) : u[i] \in S
  BY LenProperties, ElementOfSeq
<1>2. \A i \in (k + 1)..Len(u) : u[i] \in S
  BY <1>1
<1>3. k + 1 \in Int /\ Len(u) \in Int
  BY <1>1
<1>4. /\ Rest(u, k) \in Seq(S)
      /\ Len(Rest(u, k)) = IF k + 1 <= Len(u) THEN Len(u) - (k + 1) + 1 ELSE 0
      /\ \A i \in 1..(Len(u) - (k + 1) + 1) : Rest(u, k)[i] = u[k + 1 + i - 1]
  BY <1>2, <1>3, SubSeqProperties DEF Rest
<1>5. Len(Rest(u, k)) = Len(u) - k
  BY <1>1, <1>4
<1>6. ASSUME NEW i \in 1..Len(Rest(u, k))
      PROVE  i + k \in 1..Len(u) /\ 1 < i + k /\ Rest(u, k)[i] = u[i + k]
  <2> DEFINE n == Len(u)
  <2>1. n \in Nat /\ k \in 1..n /\ i \in 1..(n - k)
    BY <1>1, <1>5
  <2> HIDE DEF n
  <2>2. i \in 1..(n - (k + 1) + 1) /\ k + 1 + i - 1 = i + k
    BY <2>1
  <2>3. i + k \in 1..n /\ 1 < i + k
    BY <2>1
  <2>4. Rest(u, k)[i] = u[k + 1 + i - 1]
    BY <1>4, <2>2 DEF n
  <2>5. Rest(u, k)[i] = u[i + k]
    BY <2>2, <2>4
  <2> QED  BY <2>3, <2>5 DEF n
<1> QED  BY <1>4, <1>5, <1>6

(* A route is chosen, if there is one that fits: the first of them.        *)
LEMMA TargetKinds == \A r : Target(r) \in {"none", "http", "websocket"}
<1> SUFFICES ASSUME NEW r  PROVE Target(r) \in {"none", "http", "websocket"}
  OBVIOUS
<1> DEFINE fitting == {i \in DOMAIN Routes : Fits(Routes[i], r)}
<1>1. DOMAIN Routes \subseteq Nat /\ \A i \in DOMAIN Routes : Routes[i].kind \in {"http", "websocket"}
  <2>1. DOMAIN Routes = 1..Len(Routes) /\ Len(Routes) \in Nat
    BY HttpAssumption, LenProperties
  <2> QED  BY <2>1, HttpAssumption
<1>2. ASSUME fitting # {}
      PROVE  \E i \in fitting : \A j \in fitting : i <= j
  <2>1. fitting \subseteq Nat
    BY <1>1
  <2> HIDE DEF fitting
  <2>2. PICK i \in fitting : \A j \in fitting : <<j, i>> \notin OpToRel(<, Nat)
    BY <1>2, <2>1, NatLessThanWellFounded, WFMin
  <2>3. \A j \in fitting : ~(j < i)
    BY <2>1, <2>2 DEF OpToRel
  <2>4. \A j \in fitting : i <= j
    BY <2>1, <2>3
  <2> QED  BY <2>4
<1>3. fitting \subseteq DOMAIN Routes
  OBVIOUS
<1>4. Target(r) = IF fitting = {} THEN "none"
                  ELSE Routes[CHOOSE i \in fitting : \A j \in fitting : i <= j].kind
  BY DEF Target
<1> HIDE DEF fitting
<1> QED  BY <1>1, <1>2, <1>3, <1>4

(* What the parts of a connection are.                                     *)
LEMMA PeerFacts ==
  ASSUME NEW p, NEW q, NEW s, NEW a, PeerRight(p, q, s, a)
  PROVE  /\ q \in Links /\ s \in Seq(HttpRequests) /\ a \in Seq(Answers)
         /\ Len(q.unread) \in Nat /\ Len(s) \in Nat /\ Len(a) \in Nat /\ Floor(a) \in Nat
         /\ q.unread \in Seq(Pieces) /\ \A i \in 1..Len(q.unread) : q.unread[i] \in Pieces
         /\ q.owed \in Nat /\ q.n \in Nat
<1>1. q \in Links /\ s \in Seq(HttpRequests) /\ a \in Seq(Answers)
  BY DEF PeerRight
<1>2. q.unread \in Seq(Pieces) /\ q.owed \in Nat /\ q.n \in Nat
  BY <1>1 DEF Links
<1> QED  BY <1>1, <1>2, FloorIsNat, LenProperties, ElementOfSeq

(* A connection that ends is as it should be.                              *)
LEMMA ClosedRight ==
  ASSUME NEW p, NEW q, NEW s, NEW a, PeerRight(p, q, s, a)
  PROVE  PeerRight(p, [NoLink EXCEPT !.stage = "closed"], s, a)
<1>1. [NoLink EXCEPT !.stage = "closed"] \in Links
  BY EmptySeq DEF NoLink, Links
<1>2. [NoLink EXCEPT !.stage = "closed"].stage = "closed"
  BY DEF NoLink
<1> QED  BY <1>1, <1>2 DEF PeerRight, Talking

(* So is one that opens, or is refused.                                    *)
LEMMA ConnectedRight ==
  ASSUME NEW p, NEW q, NEW s, NEW a, PeerRight(p, q, s, a), q.stage = "none",
         NEW x \in {"refused", "handshake", "parsing"}
  PROVE  PeerRight(p, [q EXCEPT !.stage = x], s, a)
<1>1. q = NoLink /\ s = << >> /\ a = << >> /\ Len(s) = 0 /\ Len(a) = 0
  BY DEF PeerRight
<1> DEFINE r == [q EXCEPT !.stage = x]
<1>2. r.stage = x /\ r.unread = << >> /\ r.owed = 0 /\ r \in Links /\ Len(r.unread) = 0
  BY <1>1, EmptySeq DEF NoLink, Links, OpenStages
<1>3. Floor(a) = 0
  BY <1>1 DEF Floor
<1> HIDE DEF r
<1>4. /\ UnreadRight(r, s, a) /\ OwedRight(r, s, a) /\ PatienceRight(p, s, a)
      /\ InHandRight(r, s, a) /\ RestIsLater(r) /\ Floor(a) <= Len(s)
  BY <1>1, <1>2, <1>3 DEF UnreadRight, OwedRight, PatienceRight, InHandRight, RestIsLater
<1>5. r.stage # "none"
  BY <1>2
<1>6. PeerRight(p, r, s, a)
  BY <1>2, <1>4, <1>5 DEF PeerRight, TalkRight
<1> QED  BY <1>6 DEF r

(* The head of a new request comes after all that was sent before.         *)
LEMMA RequestRight ==
  ASSUME NEW p, NEW q, NEW s, NEW a, PeerRight(p, q, s, a), q.stage \in Talking,
         NEW r \in HttpRequests, q.owed = 0, p \in Patient => Len(a) = Len(s),
         NEW t, t = [q EXCEPT !.unread = Append(q.unread, <<"head", Len(s) + 1>>),
                              !.owed = IF r.body THEN Len(s) + 1 ELSE 0]
  PROVE  PeerRight(p, t, Append(s, r), a)
<1> DEFINE n == Len(s) + 1
           x == <<"head", n>>
           z == Append(s, r)
<1>0. /\ q \in Links /\ s \in Seq(HttpRequests) /\ a \in Seq(Answers)
      /\ Len(q.unread) \in Nat /\ Len(s) \in Nat /\ Len(a) \in Nat /\ Floor(a) \in Nat
      /\ q.unread \in Seq(Pieces) /\ q.owed \in Nat /\ q.n \in Nat
  BY PeerFacts
<1>1. TalkRight(p, q, s, a)
  BY DEF PeerRight
<1>2. n \in Nat /\ x \in Pieces /\ x \in Texts /\ x[1] = "head" /\ x[2] = n
  BY <1>0 DEF Pieces, Texts
<1>3. /\ t \in Links /\ t.unread = Append(q.unread, x) /\ t.stage = q.stage
      /\ t.owed = (IF r.body THEN n ELSE 0) /\ t.n = q.n /\ t.status = q.status
  <2>1. Append(q.unread, x) \in Seq(Pieces)
    BY <1>0, <1>2, AppendProperties
  <2> QED  BY <1>0, <1>2, <2>1 DEF Links
<1>4. /\ Len(t.unread) = Len(q.unread) + 1
      /\ \A i \in 1..Len(q.unread) : t.unread[i] = q.unread[i]
      /\ t.unread[Len(q.unread) + 1] = x
  <2> HIDE DEF x
  <2> QED  BY <1>0, <1>2, <1>3, AppendProperties
<1>5. /\ z \in Seq(HttpRequests) /\ Len(z) = n /\ z[n] = r
      /\ \A i \in 1..Len(s) : z[i] = s[i]
  BY <1>0, AppendProperties
<1> HIDE DEF x, z, n
<1>6. n = Len(s) + 1
  BY DEF n
<1>7. \A i \in 1..Len(t.unread) : i \in 1..Len(q.unread) \/ t.unread[i] = x
  BY <1>0, <1>4
<1>8. \A i \in 1..Len(q.unread) :
        /\ q.unread[i] \in Texts /\ q.unread[i][2] \in 1..Len(s) /\ Floor(a) < q.unread[i][2]
        /\ q.unread[i][1] = "body" => s[q.unread[i][2]].body
  BY <1>0, <1>1 DEF TalkRight, UnreadRight, Texts
<1>9. UnreadRight(t, z, a)
  <2>1. ASSUME NEW i \in 1..Len(t.unread)
        PROVE  /\ t.unread[i] \in Texts
               /\ Floor(a) < t.unread[i][2] /\ t.unread[i][2] <= Len(z)
               /\ t.unread[i][1] = "body"
                    => z[t.unread[i][2]].body /\ (t.owed # 0 => t.unread[i][2] < t.owed)
    <3>1. CASE i \in 1..Len(q.unread)
      <4>1. PICK y : y = q.unread[i] /\ y = t.unread[i]
        BY <1>4, <3>1
      <4>2. /\ y \in Texts /\ y[2] \in 1..Len(s) /\ Floor(a) < y[2]
            /\ y[1] = "body" => s[y[2]].body
        BY <1>8, <3>1, <4>1
      <4>3. y[1] = "body" => z[y[2]].body /\ (t.owed # 0 => y[2] < t.owed)
        BY <1>0, <1>3, <1>5, <1>6, <4>2
      <4> QED  BY <1>0, <1>5, <1>6, <4>1, <4>2, <4>3
    <3>2. CASE t.unread[i] = x
      <4>1. Floor(a) < n
        BY <1>0, <1>1, <1>6 DEF TalkRight
      <4> QED  BY <1>2, <1>5, <1>6, <3>2, <4>1
    <3> QED  BY <1>7, <3>1, <3>2
  <2>2. ASSUME NEW i \in 1..Len(t.unread), NEW j \in 1..Len(t.unread), i < j
        PROVE  Earlier(t.unread[i], t.unread[j])
    <3>1. i \in 1..Len(q.unread)
      BY <1>0, <1>4, <2>2
    <3>2. CASE j \in 1..Len(q.unread)
      BY <1>1, <1>4, <2>2, <3>1, <3>2 DEF TalkRight, UnreadRight
    <3>3. CASE t.unread[j] = x
      BY <1>0, <1>2, <1>4, <1>6, <1>8, <3>1, <3>3 DEF Earlier
    <3> QED  BY <1>7, <3>2, <3>3
  <2> QED  BY <2>1, <2>2 DEF UnreadRight
<1>10. OwedRight(t, z, a)
  BY <1>0, <1>1, <1>3, <1>5, <1>6 DEF TalkRight, OwedRight
<1>11. InHandRight(t, z, a)
  BY <1>0, <1>1, <1>3, <1>5, <1>6 DEF TalkRight, InHandRight
<1>12. RestIsLater(t)
  <2> SUFFICES ASSUME t.stage \in {"body", "handling"} \/ (t.stage = "writing" /\ t.status # 400)
               PROVE  /\ \A i \in 1..Len(t.unread) :
                           \/ t.n < t.unread[i][2]
                           \/ t.stage = "body" /\ t.unread[i] = <<"body", t.n>>
                      /\ t.owed # 0 => t.n < t.owed \/ (t.stage = "body" /\ t.owed = t.n)
    BY DEF RestIsLater
  <2>1. q.n <= Len(s)
    BY <1>0, <1>1, <1>3 DEF TalkRight, InHandRight
  <2>2. t.owed # 0 => t.n < t.owed
    BY <1>0, <1>3, <1>6, <2>1
  <2>3. \A i \in 1..Len(q.unread) :
          \/ q.n < q.unread[i][2]
          \/ q.stage = "body" /\ q.unread[i] = <<"body", q.n>>
    BY <1>1, <1>3 DEF TalkRight, RestIsLater
  <2>4. t.n < x[2]
    BY <1>0, <1>2, <1>3, <1>6, <2>1
  <2> QED  BY <1>3, <1>4, <1>7, <2>2, <2>3, <2>4
<1>13. PatienceRight(p, z, a) /\ Floor(a) <= Len(z)
  BY <1>0, <1>1, <1>5, <1>6 DEF TalkRight, PatienceRight
<1>14. t.stage # "none" /\ AnswersRight(p, a)
  BY <1>3 DEF PeerRight, Talking
<1>15. PeerRight(p, t, z, a)
  BY <1>0, <1>3, <1>5, <1>9, <1>10, <1>11, <1>12, <1>13, <1>14 DEF PeerRight, TalkRight
<1> QED  BY <1>15 DEF z

(* And so does the body that is owed.                                      *)
LEMMA BodyRight ==
  ASSUME NEW p, NEW q, NEW s, NEW a, PeerRight(p, q, s, a), q.owed # 0,
         NEW t, t = [q EXCEPT !.unread = Append(q.unread, <<"body", q.owed>>), !.owed = 0]
  PROVE  PeerRight(p, t, s, a)
<1> DEFINE x == <<"body", q.owed>>
<1>0. /\ q \in Links /\ s \in Seq(HttpRequests) /\ a \in Seq(Answers)
      /\ Len(q.unread) \in Nat /\ Len(s) \in Nat /\ Len(a) \in Nat /\ Floor(a) \in Nat
      /\ q.unread \in Seq(Pieces) /\ q.owed \in Nat /\ q.n \in Nat
  BY PeerFacts
<1>1. x \in Pieces /\ x \in Texts /\ x[1] = "body" /\ x[2] = q.owed
  BY <1>0 DEF Pieces, Texts
<1>2. /\ t \in Links /\ t.unread = Append(q.unread, x) /\ t.stage = q.stage
      /\ t.owed = 0 /\ t.n = q.n /\ t.status = q.status
  <2>1. Append(q.unread, x) \in Seq(Pieces)
    BY <1>0, <1>1, AppendProperties
  <2> QED  BY <1>0, <1>1, <2>1 DEF Links
<1>3. /\ Len(t.unread) = Len(q.unread) + 1
      /\ \A i \in 1..Len(q.unread) : t.unread[i] = q.unread[i]
      /\ t.unread[Len(q.unread) + 1] = x
  <2> HIDE DEF x
  <2> QED  BY <1>0, <1>1, <1>2, AppendProperties
<1> HIDE DEF x
<1>4. t.stage # "none" /\ AnswersRight(p, a)
  <2>1. q.stage # "none"
    BY DEF PeerRight, NoLink
  <2> QED  BY <1>2, <2>1 DEF PeerRight
<1>5. ASSUME q.stage \in Talking
      PROVE  TalkRight(p, t, s, a)
  <2>1. TalkRight(p, q, s, a)
    BY <1>5 DEF PeerRight
  <2>2. q.owed = Len(s) /\ s[q.owed].body /\ Floor(a) < q.owed
    BY <2>1 DEF TalkRight, OwedRight
  <2>3. \A i \in 1..Len(t.unread) : i \in 1..Len(q.unread) \/ t.unread[i] = x
    BY <1>0, <1>3
  <2>4. \A i \in 1..Len(q.unread) :
          /\ q.unread[i] \in Texts /\ Floor(a) < q.unread[i][2] /\ q.unread[i][2] <= Len(s)
          /\ q.unread[i][1] = "body" => s[q.unread[i][2]].body /\ q.unread[i][2] < q.owed
    BY <2>1 DEF TalkRight, UnreadRight
  <2>5. UnreadRight(t, s, a)
    <3>1. ASSUME NEW i \in 1..Len(t.unread)
          PROVE  /\ t.unread[i] \in Texts
                 /\ Floor(a) < t.unread[i][2] /\ t.unread[i][2] <= Len(s)
                 /\ t.unread[i][1] = "body"
                      => s[t.unread[i][2]].body /\ (t.owed # 0 => t.unread[i][2] < t.owed)
      <4>1. CASE i \in 1..Len(q.unread)
        BY <1>2, <1>3, <2>4, <4>1
      <4>2. CASE t.unread[i] = x
        <5>1. /\ x \in Texts /\ Floor(a) < x[2] /\ x[2] <= Len(s) /\ s[x[2]].body
              /\ ~(t.owed # 0)
          BY <1>0, <1>1, <1>2, <2>2
        <5> QED  BY <4>2, <5>1
      <4> QED  BY <2>3, <4>1, <4>2
    <3>2. ASSUME NEW i \in 1..Len(t.unread), NEW j \in 1..Len(t.unread), i < j
          PROVE  Earlier(t.unread[i], t.unread[j])
      <4>1. i \in 1..Len(q.unread)
        BY <1>0, <1>3, <3>2
      <4>2. CASE j \in 1..Len(q.unread)
        BY <1>3, <2>1, <3>2, <4>1, <4>2 DEF TalkRight, UnreadRight
      <4>3. CASE t.unread[j] = x
        <5>1. q.unread[i] \in Texts /\ q.unread[i][2] \in Nat
          BY <2>4, <4>1 DEF Texts
        <5>2. q.unread[i][1] = "head" \/ q.unread[i][1] = "body"
          BY <5>1 DEF Texts
        <5>3. \/ q.unread[i][2] < x[2]
              \/ q.unread[i][2] = x[2] /\ q.unread[i][1] = "head"
          BY <1>0, <1>1, <2>2, <2>4, <4>1, <5>1, <5>2
        <5>4. t.unread[i] = q.unread[i]
          BY <1>3, <4>1
        <5> QED  BY <1>1, <4>3, <5>3, <5>4 DEF Earlier
      <4> QED  BY <2>3, <4>2, <4>3
    <3> QED  BY <3>1, <3>2 DEF UnreadRight
  <2>6. OwedRight(t, s, a) /\ InHandRight(t, s, a) /\ PatienceRight(p, s, a) /\ Floor(a) <= Len(s)
    BY <1>2, <2>1 DEF TalkRight, OwedRight, InHandRight
  <2>7. RestIsLater(t)
    <3> SUFFICES ASSUME t.stage \in {"body", "handling"}
                          \/ (t.stage = "writing" /\ t.status # 400)
                 PROVE  \A i \in 1..Len(t.unread) :
                          \/ t.n < t.unread[i][2]
                          \/ t.stage = "body" /\ t.unread[i] = <<"body", t.n>>
      BY <1>2 DEF RestIsLater
    <3>1. /\ \A i \in 1..Len(q.unread) :
               \/ q.n < q.unread[i][2]
               \/ q.stage = "body" /\ q.unread[i] = <<"body", q.n>>
          /\ q.n < q.owed \/ (q.stage = "body" /\ q.owed = q.n)
      BY <1>2, <2>1 DEF TalkRight, RestIsLater
    <3>2. t.n < x[2] \/ (t.stage = "body" /\ x = <<"body", t.n>>)
      BY <1>1, <1>2, <3>1 DEF x
    <3> QED  BY <1>2, <1>3, <2>3, <3>1, <3>2
  <2> QED  BY <2>5, <2>6, <2>7 DEF TalkRight
<1> QED  BY <1>0, <1>2, <1>4, <1>5 DEF PeerRight

(* A read keeps what is unread in order.                                   *)
LEMMA ReadRight ==
  ASSUME NEW p, NEW q, NEW s, NEW a, PeerRight(p, q, s, a), q.stage \in Talking,
         NEW k \in 1..Len(q.unread), NEW t \in Links,
         t.stage \in {"body", "handling", "writing"},
         t.unread = Rest(q.unread, k), t.owed = q.owed,
         t.n \in 1..Len(s), Floor(a) < t.n, RestIsLater(t)
  PROVE  PeerRight(p, t, s, a)
<1>0. /\ s \in Seq(HttpRequests) /\ a \in Seq(Answers)
      /\ Len(q.unread) \in Nat /\ q.unread \in Seq(Pieces)
  BY PeerFacts
<1>1. TalkRight(p, q, s, a)
  BY DEF PeerRight
<1>2. /\ Len(t.unread) = Len(q.unread) - k
      /\ \A i \in 1..Len(t.unread) : i + k \in 1..Len(q.unread) /\ t.unread[i] = q.unread[i + k]
  <2> DEFINE v == Rest(q.unread, k)
  <2>1. /\ Len(v) = Len(q.unread) - k
        /\ \A i \in 1..Len(v) : i + k \in 1..Len(q.unread) /\ v[i] = q.unread[i + k]
    BY <1>0, RestOfSeq
  <2>2. t.unread = v
    OBVIOUS
  <2> HIDE DEF v
  <2> QED  BY <2>1, <2>2
<1>3. UnreadRight(t, s, a)
  <2>1. ASSUME NEW i \in 1..Len(t.unread), NEW j \in 1..Len(t.unread), i < j
        PROVE  Earlier(t.unread[i], t.unread[j])
    <3>1. i + k \in 1..Len(q.unread) /\ j + k \in 1..Len(q.unread) /\ i + k < j + k
      BY <1>0, <1>2, <2>1
    <3> QED  BY <1>1, <1>2, <3>1 DEF TalkRight, UnreadRight
  <2> QED  BY <1>1, <1>2, <2>1 DEF TalkRight, UnreadRight
<1>4. OwedRight(t, s, a) /\ InHandRight(t, s, a)
  BY <1>1 DEF TalkRight, OwedRight, InHandRight
<1>5. TalkRight(p, t, s, a)
  BY <1>1, <1>3, <1>4 DEF TalkRight
<1>6. AnswersRight(p, a) /\ t.stage # "none"
  BY DEF PeerRight
<1> QED  BY <1>0, <1>5, <1>6 DEF PeerRight

(* What becomes of a request that is complete.                             *)
LEMMA DispatchedIs ==
  ASSUME NEW p, link[p] \in Links, NEW n \in Nat, NEW u \in Seq(Pieces),
         NEW d, d = Dispatched(p, n, u)
  PROVE  /\ d \in Links /\ d.stage \in {"handling", "writing"}
         /\ d.unread = u /\ d.n = n /\ d.owed = link[p].owed
<1> DEFINE r == sent[p][n]
<1>1. ASSUME NEW status \in Nat, NEW e, e = Writing(p, n, u, status)
      PROVE  /\ e \in Links /\ e.stage = "writing"
             /\ e.unread = u /\ e.n = n /\ e.owed = link[p].owed
  BY <1>1 DEF Writing, Links, OpenStages
<1>2. CASE Target(r) = "none"
  <2>1. d = Writing(p, n, u, 404)
    BY <1>2 DEF Dispatched
  <2> QED  BY <1>1, <2>1
<1>3. CASE Target(r) = "websocket"
  <2>1. d = Writing(p, n, u, IF r.key THEN 101 ELSE 400)
    BY <1>3 DEF Dispatched
  <2>2. (IF r.key THEN 101 ELSE 400) \in Nat
    OBVIOUS
  <2> QED  BY <1>1, <2>1, <2>2
<1>4. CASE Target(r) = "http"
  <2>1. PICK e : e = Writing(p, n, u, 0)
    OBVIOUS
  <2>2. d = [e EXCEPT !.stage = "handling"]
    BY <1>4, <2>1 DEF Dispatched
  <2>3. /\ e \in Links /\ e.unread = u /\ e.n = n /\ e.owed = link[p].owed
    BY <1>1, <2>1
  <2> QED  BY <2>2, <2>3 DEF Links, OpenStages
<1> QED  BY <1>2, <1>3, <1>4, TargetKinds

(* A request read, up to its end or to the end of its head; or no request. *)
GoesOn(p, t) == PeerRight(p, t, sent[p], answers[p]) /\ t.stage \in OpenStages

(* Whatever the parser makes of the octets, the connection stays right.    *)
LEMMA ParseRight ==
  ASSUME NEW p, PeerRight(p, link[p], sent[p], answers[p]), link[p].stage = "parsing",
         NEW k \in 1..Len(link[p].unread)
  PROVE  LET unread == link[p].unread
             n == unread[1][2]
         IN  /\ GoesOn(p, Writing(p, n, Rest(unread, k), 400))
             /\ k = 1 => GoesOn(p, [link[p] EXCEPT !.stage = "body", !.unread = Rest(unread, 1), !.n = n])
             /\ ~(sent[p][n].body /\ k = 1) => GoesOn(p, Dispatched(p, n, Rest(unread, k)))
<1> DEFINE q == link[p]
           s == sent[p]
           a == answers[p]
           u == q.unread
           n == u[1][2]
           v == Rest(u, k)
<1>0. /\ q \in Links /\ Len(u) \in Nat /\ Len(s) \in Nat /\ u \in Seq(Pieces) /\ q.owed \in Nat
      /\ Floor(a) \in Nat
  BY PeerFacts
<1>1. TalkRight(p, q, s, a) /\ q.stage \in Talking
  BY DEF PeerRight, Talking
<1>2. \A i \in 1..Len(u) : /\ u[i] \in Texts /\ u[i][2] \in Nat /\ u[i][1] \in {"head", "body"}
                           /\ Floor(a) < u[i][2] /\ u[i][2] <= Len(s)
                           /\ u[i][1] = "body" => s[u[i][2]].body /\ (q.owed # 0 => u[i][2] < q.owed)
  BY <1>1 DEF TalkRight, UnreadRight, Texts
<1>3. \A i, j \in 1..Len(u) : i < j => Earlier(u[i], u[j])
  BY <1>1 DEF TalkRight, UnreadRight
<1>4. 1 \in 1..Len(u)
  BY <1>0
<1>5. n \in 1..Len(s) /\ Floor(a) < n /\ n \in Nat
  BY <1>0, <1>2, <1>4
<1>6. /\ v \in Seq(Pieces) /\ Len(v) = Len(u) - k
      /\ \A i \in 1..Len(v) : i + k \in 1..Len(u) /\ 1 < i + k /\ v[i] = u[i + k]
  BY <1>0, RestOfSeq
<1>7. q.owed # 0 => q.owed = Len(s) /\ s[q.owed].body
  BY <1>1 DEF TalkRight, OwedRight
<1> HIDE DEF q, s, a, u, n, v
<1>8. ASSUME NEW t \in Links, t.stage \in {"body", "handling", "writing"}, t.unread = v,
             t.owed = q.owed, t.n = n, RestIsLater(t)
      PROVE  GoesOn(p, t)
  <2>1. PeerRight(p, q, s, a) /\ k \in 1..Len(q.unread)
    BY DEF q, s, a
  <2>2. t.unread = Rest(q.unread, k) /\ t.n \in 1..Len(s) /\ Floor(a) < t.n
    BY <1>5, <1>8 DEF u, v
  <2>3. PeerRight(p, t, s, a)
    BY <1>1, <1>8, <2>1, <2>2, ReadRight
  <2> QED  BY <1>8, <2>3 DEF GoesOn, s, a, OpenStages
<1>9. \A i \in 1..Len(v) : n < v[i][2] \/ (v[i][2] = n /\ v[i] = <<"body", n>> /\ s[n].body)
  <2> SUFFICES ASSUME NEW i \in 1..Len(v), ~(n < v[i][2])
               PROVE  v[i][2] = n /\ v[i] = <<"body", n>> /\ s[n].body
    OBVIOUS
  <2>1. i + k \in 1..Len(u) /\ 1 < i + k /\ v[i] = u[i + k]
    BY <1>6
  <2>2. Earlier(u[1], v[i])
    BY <1>3, <1>4, <2>1
  <2>3. v[i][2] = n /\ v[i][1] = "body"
    BY <2>2 DEF Earlier, n
  <2>4. v[i] \in Texts /\ s[n].body
    BY <1>2, <2>1, <2>3
  <2> QED  BY <2>3, <2>4 DEF Texts
<1>10. ASSUME NEW t, t = Writing(p, n, v, 400)
       PROVE  GoesOn(p, t)
  <2>1. t = [q EXCEPT !.stage = "writing", !.unread = v, !.n = n, !.status = 400]
    BY <1>10 DEF Writing, q
  <2>2. /\ t \in Links /\ t.stage = "writing" /\ t.unread = v /\ t.owed = q.owed /\ t.n = n
        /\ t.status = 400
    <3>1. PICK c \in Nat : c = 400
      OBVIOUS
    <3>2. t = [q EXCEPT !.stage = "writing", !.unread = v, !.n = n, !.status = c]
      BY <2>1, <3>1
    <3>3. t \in Links /\ t.stage = "writing" /\ t.unread = v /\ t.owed = q.owed /\ t.n = n
      BY <1>0, <1>5, <1>6, <3>2 DEF Links, OpenStages
    <3>4. t.status = c
      BY <1>0, <3>2 DEF Links
    <3> QED  BY <3>1, <3>3, <3>4
  <2>3. RestIsLater(t)
    BY <2>2 DEF RestIsLater
  <2> QED  BY <1>8, <2>2, <2>3
<1>11. ASSUME NEW t, t = [q EXCEPT !.stage = "body", !.unread = v, !.n = n]
       PROVE  GoesOn(p, t)
  <2>1. t \in Links /\ t.stage = "body" /\ t.unread = v /\ t.owed = q.owed /\ t.n = n
    BY <1>0, <1>5, <1>6, <1>11 DEF Links, OpenStages
  <2>2. t.owed # 0 => t.n < t.owed \/ t.owed = t.n
    BY <1>0, <1>5, <1>7, <2>1
  <2>3. \A i \in 1..Len(t.unread) : t.n < t.unread[i][2] \/ t.unread[i] = <<"body", t.n>>
    BY <1>9, <2>1
  <2>4. RestIsLater(t)
    BY <2>1, <2>2, <2>3 DEF RestIsLater
  <2> QED  BY <1>8, <2>1, <2>4
<1>12. ASSUME ~(s[n].body /\ k = 1), NEW t, t = Dispatched(p, n, v)
       PROVE  GoesOn(p, t)
  <2>1. /\ t \in Links /\ t.stage \in {"handling", "writing"} /\ t.unread = v
        /\ t.owed = q.owed /\ t.n = n
    BY <1>0, <1>5, <1>6, <1>12, DispatchedIs DEF q
  <2>2. ASSUME s[n].body, 1 < Len(u)
        PROVE  2 \in 1..Len(u) /\ (n < u[2][2] \/ (u[2][2] = n /\ u[2][1] = "body"))
    <3>1. 2 \in 1..Len(u)
      BY <1>0, <2>2
    <3> QED  BY <1>3, <1>4, <3>1 DEF Earlier, n
  <2>3. s[n].body => 1 < k
    <3>1. s[n].body => k # 1
      BY <1>12
    <3>2. k \in Nat /\ 1 <= k
      BY <1>0 DEF u, q
    <3> QED  BY <3>1, <3>2
  <2>4. \A i \in 1..Len(v) : n < v[i][2]
    <3> SUFFICES ASSUME NEW i \in 1..Len(v), v[i][2] = n, s[n].body
                 PROVE  FALSE
      BY <1>9
    <3>1. i + k \in 1..Len(u) /\ v[i] = u[i + k] /\ 1 < k /\ k \in Nat /\ i \in Nat /\ 1 <= i
      BY <1>0, <1>6, <2>3 DEF u, q
    <3>2. 2 < i + k /\ 1 < Len(u)
      BY <1>0, <3>1
    <3>3. n < u[2][2] \/ (u[2][2] = n /\ u[2][1] = "body")
      BY <2>2, <3>2
    <3>4. 2 \in 1..Len(u) /\ Earlier(u[2], v[i])
      BY <1>3, <2>2, <3>1, <3>2
    <3>5. u[2][2] \in Nat
      BY <1>2, <3>4
    <3> QED  BY <1>5, <3>3, <3>4, <3>5 DEF Earlier
  <2>5. q.owed # 0 => n < q.owed
    <3> SUFFICES ASSUME q.owed # 0, ~(n < q.owed)  PROVE FALSE
      OBVIOUS
    <3>1. q.owed = n /\ n = Len(s)
      BY <1>0, <1>5, <1>7
    <3>2. s[n].body
      BY <1>7, <3>1
    <3>3. 1 < Len(u)
      BY <1>0, <2>3, <3>2 DEF u, q
    <3>4. 2 \in 1..Len(u) /\ (n < u[2][2] \/ (u[2][2] = n /\ u[2][1] = "body"))
      BY <2>2, <3>2, <3>3
    <3>5. u[2][2] <= n /\ u[2][2] \in Nat /\ (u[2][1] = "body" => u[2][2] < q.owed)
      BY <1>2, <3>1, <3>4
    <3> QED  BY <1>5, <3>1, <3>4, <3>5
  <2>6. t.stage # "body" /\ t.stage \in {"handling", "writing"} /\ RestIsLater(t)
    BY <2>1, <2>4, <2>5 DEF RestIsLater
  <2> QED  BY <1>8, <2>1, <2>6
<1>13. GoesOn(p, Writing(p, n, v, 400))
  BY <1>10
<1>14. GoesOn(p, [q EXCEPT !.stage = "body", !.unread = v, !.n = n])
  BY <1>11
<1>15. ~(s[n].body /\ k = 1) => GoesOn(p, Dispatched(p, n, v))
  BY <1>12
<1> QED  BY <1>13, <1>14, <1>15 DEF q, s, a, u, n, v

(* The body behind its head completes the request in hand.                 *)
LEMMA ReadBodyRight ==
  ASSUME NEW p, PeerRight(p, link[p], sent[p], answers[p]), link[p].stage = "body",
         link[p].unread # << >>, NEW t,
         t = Dispatched(p, link[p].n, Rest(link[p].unread, 1))
  PROVE  GoesOn(p, t)
<1> DEFINE q == link[p]
           s == sent[p]
           a == answers[p]
           u == q.unread
           n == q.n
           v == Rest(u, 1)
<1>0. /\ q \in Links /\ Len(u) \in Nat /\ Len(s) \in Nat /\ u \in Seq(Pieces) /\ q.owed \in Nat
      /\ n \in Nat
  BY PeerFacts
<1>1. TalkRight(p, q, s, a) /\ q.stage \in Talking
  BY DEF PeerRight, Talking
<1>2. \A i \in 1..Len(u) : /\ u[i] \in Texts /\ u[i][2] \in Nat /\ u[i][2] <= Len(s)
                           /\ u[i][1] = "body" => (q.owed # 0 => u[i][2] < q.owed)
                           /\ n < u[i][2] \/ u[i] = <<"body", n>>
  BY <1>1 DEF TalkRight, UnreadRight, RestIsLater, Texts
<1>3. \A i, j \in 1..Len(u) : i < j => Earlier(u[i], u[j])
  BY <1>1 DEF TalkRight, UnreadRight
<1>4. 1 \in 1..Len(u)
  BY <1>0, EmptySeq
<1>5. n \in 1..Len(s) /\ Floor(a) < n
  BY <1>1 DEF TalkRight, InHandRight
<1>6. /\ v \in Seq(Pieces) /\ Len(v) = Len(u) - 1
      /\ \A i \in 1..Len(v) : i + 1 \in 1..Len(u) /\ 1 < i + 1 /\ v[i] = u[i + 1]
  BY <1>0, <1>4, RestOfSeq
<1>7. q.owed # 0 => q.owed = Len(s) /\ (n < q.owed \/ q.owed = n)
  BY <1>1 DEF TalkRight, OwedRight, RestIsLater
<1>8. t = Dispatched(p, n, v)
  OBVIOUS
<1>9. /\ t \in Links /\ t.stage \in {"handling", "writing"} /\ t.unread = v
      /\ t.owed = q.owed /\ t.n = n
  BY <1>0, <1>6, <1>8, DispatchedIs
<1> HIDE DEF q, s, a, u, n, v
<1>10. \A i \in 1..Len(v) : n < v[i][2]
  <2> SUFFICES ASSUME NEW i \in 1..Len(v), ~(n < v[i][2])  PROVE FALSE
    OBVIOUS
  <2>1. i + 1 \in 1..Len(u) /\ 1 < i + 1 /\ v[i] = u[i + 1]
    BY <1>6
  <2>2. v[i] = <<"body", n>> /\ Earlier(u[1], v[i])
    BY <1>2, <1>3, <1>4, <2>1
  <2>3. u[1][2] < n \/ (u[1][2] = n /\ u[1][1] = "head")
    BY <2>2 DEF Earlier
  <2>4. u[1][2] \in Nat /\ (n < u[1][2] \/ u[1] = <<"body", n>>)
    BY <1>2, <1>4
  <2> QED  BY <1>0, <2>3, <2>4
<1>11. q.owed # 0 => n < q.owed
  <2> SUFFICES ASSUME q.owed # 0, q.owed = n, n = Len(s)  PROVE FALSE
    BY <1>7
  <2>1. u[1] = <<"body", n>> /\ u[1][2] < q.owed
    <3>1. u[1][2] \in Nat /\ u[1][2] <= n
      BY <1>2, <1>4
    <3>2. u[1] = <<"body", n>>
      BY <1>0, <1>2, <1>4, <3>1
    <3> QED  BY <1>2, <1>4, <3>2
  <2> QED  BY <1>0, <2>1
<1>12. RestIsLater(t)
  BY <1>9, <1>10, <1>11 DEF RestIsLater
<1>13. PeerRight(p, t, s, a)
  BY <1>1, <1>4, <1>5, <1>9, <1>12, ReadRight DEF q, s, a, u, v
<1> QED  BY <1>9, <1>13 DEF GoesOn, OpenStages, s, a

(* The handler answers.                                                    *)
LEMMA HandleRight ==
  ASSUME NEW p, NEW q, NEW s, NEW a, PeerRight(p, q, s, a), q.stage = "handling",
         NEW status \in Nat, NEW t, t = [q EXCEPT !.stage = "writing", !.status = status]
  PROVE  PeerRight(p, t, s, a)
<1>1. q \in Links /\ s \in Seq(HttpRequests) /\ a \in Seq(Answers)
  BY PeerFacts
<1>2. /\ t \in Links /\ t.stage = "writing"
      /\ t.unread = q.unread /\ t.owed = q.owed /\ t.n = q.n
  BY <1>1 DEF Links, OpenStages
<1>3. TalkRight(p, q, s, a)
  BY DEF PeerRight, Talking
<1>4. UnreadRight(t, s, a) /\ OwedRight(t, s, a) /\ InHandRight(t, s, a)
  BY <1>2, <1>3 DEF TalkRight, UnreadRight, OwedRight, InHandRight
<1>5. RestIsLater(t)
  BY <1>2, <1>3 DEF TalkRight, RestIsLater
<1>6. AnswersRight(p, a) /\ t.stage # "none"
  BY <1>2 DEF PeerRight
<1> QED  BY <1>1, <1>2, <1>3, <1>4, <1>5, <1>6 DEF PeerRight, TalkRight

(* The answer is to a later request than the ones before, and to the next  *)
(* of a peer that waits; the connection goes on with what comes after it.  *)
LEMMA AnswerRight ==
  ASSUME NEW p, NEW q, NEW s, NEW a, PeerRight(p, q, s, a), q.stage = "writing",
         NEW status \in Nat, status = q.status
  PROVE  LET z == Append(a, <<q.n, status>>) IN
         /\ PeerRight(p, [NoLink EXCEPT !.stage = "closed"], s, z)
         /\ PeerRight(p, [q EXCEPT !.stage = "websocket"], s, z)
         /\ status # 400 => PeerRight(p, [q EXCEPT !.stage = "parsing"], s, z)
<1> DEFINE x == <<q.n, status>>
           z == Append(a, x)
<1>0. /\ q \in Links /\ s \in Seq(HttpRequests) /\ a \in Seq(Answers)
      /\ Len(q.unread) \in Nat /\ Len(s) \in Nat /\ Len(a) \in Nat /\ Floor(a) \in Nat /\ q.n \in Nat
  BY PeerFacts
<1>1. TalkRight(p, q, s, a) /\ AnswersRight(p, a)
  BY DEF PeerRight, Talking
<1>2. q.n \in 1..Len(s) /\ Floor(a) < q.n
  BY <1>1 DEF TalkRight, InHandRight
<1>3. x \in Answers /\ x[1] = q.n
  BY <1>0 DEF Answers
<1> HIDE DEF x
<1>4. /\ z \in Seq(Answers) /\ z # << >> /\ Len(z) = Len(a) + 1
      /\ \A i \in 1..Len(a) : z[i] = a[i]
      /\ z[Len(a) + 1] = x
  BY <1>0, <1>3, AppendProperties
<1> HIDE DEF z
<1>5. Floor(z) = q.n
  BY <1>3, <1>4 DEF Floor
<1>6. AnswersRight(p, z)
  <2> SUFFICES ASSUME NEW i \in 1..Len(z)
               PROVE  IF p \in Patient THEN z[i][1] = i ELSE i > 1 => z[i - 1][1] < z[i][1]
    BY DEF AnswersRight
  <2>1. CASE i \in 1..Len(a)
    <3>1. i > 1 => i - 1 \in 1..Len(a)
      BY <1>0, <2>1
    <3> QED  BY <1>1, <1>4, <2>1, <3>1 DEF AnswersRight
  <2>2. CASE i = Len(a) + 1 /\ p \in Patient
    <3>1. q.n = Len(a) + 1
      BY <1>0, <1>1, <1>2, <2>2 DEF TalkRight, PatienceRight
    <3> QED  BY <1>3, <1>4, <2>2, <3>1
  <2>3. CASE i = Len(a) + 1 /\ p \notin Patient
    <3> SUFFICES ASSUME i > 1  PROVE z[i - 1][1] < z[i][1]
      BY <2>3
    <3>1. i - 1 = Len(a) /\ Len(a) \in 1..Len(a) /\ a # << >>
      BY <1>0, <2>3
    <3>2. z[i - 1][1] = Floor(a)
      BY <1>4, <3>1 DEF Floor
    <3> QED  BY <1>2, <1>3, <1>4, <2>3, <3>2
  <2> QED  BY <1>0, <1>4, <2>1, <2>2, <2>3
<1>7. PeerRight(p, [NoLink EXCEPT !.stage = "closed"], s, z)
  <2>1. [NoLink EXCEPT !.stage = "closed"] \in Links
    BY EmptySeq DEF NoLink, Links
  <2>2. [NoLink EXCEPT !.stage = "closed"].stage = "closed"
    BY DEF NoLink
  <2> QED  BY <1>0, <1>4, <1>6, <2>1, <2>2 DEF PeerRight, Talking
<1>8. PeerRight(p, [q EXCEPT !.stage = "websocket"], s, z)
  <2>1. [q EXCEPT !.stage = "websocket"] \in Links /\ [q EXCEPT !.stage = "websocket"].stage = "websocket"
    BY <1>0 DEF Links, OpenStages
  <2> QED  BY <1>0, <1>4, <1>6, <2>1 DEF PeerRight, Talking
<1>9. ASSUME status # 400
      PROVE  PeerRight(p, [q EXCEPT !.stage = "parsing"], s, z)
  <2>1. PICK t : t = [q EXCEPT !.stage = "parsing"]
    OBVIOUS
  <2>2. t \in Links /\ t.stage = "parsing" /\ t.unread = q.unread /\ t.owed = q.owed
    BY <1>0, <2>1 DEF Links, OpenStages
  <2>3. /\ \A i \in 1..Len(q.unread) : q.n < q.unread[i][2]
        /\ q.owed # 0 => q.n < q.owed
    BY <1>1, <1>9 DEF TalkRight, RestIsLater
  <2>4. UnreadRight(t, s, z) /\ OwedRight(t, s, z)
    BY <1>1, <1>5, <2>2, <2>3 DEF TalkRight, UnreadRight, OwedRight
  <2>5. InHandRight(t, s, z) /\ RestIsLater(t)
    BY <2>2 DEF InHandRight, RestIsLater
  <2>6. PatienceRight(p, s, z) /\ Floor(z) <= Len(s)
    BY <1>0, <1>1, <1>2, <1>4, <1>5 DEF TalkRight, PatienceRight
  <2>7. t.stage # "none"
    BY <2>2
  <2>8. PeerRight(p, t, s, z)
    BY <1>0, <1>4, <1>6, <2>2, <2>4, <2>5, <2>6, <2>7 DEF PeerRight, TalkRight
  <2> QED  BY <2>1, <2>8
<1> QED  BY <1>7, <1>8, <1>9 DEF z, x

-----------------------------------------------------------------------------
(* HttpServer: all connections together                                    *)

OpenPeers == {p \in Peer : IsOpen(p)}

HttpInv ==
  /\ HttpTypeOK
  /\ link \in [Peer -> Links] /\ sent \in [Peer -> Seq(HttpRequests)]
  /\ answers \in [Peer -> Seq(Answers)]
  /\ \A p \in Peer : PeerRight(p, link[p], sent[p], answers[p])
  /\ IsFiniteSet(OpenPeers)
  /\ StopIsComplete

(* The inductive invariant holds initially.                                *)
LEMMA HttpInvInit == HttpInit => HttpInv
<1> SUFFICES ASSUME HttpInit  PROVE HttpInv
  OBVIOUS
<1>1. NoLink \in Links /\ NoLink.stage = "none"
  BY EmptySeq DEF NoLink, Links
<1>2. << >> \in Seq(HttpRequests) /\ << >> \in Seq(Answers) /\ Len(<< >>) = 0
  BY EmptySeq
<1>3. /\ link = [p \in Peer |-> NoLink]
      /\ sent = [p \in Peer |-> << >>] /\ answers = [p \in Peer |-> << >>]
      /\ permits = MaxOpen /\ dual \in BOOLEAN /\ cancelled = FALSE /\ loop = "accepting"
  BY DEF HttpInit
<1>4. /\ link \in [Peer -> Links] /\ sent \in [Peer -> Seq(HttpRequests)]
      /\ answers \in [Peer -> Seq(Answers)]
  BY <1>1, <1>2, <1>3
<1>5. \A p \in Peer : PeerRight(p, NoLink, << >>, << >>)
  BY <1>1, <1>2 DEF PeerRight, AnswersRight, Talking
<1>6. OpenPeers = {}
  BY <1>1, <1>3 DEF OpenPeers, IsOpen, OpenStages
<1>7. HttpTypeOK
  <2>1. permits \in 0..MaxOpen /\ permits + 0 = MaxOpen /\ MaxSent \in Nat
    BY <1>3, HttpAssumption
  <2>2. permits + Cardinality(OpenPeers) = MaxOpen
    BY <1>6, <2>1, FS_EmptySet
  <2>3. \A p \in Peer : /\ link[p].stage \in OpenStages \cup {"none", "refused", "closed"}
                        /\ sent[p] \in Seq(HttpRequests) /\ Len(sent[p]) <= MaxSent
    BY <1>1, <1>2, <1>3, <2>1
  <2> QED  BY <1>3, <2>1, <2>2, <2>3 DEF HttpTypeOK, OpenPeers
<1>8. StopIsComplete
  BY <1>3 DEF StopIsComplete
<1> QED  BY <1>3, <1>4, <1>5, <1>6, <1>7, <1>8, FS_EmptySet DEF HttpInv

(* A step changes one connection, which keeps its invariant, and the       *)
(* permits as it opens or ends.                                            *)
LEMMA PeerChanges ==
  ASSUME HttpInv, NEW p \in Peer, NEW q, NEW s, NEW a,
         PeerRight(p, q, s, a), Len(s) <= MaxSent,
         link' = [link EXCEPT ![p] = q],
         \/ sent' = sent /\ s = sent[p]
         \/ sent' = [sent EXCEPT ![p] = s],
         \/ answers' = answers /\ a = answers[p]
         \/ answers' = [answers EXCEPT ![p] = a],
         UNCHANGED <<dual, cancelled, loop>>,
         \/ /\ permits' = permits
            /\ q.stage \in OpenStages <=> IsOpen(p)
         \/ /\ permits' = permits + 1
            /\ IsOpen(p) /\ q.stage \notin OpenStages
         \/ /\ permits' = permits - 1 /\ permits # 0 /\ loop = "accepting"
            /\ ~IsOpen(p) /\ q.stage \in OpenStages
  PROVE  HttpInv'
<1>0. /\ link \in [Peer -> Links] /\ sent \in [Peer -> Seq(HttpRequests)]
      /\ answers \in [Peer -> Seq(Answers)]
      /\ \A o \in Peer : PeerRight(o, link[o], sent[o], answers[o])
      /\ IsFiniteSet(OpenPeers) /\ StopIsComplete
      /\ dual \in BOOLEAN /\ cancelled \in BOOLEAN
      /\ loop \in {"accepting", "draining", "stopped"}
      /\ permits \in 0..MaxOpen /\ permits + Cardinality(OpenPeers) = MaxOpen
      /\ \A o \in Peer : Len(sent[o]) <= MaxSent
  BY DEF HttpInv, HttpTypeOK, OpenPeers
<1>1. q \in Links /\ s \in Seq(HttpRequests) /\ a \in Seq(Answers)
  BY PeerFacts
<1>2. /\ link' \in [Peer -> Links] /\ sent' \in [Peer -> Seq(HttpRequests)]
      /\ answers' \in [Peer -> Seq(Answers)]
  BY <1>0, <1>1
<1>3. /\ \A o \in Peer : link'[o] = IF o = p THEN q ELSE link[o]
      /\ \A o \in Peer : sent'[o] = IF o = p THEN s ELSE sent[o]
      /\ \A o \in Peer : answers'[o] = IF o = p THEN a ELSE answers[o]
  BY <1>0
<1>4. \A o \in Peer : PeerRight(o, link'[o], sent'[o], answers'[o])
  BY <1>0, <1>3
<1>5. \A o \in Peer : o # p => (IsOpen(o)' <=> IsOpen(o))
  BY <1>3 DEF IsOpen
<1>6. IsOpen(p)' <=> q.stage \in OpenStages
  BY <1>3 DEF IsOpen
<1>7. Cardinality(OpenPeers) \in Nat /\ MaxOpen \in Nat
  BY <1>0, HttpAssumption, FS_CardinalityType
<1>8. /\ IsFiniteSet(OpenPeers') /\ Cardinality(OpenPeers') \in Nat
      /\ permits' \in Int /\ permits' + Cardinality(OpenPeers') = MaxOpen
  <2>1. CASE permits' = permits /\ (q.stage \in OpenStages <=> IsOpen(p))
    <3>1. OpenPeers' = OpenPeers
      BY <1>5, <1>6, <2>1 DEF OpenPeers
    <3> QED  BY <1>0, <1>7, <2>1, <3>1
  <2>2. CASE permits' = permits + 1 /\ IsOpen(p) /\ q.stage \notin OpenStages
    <3>1. OpenPeers' = OpenPeers \ {p} /\ p \in OpenPeers
      BY <1>5, <1>6, <2>2 DEF OpenPeers
    <3>2. IsFiniteSet(OpenPeers') /\ Cardinality(OpenPeers') = Cardinality(OpenPeers) - 1
      BY <1>0, <3>1, FS_RemoveElement
    <3>3. Cardinality(OpenPeers') \in Nat
      BY <3>2, FS_CardinalityType
    <3> QED  BY <1>0, <1>7, <2>2, <3>2, <3>3
  <2>3. CASE permits' = permits - 1 /\ ~IsOpen(p) /\ q.stage \in OpenStages
    <3>1. OpenPeers' = OpenPeers \cup {p} /\ p \notin OpenPeers
      BY <1>5, <1>6, <2>3 DEF OpenPeers
    <3>2. IsFiniteSet(OpenPeers') /\ Cardinality(OpenPeers') = Cardinality(OpenPeers) + 1
      BY <1>0, <3>1, FS_AddElement
    <3>3. PICK c \in Nat : c = Cardinality(OpenPeers)
      BY <1>7
    <3>4. permits \in Int /\ permits + c = MaxOpen /\ c + 1 \in Nat
      BY <1>0, <1>7, <3>3
    <3>5. permits - 1 \in Int /\ (permits - 1) + (c + 1) = MaxOpen
      BY <1>7, <3>4
    <3> QED  BY <2>3, <3>2, <3>3, <3>4, <3>5
  <2> QED  BY <2>1, <2>2, <2>3
<1>9. permits' \in 0..MaxOpen
  <2>1. PICK c \in Nat : c = Cardinality(OpenPeers')
    BY <1>8
  <2>2. permits' \in Int /\ permits' + c = MaxOpen
    BY <1>8, <2>1
  <2>3. permits' \in Int /\ permits' >= 0
    BY <1>0, <1>7
  <2>4. PICK m \in Int : m = permits'
    BY <2>2
  <2>5. 0 <= m /\ m <= MaxOpen
    <3>1. m + c = MaxOpen /\ 0 <= m
      BY <2>2, <2>3, <2>4
    <3> QED  BY <1>7, <3>1
  <2> QED  BY <2>4, <2>5
<1>10. StopIsComplete'
  <2> SUFFICES ASSUME loop' = "stopped", NEW o \in Peer, IsOpen(o)'  PROVE FALSE
    BY DEF StopIsComplete
  <2>1. loop = "stopped" /\ ~IsOpen(o) /\ ~IsOpen(p)
    BY <1>0 DEF StopIsComplete
  <2> QED  BY <1>5, <1>6, <2>1
<1>11. HttpTypeOK'
  <2>1. \A o \in Peer : link'[o].stage \in OpenStages \cup {"none", "refused", "closed"}
    BY <1>2 DEF Links
  <2>2. \A o \in Peer : sent'[o] \in Seq(HttpRequests) /\ Len(sent'[o]) <= MaxSent
    BY <1>0, <1>1, <1>3
  <2> QED  BY <1>0, <1>8, <1>9, <2>1, <2>2 DEF HttpTypeOK, OpenPeers
<1> QED  BY <1>2, <1>4, <1>8, <1>10, <1>11 DEF HttpInv

(* A connection that is open goes on.                                      *)
LEMMA PeerGoesOn ==
  ASSUME HttpInv, NEW p \in Peer, IsOpen(p), NEW t, GoesOn(p, t), Continue(p, t),
         UNCHANGED <<dual, cancelled, loop, sent, answers>>
  PROVE  HttpInv'
<1>1. Len(sent[p]) <= MaxSent
  BY DEF HttpInv, HttpTypeOK
<1>2. PeerRight(p, t, sent[p], answers[p]) /\ t.stage \in OpenStages
  BY DEF GoesOn
<1> QED  BY <1>1, <1>2, PeerChanges DEF Continue

(* Or it ends, and gives its permit back.                                  *)
LEMMA PeerEnds ==
  ASSUME HttpInv, NEW p \in Peer, IsOpen(p), Closed(p),
         UNCHANGED <<dual, cancelled, loop, sent, answers>>
  PROVE  HttpInv'
<1>1. Len(sent[p]) <= MaxSent
  BY DEF HttpInv, HttpTypeOK
<1> DEFINE t == [NoLink EXCEPT !.stage = "closed"]
<1>2. PeerRight(p, link[p], sent[p], answers[p])
  BY DEF HttpInv
<1>3. PeerRight(p, t, sent[p], answers[p])
  BY <1>2, ClosedRight
<1>4. t.stage \notin OpenStages
  BY DEF NoLink, OpenStages
<1>5. link' = [link EXCEPT ![p] = t] /\ permits' = permits + 1
  BY DEF Closed
<1> HIDE DEF t
<1> QED  BY <1>1, <1>3, <1>4, <1>5, PeerChanges

(* What the peers do keeps it.                                             *)
LEMMA HttpInvPeers ==
  ASSUME HttpInv, NEW p \in Peer,
         \/ \E r \in HttpRequests : SendRequest(p, r)
         \/ SendBody(p)
         \/ \E f \in Frames : SendFrame(p, f)
  PROVE  HttpInv'
<1> DEFINE q == link[p]
           s == sent[p]
           a == answers[p]
<1>1. PeerRight(p, q, s, a) /\ Len(s) <= MaxSent
  BY DEF HttpInv, HttpTypeOK
<1>2. link \in [Peer -> Links] /\ sent \in [Peer -> Seq(HttpRequests)] /\ q \in Links
      /\ q.unread \in Seq(Pieces)
  BY DEF HttpInv, Links
<1>3. ASSUME NEW r \in HttpRequests, SendRequest(p, r)
      PROVE  HttpInv'
  <2> DEFINE n == Len(s) + 1
  <2>1. PICK t : t = [q EXCEPT !.unread = Append(q.unread, <<"head", n>>),
                               !.owed = IF r.body THEN n ELSE 0]
    OBVIOUS
  <2>2. link' = [link EXCEPT ![p] = t] /\ t.stage = q.stage
    BY <1>2, <1>3, <2>1 DEF SendRequest, Links
  <2>3. /\ q.stage \in Talking /\ q.stage \in OpenStages /\ q.owed = 0 /\ n <= MaxSent
        /\ p \in Patient => Len(a) = Len(s)
    BY <1>3 DEF SendRequest, IsOpen, OpenStages, Talking
  <2>4. PeerRight(p, t, Append(s, r), a)
    BY <1>1, <2>1, <2>3, RequestRight
  <2>5. Len(Append(s, r)) = n
    BY <1>2, AppendProperties
  <2>6. sent' = [sent EXCEPT ![p] = Append(s, r)]
    BY <1>3 DEF SendRequest
  <2> HIDE DEF n
  <2> QED  BY <1>3, <2>2, <2>3, <2>4, <2>5, <2>6, PeerChanges DEF SendRequest, IsOpen
<1>4. ASSUME SendBody(p)
      PROVE  HttpInv'
  <2>1. PICK t : t = [q EXCEPT !.unread = Append(q.unread, <<"body", q.owed>>), !.owed = 0]
    OBVIOUS
  <2>2. link' = [link EXCEPT ![p] = t] /\ t.stage = q.stage /\ q.owed # 0
    BY <1>2, <1>4, <2>1 DEF SendBody, Links
  <2>3. PeerRight(p, t, s, a)
    BY <1>1, <2>1, <2>2, BodyRight
  <2> QED  BY <1>1, <1>4, <2>2, <2>3, PeerChanges DEF SendBody, IsOpen
<1>5. ASSUME NEW f \in Frames, SendFrame(p, f)
      PROVE  HttpInv'
  <2>1. PICK t : t = [q EXCEPT !.unread = <<<<"frame", f>>>>]
    OBVIOUS
  <2>2. <<<<"frame", f>>>> \in Seq(Pieces)
    BY DEF Pieces
  <2>3. t \in Links /\ t.stage = "websocket" /\ q.stage = "websocket"
    BY <1>2, <1>5, <2>1, <2>2 DEF SendFrame, Links
  <2>4. PeerRight(p, t, s, a)
    <3>1. t.stage # "none" /\ t.stage \notin Talking
      BY <2>3 DEF Talking
    <3> QED  BY <1>1, <2>3, <3>1 DEF PeerRight
  <2>5. link' = [link EXCEPT ![p] = t]
    BY <1>2, <1>5, <2>1 DEF SendFrame
  <2> QED  BY <1>1, <1>5, <2>3, <2>4, <2>5, PeerChanges DEF SendFrame, IsOpen
<1> QED  BY <1>3, <1>4, <1>5

(* What the task of a connection does keeps it.                            *)
LEMMA HttpInvConnection ==
  ASSUME HttpInv, NEW p \in Peer,
         \/ \E succeeds \in BOOLEAN : Handshake(p, succeeds)
         \/ Serve(p) \/ WriteAnswer(p) \/ WriteFails(p)
         \/ NextFrame(p) \/ LeaveWebSocket(p) \/ Abort(p)
  PROVE  HttpInv'
<1> DEFINE q == link[p]
           s == sent[p]
           a == answers[p]
<1>1. PeerRight(p, q, s, a) /\ Len(s) <= MaxSent
  BY DEF HttpInv, HttpTypeOK
<1>2. q \in Links /\ q.unread \in Seq(Pieces) /\ q.status \in Nat
  BY DEF HttpInv, Links
<1>3. ASSUME NEW succeeds \in BOOLEAN, Handshake(p, succeeds)
      PROVE  HttpInv'
  <2>1. IsOpen(p) /\ q.stage = "handshake"
    BY <1>3 DEF Handshake, IsOpen, OpenStages
  <2>2. CASE succeeds
    <3>1. PICK t : t = [q EXCEPT !.stage = "parsing"]
      OBVIOUS
    <3>2. /\ t \in Links /\ t.stage = "parsing"
          /\ t.unread = q.unread /\ t.owed = q.owed
      BY <1>2, <3>1 DEF Links, OpenStages
    <3>3. TalkRight(p, q, s, a) /\ AnswersRight(p, a)
      BY <1>1, <2>1 DEF PeerRight, Talking
    <3>4. UnreadRight(t, s, a) /\ OwedRight(t, s, a)
      BY <3>2, <3>3 DEF TalkRight, UnreadRight, OwedRight
    <3>5. InHandRight(t, s, a) /\ RestIsLater(t) /\ t.stage # "none" /\ t.stage \in OpenStages
      BY <3>2 DEF InHandRight, RestIsLater, OpenStages
    <3>6. s \in Seq(HttpRequests) /\ a \in Seq(Answers)
      BY <1>1 DEF PeerRight
    <3>7. GoesOn(p, t)
      BY <3>2, <3>3, <3>4, <3>5, <3>6 DEF GoesOn, PeerRight, TalkRight
    <3> QED  BY <1>3, <2>1, <2>2, <3>1, <3>7, PeerGoesOn DEF Handshake
  <2>3. CASE ~succeeds
    BY <1>3, <2>1, <2>3, PeerEnds DEF Handshake
  <2> QED  BY <2>2, <2>3
<1>4. ASSUME NEW k \in Nat, ParseRequest(p, k)
      PROVE  HttpInv'
  <2> DEFINE u == q.unread
             n == u[1][2]
             t == IF ~(u[1][1] = "head" /\ s[n].valid)
                  THEN Writing(p, n, Rest(u, k), 400)
                  ELSE IF s[n].body /\ k = 1
                  THEN [link[p] EXCEPT !.stage = "body", !.unread = Rest(u, 1), !.n = n]
                  ELSE Dispatched(p, n, Rest(u, k))
  <2>1. IsOpen(p) /\ q.stage = "parsing" /\ k \in 1..Len(u) /\ Continue(p, t)
    BY <1>4 DEF ParseRequest, IsOpen, OpenStages
  <2>2. /\ GoesOn(p, Writing(p, n, Rest(u, k), 400))
        /\ k = 1 => GoesOn(p, [link[p] EXCEPT !.stage = "body", !.unread = Rest(u, 1), !.n = n])
        /\ ~(s[n].body /\ k = 1) => GoesOn(p, Dispatched(p, n, Rest(u, k)))
    BY <1>1, <2>1, ParseRight
  <2>3. GoesOn(p, t)
    <3>1. CASE ~(u[1][1] = "head" /\ s[n].valid)
      BY <2>2, <3>1
    <3>2. CASE (u[1][1] = "head" /\ s[n].valid) /\ (s[n].body /\ k = 1)
      BY <2>2, <3>2
    <3>3. CASE (u[1][1] = "head" /\ s[n].valid) /\ ~(s[n].body /\ k = 1)
      BY <2>2, <3>3
    <3> QED  BY <3>1, <3>2, <3>3
  <2> HIDE DEF t
  <2> QED  BY <1>4, <2>1, <2>3, PeerGoesOn DEF ParseRequest
<1>5. ASSUME ReadBody(p)
      PROVE  HttpInv'
  <2> DEFINE t == Dispatched(p, q.n, Rest(q.unread, 1))
  <2>1. IsOpen(p) /\ q.stage = "body" /\ q.unread # << >> /\ Continue(p, t)
    BY <1>5 DEF ReadBody, IsOpen, OpenStages
  <2>2. GoesOn(p, t)
    BY <1>1, <2>1, ReadBodyRight
  <2> HIDE DEF t
  <2> QED  BY <1>5, <2>1, <2>2, PeerGoesOn DEF ReadBody
<1>6. ASSUME NEW status \in {200, 504}, Handle(p, status)
      PROVE  HttpInv'
  <2>1. PICK t : t = [q EXCEPT !.stage = "writing", !.status = status]
    OBVIOUS
  <2>2. IsOpen(p) /\ q.stage = "handling" /\ Continue(p, t)
    BY <1>6, <2>1 DEF Handle, IsOpen, OpenStages
  <2>3. PeerRight(p, t, s, a)
    <3>1. status \in Nat
      BY <1>6
    <3>2. \A x \in Links : x = t => PeerRight(p, x, s, a)
      <4> SUFFICES ASSUME NEW x \in Links, x = [q EXCEPT !.stage = "writing", !.status = status]
                   PROVE  PeerRight(p, x, s, a)
        BY <2>1
      <4>1. PeerRight(p, q, s, a) /\ q.stage = "handling"
        BY <1>1, <2>2
      <4> HIDE DEF q, s, a
      <4> QED  BY <3>1, <4>1, HandleRight
    <3>3. t \in Links
      BY <1>2, <2>1, <3>1 DEF Links, OpenStages
    <3> QED  BY <3>2, <3>3
  <2>4. t.stage = "writing"
    BY <1>2, <2>1 DEF Links
  <2> QED  BY <1>6, <2>2, <2>3, <2>4, PeerGoesOn DEF Handle, GoesOn, OpenStages
<1>7. ASSUME WriteAnswer(p)
      PROVE  HttpInv'
  <2> DEFINE z == Append(a, <<q.n, q.status>>)
  <2>1. q.stage = "writing" /\ IsOpen(p) /\ answers' = [answers EXCEPT ![p] = z]
    BY <1>7 DEF WriteAnswer, IsOpen, OpenStages
  <2>2. /\ PeerRight(p, [NoLink EXCEPT !.stage = "closed"], s, z)
        /\ PeerRight(p, [q EXCEPT !.stage = "websocket"], s, z)
        /\ q.status # 400 => PeerRight(p, [q EXCEPT !.stage = "parsing"], s, z)
    BY <1>1, <1>2, <2>1, AnswerRight
  <2> HIDE DEF z
  <2>3. ASSUME NEW t, Continue(p, t), PeerRight(p, t, s, z), t.stage \in OpenStages
        PROVE  HttpInv'
    <3>1. link' = [link EXCEPT ![p] = t] /\ permits' = permits
      BY <2>3 DEF Continue
    <3>2. UNCHANGED <<dual, cancelled, loop, sent>>
      BY <1>7 DEF WriteAnswer
    <3> QED  BY <1>1, <2>1, <2>3, <3>1, <3>2, PeerChanges
  <2>4. CASE q.status = 101
    <3>1. PICK t : t = [q EXCEPT !.stage = "websocket"]
      OBVIOUS
    <3>2. Continue(p, t) /\ t.stage \in OpenStages
      BY <1>2, <1>7, <2>4, <3>1 DEF WriteAnswer, Links, OpenStages
    <3> QED  BY <2>2, <2>3, <3>1, <3>2
  <2>5. CASE q.status # 101 /\ q.status # 400 /\ s[q.n].keepAlive
    <3>1. PICK t : t = [q EXCEPT !.stage = "parsing"]
      OBVIOUS
    <3>2. Continue(p, t)
      BY <1>7, <2>5, <3>1 DEF WriteAnswer
    <3>3. t.stage \in OpenStages
      BY <1>2, <3>1 DEF Links, OpenStages
    <3> QED  BY <2>2, <2>3, <2>5, <3>1, <3>2, <3>3
  <2>6. CASE q.status # 101 /\ ~(q.status # 400 /\ s[q.n].keepAlive)
    <3>1. PICK t : t = [NoLink EXCEPT !.stage = "closed"]
      OBVIOUS
    <3>2. link' = [link EXCEPT ![p] = t] /\ permits' = permits + 1
      BY <1>7, <2>6, <3>1 DEF WriteAnswer, Closed
    <3>3. t.stage \notin OpenStages
      BY <3>1 DEF NoLink, OpenStages
    <3>4. UNCHANGED <<dual, cancelled, loop, sent>>
      BY <1>7 DEF WriteAnswer
    <3> QED  BY <1>1, <2>1, <2>2, <3>1, <3>2, <3>3, <3>4, PeerChanges
  <2> QED  BY <2>4, <2>5, <2>6
<1>8. ASSUME NextFrame(p)
      PROVE  HttpInv'
  <2>1. IsOpen(p) /\ q.stage = "websocket" /\ q.unread # << >>
    BY <1>8 DEF NextFrame, IsOpen, OpenStages
  <2>2. PICK t : t = [q EXCEPT !.unread = Rest(q.unread, 1)]
    OBVIOUS
  <2>3. CASE Closed(p)
    BY <1>8, <2>1, <2>3, PeerEnds DEF NextFrame
  <2>4. CASE Continue(p, t)
    <3>1. 1 \in 1..Len(q.unread)
      BY <1>2, <2>1, EmptySeq
    <3>2. Rest(q.unread, 1) \in Seq(Pieces)
      BY <1>2, <3>1, RestOfSeq
    <3>3. t \in Links /\ t.stage = "websocket"
      BY <1>2, <2>1, <2>2, <3>2 DEF Links
    <3>4. GoesOn(p, t)
      BY <1>1, <3>3 DEF GoesOn, PeerRight, Talking, OpenStages
    <3> QED  BY <1>8, <2>1, <2>4, <3>4, PeerGoesOn DEF NextFrame
  <2> QED  BY <1>8, <2>2, <2>3, <2>4 DEF NextFrame
<1>9. ASSUME IdleTimeout(p) \/ WriteFails(p) \/ LeaveWebSocket(p) \/ Abort(p)
      PROVE  HttpInv'
  BY <1>9, PeerEnds DEF IdleTimeout, WriteFails, LeaveWebSocket, Abort, IsOpen, OpenStages
<1>10. CASE Serve(p)
  <2>1. \A k \in 1..(2 * MaxSent) : k \in Nat
    BY HttpAssumption
  <2> QED  BY <1>4, <1>5, <1>6, <1>9, <1>10, <2>1 DEF Serve
<1> QED  BY <1>3, <1>7, <1>8, <1>9, <1>10

(* Every step keeps the invariant.                                         *)
LEMMA HttpInvStep == HttpInv /\ [HttpNext]_httpVars => HttpInv'
<1> SUFFICES ASSUME HttpInv, [HttpNext]_httpVars  PROVE HttpInv'
  OBVIOUS
<1>1. ASSUME NEW p \in Peer, NEW secure \in BOOLEAN, Connected(p, secure)
      PROVE  HttpInv'
  <2> DEFINE q == link[p]
  <2>1. PeerRight(p, q, sent[p], answers[p]) /\ Len(sent[p]) <= MaxSent /\ q.stage = "none"
        /\ q \in Links /\ link \in [Peer -> Links]
    BY <1>1 DEF HttpInv, HttpTypeOK, Connected
  <2>2. PICK x \in {"refused", "handshake", "parsing"} :
          x = IF cancelled \/ permits = 0 THEN "refused"
              ELSE IF secure THEN "handshake" ELSE "parsing"
    OBVIOUS
  <2>3. PICK t : t = [q EXCEPT !.stage = x]
    OBVIOUS
  <2>4. PeerRight(p, t, sent[p], answers[p])
    BY <2>1, <2>3, ConnectedRight
  <2>5. ~IsOpen(p) /\ t.stage = x
    BY <2>1, <2>3 DEF IsOpen, OpenStages, Links
  <2>6. CASE cancelled \/ permits = 0
    <3>1. link' = [link EXCEPT ![p] = t] /\ permits' = permits
      BY <1>1, <2>1, <2>2, <2>3, <2>6 DEF Connected
    <3>2. t.stage \notin OpenStages
      BY <2>2, <2>5, <2>6 DEF OpenStages
    <3> QED  BY <1>1, <2>1, <2>4, <2>5, <3>1, <3>2, PeerChanges DEF Connected
  <2>7. CASE ~(cancelled \/ permits = 0)
    <3>1. link' = [link EXCEPT ![p] = t] /\ permits' = permits - 1 /\ permits # 0
          /\ loop = "accepting"
      BY <1>1, <2>1, <2>2, <2>3, <2>7 DEF Connected
    <3>2. t.stage \in OpenStages
      BY <2>2, <2>5, <2>7 DEF OpenStages
    <3> QED  BY <1>1, <2>1, <2>4, <2>5, <3>1, <3>2, PeerChanges DEF Connected
  <2> QED  BY <2>6, <2>7
<1>2. ASSUME UNCHANGED <<permits, link, sent, answers, dual>>,
             cancelled' \in BOOLEAN, loop' \in {"accepting", "draining", "stopped"},
             loop' = "stopped" => loop = "stopped" \/ permits = MaxOpen
      PROVE  HttpInv'
  <2>1. OpenPeers' = OpenPeers
    BY <1>2 DEF OpenPeers, IsOpen
  <2>2. HttpTypeOK'
    BY <1>2 DEF HttpInv, HttpTypeOK, IsOpen
  <2>3. StopIsComplete'
    <3>1. CASE loop = "stopped"
      BY <1>2, <3>1 DEF HttpInv, StopIsComplete, IsOpen
    <3>2. CASE permits = MaxOpen
      <4>1. IsFiniteSet(OpenPeers) /\ MaxOpen + Cardinality(OpenPeers) = MaxOpen
        BY <3>2 DEF HttpInv, HttpTypeOK, OpenPeers
      <4>2. Cardinality(OpenPeers) = 0
        BY <4>1, HttpAssumption, FS_CardinalityType
      <4>3. OpenPeers' = {}
        BY <2>1, <4>1, <4>2, FS_EmptySet
      <4> QED  BY <4>3 DEF StopIsComplete, OpenPeers
    <3> QED  BY <1>2, <3>1, <3>2 DEF StopIsComplete
  <2> QED  BY <1>2, <2>1, <2>2, <2>3 DEF HttpInv
<1>3. CASE Shutdown \/ StartDraining \/ Stop
  BY <1>2, <1>3 DEF Shutdown, StartDraining, Stop, HttpInv, HttpTypeOK
<1>4. CASE UNCHANGED httpVars
  BY <1>2, <1>4 DEF httpVars, HttpInv, HttpTypeOK
<1> QED  BY <1>1, <1>3, <1>4, HttpInvPeers, HttpInvConnection DEF HttpNext

(* So the inductive invariant holds always.                                *)
LEMMA HttpInvHolds == HttpSafety => []HttpInv
BY HttpInvInit, HttpInvStep, PTL DEF HttpSafety

(* The variables keep their types, and each open connection has one permit *)
(* of the semaphore: none is lost, and none is given back twice.           *)
THEOREM HttpIsTyped == HttpSafety => []HttpTypeOK
<1>1. HttpInv => HttpTypeOK
  BY DEF HttpInv
<1> QED  BY <1>1, HttpInvHolds, PTL

(* However what a peer sends is cut into reads, it is answered in order    *)
(* and nothing twice; and a peer that waits, each request.                 *)
THEOREM HttpAnswersInOrder == HttpSafety => []AnswersInOrder
<1>1. ASSUME HttpInv  PROVE AnswersInOrder
  <2>1. ASSUME NEW p \in Peer
        PROVE  AnswersRight(p, answers[p]) /\ DOMAIN answers[p] = 1..Len(answers[p])
    BY <1>1, LenProperties DEF HttpInv, PeerRight
  <2> QED  BY <2>1 DEF AnswersInOrder, AnswersRight
<1> QED  BY <1>1, HttpInvHolds, PTL

(* When run has returned, no connection is served: all permits came back,  *)
(* and the loop accepts no more.                                           *)
THEOREM HttpStopIsComplete == HttpSafety => []StopIsComplete
<1>1. HttpInv => StopIsComplete
  BY DEF HttpInv
<1> QED  BY <1>1, HttpInvHolds, PTL

=============================================================================
