------------------------------ MODULE JsServer ------------------------------
(***************************************************************************)
(* JsServer (engine/http-server), the server of the Node binding: listen   *)
(* starts a task that runs an HttpServer, close cancels its token and      *)
(* waits for it, and both, and the task when it ends, change a slot behind *)
(* a mutex.  listen has it twice: before it starts the task and after.     *)
(***************************************************************************)
EXTENDS Integers, Sequences

CONSTANTS
  Promise,      (* calls of listen and close that may be going on at once  *)
  MaxServers    (* bound, for model checking, on calls of listen           *)

ASSUME JsAssumption == MaxServers \in Nat

None == 0

VARIABLES
  slot,         (* BridgeServerState: the server whose token, task handle  *)
                (* and port are in it                                      *)
  served,       (* the servers: where each is, and whether its token is    *)
                (* cancelled                                               *)
  promise,      (* the call that each promise stands for                   *)
  overlapped    (* history: two calls were going on at once                *)

jsVars == <<slot, served, promise, overlapped>>

NoPromise == [stage |-> "idle", server |-> None]

JsInit ==
  /\ slot = [shutdown |-> None, task |-> None, port |-> None]
  /\ served = << >>
  /\ promise = [c \in Promise |-> NoPromise]
  /\ overlapped = FALSE

Begins(c) ==
  /\ promise[c].stage = "idle"
  /\ overlapped' = (overlapped \/ \E d \in Promise : promise[d].stage # "idle")

Goes(c, stage, k) == promise' = [promise EXCEPT ![c] = [stage |-> stage, server |-> k]]
Ends(c) == promise' = [promise EXCEPT ![c] = NoPromise]

(* listen: the slot is free of a task, and takes the token and the port of *)
(* a new server.  (With a task in it, listen fails and changes nothing.    *)
(* Left out: the new server also takes the routes, so a second one has     *)
(* those added since.)                                                     *)
ListenReserve(c) ==
  LET k == Len(served) + 1 IN
  /\ Begins(c)
  /\ slot.task = None
  /\ k <= MaxServers
  /\ served' = Append(served, [stage |-> "reserved", cancelled |-> FALSE])
  /\ slot' = [slot EXCEPT !.shutdown = k, !.port = k]
  /\ Goes(c, "reserved", k)

ListenSpawn(c) ==
  LET k == promise[c].server IN
  /\ promise[c].stage = "reserved"
  /\ served' = [served EXCEPT ![k].stage = "binding"]
  /\ Goes(c, "spawned", k)
  /\ UNCHANGED <<slot, overlapped>>

ListenStore(c) ==
  /\ promise[c].stage = "spawned"
  /\ slot' = [slot EXCEPT !.task = promise[c].server]
  /\ Ends(c)
  /\ UNCHANGED <<served, overlapped>>

(* The task: the address is free, or in use; run returns when the token    *)
(* is cancelled; and the slot is cleared, whatever is in it.               *)
Bind(k, succeeds) ==
  /\ served[k].stage = "binding"
  /\ served' = [served EXCEPT ![k].stage = IF succeeds THEN "running" ELSE "ended"]
  /\ UNCHANGED <<slot, promise, overlapped>>

RunReturns(k) ==
  /\ served[k].stage = "running"
  /\ served[k].cancelled
  /\ served' = [served EXCEPT ![k].stage = "ended"]
  /\ UNCHANGED <<slot, promise, overlapped>>

ClearSlot(k) ==
  /\ served[k].stage = "ended"
  /\ served' = [served EXCEPT ![k].stage = "done"]
  /\ slot' = [slot EXCEPT !.task = None, !.port = None]
  /\ UNCHANGED <<promise, overlapped>>

Cancelled(k) == IF k = None THEN served ELSE [served EXCEPT ![k].cancelled = TRUE]

(* Mutant: close does not wait for the task.                               *)
CloseAtOnce(c) ==
  /\ Begins(c)
  /\ slot' = [slot EXCEPT !.shutdown = None, !.task = None]
  /\ served' = Cancelled(slot.shutdown)
  /\ UNCHANGED promise

(* close takes the token, which it cancels, and the task, for which it     *)
(* waits if there is one.                                                  *)
Close(c) ==
  /\ Begins(c)
  /\ slot' = [slot EXCEPT !.shutdown = None, !.task = None]
  /\ served' = Cancelled(slot.shutdown)
  /\ IF slot.task = None THEN UNCHANGED promise ELSE Goes(c, "awaiting", slot.task)

CloseReturns(c) ==
  /\ promise[c].stage = "awaiting"
  /\ served[promise[c].server].stage = "done"
  /\ Ends(c)
  /\ UNCHANGED <<slot, served, overlapped>>

-----------------------------------------------------------------------------
ServerTask(k) == (\E succeeds \in BOOLEAN : Bind(k, succeeds)) \/ RunReturns(k) \/ ClearSlot(k)

JsNext ==
  \/ \E c \in Promise : ListenReserve(c) \/ ListenSpawn(c) \/ ListenStore(c)
                        \/ Close(c) \/ CloseReturns(c)
  \/ \E k \in DOMAIN served : ServerTask(k)

JsSpec == JsInit /\ [][JsNext]_jsVars

-----------------------------------------------------------------------------
(* What each variable may hold.                                            *)
JsTypeOK ==
  /\ slot \in [shutdown : 0..Len(served), task : 0..Len(served), port : 0..Len(served)]
  /\ served \in Seq([stage : {"reserved", "binding", "running", "ended", "done"},
                     cancelled : BOOLEAN])
  /\ promise \in [Promise -> [stage : {"idle", "reserved", "spawned", "awaiting"},
                              server : 0..Len(served)]]

(* Of calls made one after the other, the server that is up is the one in  *)
(* the slot: close will stop it, listen will refuse to start another, and  *)
(* there is no other, though the tasks of earlier servers clear a slot     *)
(* that is no longer theirs.                                               *)
SlotTracksServer ==
  \A k \in DOMAIN served :
    (served[k].stage = "running" /\ ~served[k].cancelled)
      => \/ overlapped
         \/ \E c \in Promise : promise[c].stage # "idle"
         \/ slot = [shutdown |-> k, task |-> k, port |-> k]
=============================================================================
