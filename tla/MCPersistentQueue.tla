-------------------------- MODULE MCPersistentQueue -------------------------
(* Instances of PersistentQueue for TLC: two jobs of two queues, the first *)
(* possibly with a second attempt or scheduled, and the fault models.      *)
EXTENDS PersistentQueue

CONSTANTS a, b, j1, j2

MCQueueOf     == (j1 :> a) @@ (j2 :> b)
Retried       == (j1 :> 2) @@ (j2 :> 1)
NotRetried    == (j1 :> 1) @@ (j2 :> 1)
Unscheduled   == (j1 :> 0) @@ (j2 :> 0)
Scheduled     == (j1 :> 1) @@ (j2 :> 0)

(* Every step, and every step outside the window in which snapshot.bin is  *)
(* being replaced but the log it replaces is still there.                  *)
AnyStep        == Steps \ {"down", "failed"}
AllButRewrite  == AnyStep \ {"write"}
AllButCompact  == AnyStep \ {"write", "delete"}
AllIoButRewrite == {"append", "sync", "rotate", "truncate", "delete"}

(* What a run without the recovery or the ack property has to remember:    *)
(* `logged` and `acked` are history that nothing else reads.               *)
WithoutHistory == <<mem, pc, op, unread, disk, now, faults, issued, accepted>>
=============================================================================
