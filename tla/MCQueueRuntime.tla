--------------------------- MODULE MCQueueRuntime ---------------------------
(* Instances of QueueRuntime for TLC: two jobs of one queue, the first     *)
(* retried once and the second scheduled, under a limit of one or two.     *)
EXTENDS QueueRuntime

CONSTANTS a, j1, j2, w1, w2

MCQueueOf     == (j1 :> a) @@ (j2 :> a)
MCMaxAttempts == (j1 :> 2) @@ (j2 :> 1)
MCScheduledAt == (j1 :> 0) @@ (j2 :> 1)
One           == (a :> 1)
Two           == (a :> 2)
=============================================================================
