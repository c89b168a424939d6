------------------------- MODULE MCBoundedQueueBlock -------------------------
(***************************************************************************)
(* The queue as base/bounded_queue_test.cc:116-126 uses it: one thread     *)
(* calls WaitDequeue under the BlockWaitStrategy, another enqueues once.   *)
(***************************************************************************)
EXTENDS BoundedQueue, TLC

CONSTANTS p1, c1

MCScenarios == {[calls |-> (p1 :> 1) @@ (c1 :> 1),
                 waits |-> (p1 :> FALSE) @@ (c1 :> TRUE),
                 strategy |-> "block",
                 breaker |-> "never"]}
==============================================================================
