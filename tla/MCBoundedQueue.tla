--------------------------- MODULE MCBoundedQueue ---------------------------
(***************************************************************************)
(* A ring of four slots that wraps around.  The scenarios cover: two      *)
(* producers against one waiting consumer; one producer against two        *)
(* consumers that race for the head; waiting producers at a full queue;    *)
(* two and two, none of which waits.                                       *)
(***************************************************************************)
EXTENDS BoundedQueue, TLC

CONSTANTS p1, p2, c1, c2

\* What p1, p2, c1 and c2 do, in this order.
Each(a, b, c, d) == (p1 :> a) @@ (p2 :> b) @@ (c1 :> c) @@ (c2 :> d)

Scenario(n, w, s, b) ==
  [calls |-> n, waits |-> w, strategy |-> s, breaker |-> b]

MCScenarios == {
  Scenario(Each(2, 2, 2, 0), Each(FALSE, TRUE, TRUE, FALSE),
           "timeout", "before"),
  Scenario(Each(4, 0, 2, 2), Each(FALSE, FALSE, TRUE, FALSE),
           "spin", "before"),
  Scenario(Each(2, 1, 1, 1), Each(TRUE, FALSE, FALSE, TRUE),
           "timeout", "before"),
  Scenario(Each(2, 2, 2, 1), Each(FALSE, FALSE, FALSE, FALSE),
           "spin", "never")}
=============================================================================
