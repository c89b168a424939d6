---------------------------- MODULE MCShmSegment ----------------------------
(***************************************************************************)
(* Two writers and a dispatcher; segments of two small blocks or one large *)
(* one; any one of the three may die.  The writers are symmetric: a plan   *)
(* is a set of plans, whoever follows which.                               *)
(***************************************************************************)
EXTENDS ShmSegment, TLC

CONSTANTS w1, w2, r

MCBlockNum == 1 :> 2 @@ 2 :> 1

Pairs ==
  { \* one writer, whose second message needs larger blocks
    << <<1, 2, 1>>, <<>> >>,
    \* both replace the segment
    << <<2>>, <<2>> >>,
    \* both at the same blocks
    << <<1>>, <<1>> >>,
    \* a message larger than the largest blocks
    << <<3, 1>>, <<>> >> }

MCPlans == {w1 :> p[1] @@ w2 :> p[2] : p \in Pairs} \cup
           {w2 :> p[1] @@ w1 :> p[2] : p \in Pairs}

Symmetry == Permutations(Writers)
==============================================================================
