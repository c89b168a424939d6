------------------------------ MODULE FifoQueue ------------------------------
(***************************************************************************)
(* What base::BoundedQueue promises to its callers: a first-in first-out   *)
(* queue of at most Capacity elements, where a take that reports the queue *)
(* empty does so at a moment when it is.  A put may be refused at any time *)
(* (the code's refusals are the subject of RefusalsJustified in module     *)
(* BoundedQueue).                                                          *)
(***************************************************************************)
EXTENDS Naturals, Sequences

CONSTANTS Values,     \* what is put
          Takers,     \* who takes
          Capacity,
          None,       \* a taker without an answer
          Empty       \* the answer of a take from an empty queue

VARIABLES q,          \* the elements in the queue, oldest first
          answer      \* the last answer each taker got
fifoVars == <<q, answer>>

Init == /\ q = <<>>
        /\ answer = [c \in Takers |-> None]

Put(v) == /\ Len(q) < Capacity
          /\ q' = Append(q, v)
          /\ UNCHANGED answer

Ask(c) == /\ answer' = [answer EXCEPT ![c] = None]
          /\ UNCHANGED q

Take(c) == /\ q # <<>>
           /\ answer' = [answer EXCEPT ![c] = Head(q)]
           /\ q' = Tail(q)

Miss(c) == /\ q = <<>>
           /\ answer' = [answer EXCEPT ![c] = Empty]
           /\ UNCHANGED q

Next == \/ \E v \in Values : Put(v)
        \/ \E c \in Takers : Ask(c) \/ Take(c) \/ Miss(c)

Spec == Init /\ [][Next]_fifoVars
==============================================================================
