----------------------------- MODULE ChannelView -----------------------------
(***************************************************************************)
(* What the buffer of a channel promises to the one task that reads it.    *)
(* The messages of the channel form a log.  The reader starts at the       *)
(* newest, goes through the log in order, skips only when it has fallen    *)
(* more than Capacity behind, then to the newest, and hears that there is  *)
(* nothing only when it has seen all.                                      *)
(***************************************************************************)
EXTENDS Naturals, Sequences

CONSTANTS Capacity,
          None,       \* a reader without an answer
          Nothing     \* the answer "no message"

VARIABLES log,        \* the messages of the channel, in the order of writing
          started,    \* the reader has a place in the log
          pos,        \* how many of them it is done with
          answer      \* what it is looking at
viewVars == <<log, started, pos, answer>>

Init == log = <<>> /\ started = FALSE /\ pos = 0 /\ answer = None

\* Somebody writes a message, whatever it is.
Write == /\ Len(log') = Len(log) + 1
         /\ SubSeq(log', 1, Len(log)) = log
         /\ UNCHANGED <<started, pos, answer>>

\* The next message in order.
Look == /\ started
        /\ pos < Len(log)
        /\ Len(log) - pos <= Capacity
        /\ answer' = log[pos + 1]
        /\ UNCHANGED <<log, started, pos>>

\* To the newest message: at the start, and after an overrun.
Jump == /\ log # <<>>
        /\ started => Len(log) - pos > Capacity
        /\ started' = TRUE
        /\ pos' = Len(log) - 1
        /\ answer' = log[Len(log)]
        /\ UNCHANGED log

Miss == /\ started => pos = Len(log)
        /\ ~started => log = <<>>
        /\ answer' = Nothing
        /\ UNCHANGED <<log, started, pos>>

Consume == /\ answer \notin {None, Nothing}
           /\ pos' = pos + 1
           /\ answer' = None
           /\ UNCHANGED <<log, started>>

\* The reader puts the message back, or goes on after a miss.
Forget == /\ answer' = None
          /\ UNCHANGED <<log, started, pos>>

Next == Write \/ Look \/ Jump \/ Miss \/ Consume \/ Forget

Spec == Init /\ [][Next]_viewVars
==============================================================================
