---------------------------- MODULE MCAsyncLogger ----------------------------
(***************************************************************************)
(* Two threads; buffers that are full at two messages, a log file that is  *)
(* rolled over at two, and a failed creation that is retried every second  *)
(* message.                                                                *)
(***************************************************************************)
EXTENDS AsyncLogger, TLC

CONSTANTS c1, c2

MCPlans ==
  { \* Stop while another thread writes and flushes
    c1 :> <<"Start", "Info", "Stop">> @@ c2 :> <<"Info", "Flush">>,
    \* two Flushes at once
    c1 :> <<"Start", "Flush">> @@ c2 :> <<"Warning", "Info", "Flush">>,
    \* more messages than a buffer takes
    c1 :> <<"Start", "Info", "Info", "Info">> @@ c2 :> <<"Info", "Info">> }
==============================================================================
