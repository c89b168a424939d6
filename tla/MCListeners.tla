----------------------------- MODULE MCListeners -----------------------------
(***************************************************************************)
(* Two receivers of a channel and two senders of a message each; one plan  *)
(* lets a receiver come and go twice.                                      *)
(***************************************************************************)
EXTENDS Listeners, TLC

CONSTANTS r1, r2, s1, s2

On(k) == [call |-> "Enable", key |-> k]
Off(k) == [call |-> "Disable", key |-> k]

MCMessages == s1 :> 2 @@ s2 :> 1

MCPlans ==
  { \* two receivers create the handler of the channel
    r1 :> <<On(All), Off(All)>> @@ r2 :> <<On(All)>>,
    \* a receiver comes and goes beside one that stays
    r1 :> <<On(All), On(All), Off(All), On(All)>> @@ r2 :> <<>>,
    \* listeners to one sender
    r1 :> <<On(s1), Off(s1)>> @@ r2 :> <<On(All), On(s1)>> }
==============================================================================
